------------------------ MODULE RunExecutionProofs ------------------------
(***************************************************************************)
(* What the runner job promises while the handlers of a run work on it:    *)
(* it follows its table when short chains of store accesses run one at a   *)
(* time; a single runner process executes the run in one thread at a time  *)
(* however the accesses interleave; a run that completes is whole, and     *)
(* each task is completed once; a run that is not over always has          *)
(* somebody or something left that moves it on; and run and job agree      *)
(* whenever nothing is in flight, so that nothing queued is out of reach   *)
(* and nothing finished comes back.  Run, tasks and job are read and       *)
(* written in separate accesses, so every argument is about what is in     *)
(* flight in between: which accesses a script still holds, and what that   *)
(* rests on.                                                               *)
(***************************************************************************)
EXTENDS RunLifecycleProofs

---------------------------------------------------------------------------
(* Scripts and the job *)

\* The accesses that change the job, or will.
ForJob == { "job", "save", "fail" }

\* A thread about to make one of these may wait.
Waits == { "start", "work", "synthesize" }

\* An access for the job comes after no other one and after no wait.
Ordered(s) ==
  \A i, k \in DOMAIN s :
    i < k /\ s[k].op \in ForJob => s[i].op \notin ForJob \cup Waits

\* In whose name a job that is now e may get the status to.
Named(to, r, e) ==
  /\ to = "claimed" => e = [status |-> "queued", runner |-> NoRunner] /\ r \in RunnerIds
  /\ to = "running" => e = [status |-> "claimed", runner |-> r]
  /\ to \in { "paused", "failed", "cancelled" } => r = e.runner
  /\ to = "queued" => r = NoRunner

\* The records transitionRunnerJob may write over e.
Allowed(e, n) ==
  \/ n = e
  \/ CanTransition(e.status, n.status) /\ Named(n.status, n.runner, e)
  \/ n.status = e.status /\ n.status \in { "blocked", "completed" }

\* The runner NextJob gives the record when the job it reads is e.
RunnerOf(o, e) == IF o.to = "queued" THEN NoRunner
                  ELSE IF o.runner = Keep THEN e.runner ELSE o.runner

\* The accesses for the job in s are right for a job that is e.
Fits(s, e) ==
  \A i \in DOMAIN s :
    /\ s[i].op = "job" => Named(s[i].to, RunnerOf(s[i], e), e)
    /\ s[i].op = "save" => Allowed(e, [status |-> s[i].to, runner |-> s[i].runner])

Sound(s, e) == Ordered(s) /\ Fits(s, e)

\* s leaves the job alone; s does so and does not wait either.
Clear(s) == \A i \in DOMAIN s : s[i].op \notin ForJob
Plain(s) == \A i \in DOMAIN s : s[i].op \notin ForJob \cup Waits

LEMMA ClearIsSound ==
  ASSUME NEW s, NEW e, Clear(s)
  PROVE  Sound(s, e)
  BY DEF Clear, Sound, Ordered, Fits, ForJob

\* What is left when the first access is made.
LEMMA TailIsSound ==
  ASSUME NEW s \in Seq(Ops), s # <<>>, NEW e, Sound(s, e)
  PROVE  /\ Tail(s) \in Seq(Ops)
         /\ Sound(Tail(s), e)
         /\ Head(s).op \in ForJob \cup Waits => Clear(Tail(s))
         /\ Head(s).op = "job" => Named(Head(s).to, RunnerOf(Head(s), e), e)
         /\ Head(s).op = "save" => Allowed(e, [status |-> Head(s).to, runner |-> Head(s).runner])
<1>1. /\ Tail(s) \in Seq(Ops) /\ Len(Tail(s)) = Len(s) - 1 /\ Len(s) \in Nat \ {0}
      /\ \A i \in 1..Len(Tail(s)) : Tail(s)[i] = s[i + 1]
      /\ Head(s) = s[1]
  BY HeadTailProperties, EmptySeq, LenProperties
<1>2. DOMAIN s = 1..Len(s) /\ DOMAIN Tail(s) = 1..Len(Tail(s))
  BY <1>1, LenProperties
<1>3. Ordered(Tail(s))
  <2> SUFFICES ASSUME NEW i \in 1..Len(Tail(s)), NEW k \in 1..Len(Tail(s)),
                      i < k, Tail(s)[k].op \in ForJob
               PROVE  Tail(s)[i].op \notin ForJob \cup Waits
    BY <1>2 DEF Ordered
  <2>1. i + 1 \in DOMAIN s /\ k + 1 \in DOMAIN s /\ i + 1 < k + 1
    BY <1>1, <1>2
  <2>2. Tail(s)[i] = s[i + 1] /\ Tail(s)[k] = s[k + 1]
    BY <1>1
  <2>. QED  BY <2>1, <2>2 DEF Sound, Ordered
<1>4. Fits(Tail(s), e)
  <2> SUFFICES ASSUME NEW i \in 1..Len(Tail(s))
               PROVE  /\ Tail(s)[i].op = "job"
                           => Named(Tail(s)[i].to, RunnerOf(Tail(s)[i], e), e)
                      /\ Tail(s)[i].op = "save"
                           => Allowed(e, [status |-> Tail(s)[i].to, runner |-> Tail(s)[i].runner])
    BY <1>2 DEF Fits
  <2>1. i + 1 \in DOMAIN s /\ Tail(s)[i] = s[i + 1]
    BY <1>1, <1>2
  <2>. QED  BY <2>1 DEF Sound, Fits
<1>5. ASSUME Head(s).op \in ForJob \cup Waits PROVE Clear(Tail(s))
  <2> SUFFICES ASSUME NEW i \in 1..Len(Tail(s)) PROVE Tail(s)[i].op \notin ForJob
    BY <1>2 DEF Clear
  <2>1. 1 \in DOMAIN s /\ i + 1 \in DOMAIN s /\ 1 < i + 1 /\ Tail(s)[i] = s[i + 1]
    BY <1>1, <1>2
  <2>. QED  BY <1>1, <1>5, <2>1 DEF Sound, Ordered
<1>6. 1 \in DOMAIN s
  BY <1>1, <1>2
<1>. QED  BY <1>1, <1>3, <1>4, <1>5, <1>6 DEF Sound, Fits

\* A sound script before one that leaves the job alone, and a plain one before
\* a sound one.
LEMMA JoinIsSound ==
  ASSUME NEW r \in Seq(Ops), NEW t \in Seq(Ops), NEW e,
         \/ Sound(r, e) /\ Clear(t)
         \/ Plain(r) /\ Sound(t, e)
  PROVE  Sound(r \o t, e)
<1> DEFINE s == r \o t
<1>1. /\ DOMAIN r = 1..Len(r) /\ DOMAIN t = 1..Len(t) /\ DOMAIN s = 1..(Len(r) + Len(t))
      /\ Len(r) \in Nat /\ Len(t) \in Nat
  BY LenProperties, ConcatProperties
<1>2. \A i \in DOMAIN s : \/ i \in DOMAIN r /\ s[i] = r[i]
                          \/ i - Len(r) \in DOMAIN t /\ i > Len(r) /\ s[i] = t[i - Len(r)]
  BY <1>1, ConcatProperties
<1> HIDE DEF s
<1>3. ASSUME NEW i \in DOMAIN s
      PROVE  /\ s[i].op = "job" => Named(s[i].to, RunnerOf(s[i], e), e)
             /\ s[i].op = "save" => Allowed(e, [status |-> s[i].to, runner |-> s[i].runner])
  BY <1>2 DEF Sound, Fits, Clear, Plain, ForJob
<1>4. ASSUME NEW i \in DOMAIN s, NEW k \in DOMAIN s, i < k, s[k].op \in ForJob
      PROVE  s[i].op \notin ForJob \cup Waits
  <2>1. CASE k \in DOMAIN r /\ s[k] = r[k]
    <3>1. i \in DOMAIN r /\ s[i] = r[i]
      BY <1>1, <1>2, <1>4, <2>1
    <3>. QED  BY <1>4, <2>1, <3>1 DEF Sound, Ordered, Plain
  <2>2. CASE k - Len(r) \in DOMAIN t /\ k > Len(r) /\ s[k] = t[k - Len(r)]
    <3>1. Plain(r) /\ Sound(t, e)
      BY <1>4, <2>2 DEF Clear
    <3>2. CASE i \in DOMAIN r /\ s[i] = r[i]
      BY <3>1, <3>2 DEF Plain
    <3>3. CASE i - Len(r) \in DOMAIN t /\ i > Len(r) /\ s[i] = t[i - Len(r)]
      <4>1. i - Len(r) < k - Len(r)
        BY <1>1, <1>4
      <4>. QED  BY <1>4, <2>2, <3>1, <3>3, <4>1 DEF Sound, Ordered
    <3>. QED  BY <1>2, <3>2, <3>3
  <2>. QED  BY <1>2, <2>1, <2>2
<1>5. Sound(s, e)
  BY <1>3, <1>4 DEF Sound, Ordered, Fits
<1>. QED  BY <1>5 DEF s

\* Short scripts.
LEMMA ShortIsClear ==
  ASSUME NEW a, a.op \notin ForJob
  PROVE  /\ Clear(<<>>) /\ Plain(<<>>) /\ Clear(<<a>>)
         /\ a.op \notin Waits => Plain(<<a>>)
         /\ \A b : b.op \notin ForJob => Clear(<<a, b>>)
         /\ \A b, c : b.op \notin ForJob /\ c.op \notin ForJob => Clear(<<a, b, c>>)
  BY DEF Clear, Plain

LEMMA ShortIsSound ==
  ASSUME NEW o, NEW e, o.op = "fail" \/ (o.op = "job" /\ Named(o.to, RunnerOf(o, e), e))
  PROVE  /\ Sound(<<o>>, e)
         /\ \A a : a.op \notin ForJob => Sound(<<o, a>>, e)
         /\ \A a : a.op \notin ForJob \cup Waits => Sound(<<a, o>>, e)
         /\ \A a, b : a.op \notin ForJob \cup Waits /\ b.op \notin ForJob => Sound(<<a, o, b>>, e)
         /\ \A a, b : a.op \notin ForJob \cup Waits /\ b.op \notin ForJob \cup Waits
                        => Sound(<<a, b, o>>, e)
  BY DEF Sound, Ordered, Fits, ForJob, Waits

---------------------------------------------------------------------------
(* The job follows its table when short chains run one at a time *)

\* Nothing in flight would take the job off its table, whoever waits for how
\* long: a thread that waits holds no access for the job, and while another
\* one is between its read and its write nobody else gets at it.
JobInv ==
  /\ job.status = "queued" => job.runner = NoRunner
  /\ \A th \in Threads : Sound(script[th], job)

\* The new script of a thread, when the job stays as it is.
LEMMA JobKept ==
  ASSUME IInv, JobInv, NEW th \in Threads, NEW rest, Sound(rest, job),
         Does(th, rest), UNCHANGED job
  PROVE  JobInv'
<1>1. \A u \in Threads : script'[u] = IF u = th THEN rest ELSE script[u]
  BY DEF Does, IInv, TypeOK
<1>2. \A u \in Threads : Sound(script'[u], job')
  BY <1>1 DEF JobInv
<1>. QED  BY <1>2 DEF JobInv

LEMMA JobLeft ==
  ASSUME IInv, JobInv, NEW th \in Threads, NEW rest, Clear(rest), Does(th, rest),
         UNCHANGED job
  PROVE  JobInv'
  BY ClearIsSound, JobKept

\* What the next access of a thread leaves behind.
LEMMA JobNext ==
  ASSUME IInv, JobInv, NEW th \in Threads, ~Idle(th)
  PROVE  LET s == script[th] IN
         /\ Tail(s) \in Seq(Ops) /\ Sound(Tail(s), job)
         /\ <<>> \o Tail(s) = Tail(s)
         /\ Head(s).op \in ForJob \cup Waits => Clear(Tail(s))
         /\ Head(s).op = "job" => Named(Head(s).to, RunnerOf(Head(s), job), job)
         /\ Head(s).op = "save"
              => Allowed(job, [status |-> Head(s).to, runner |-> Head(s).runner])
<1>1. script[th] \in Seq(Ops) /\ script[th] # <<>> /\ Sound(script[th], job)
  BY DEF IInv, TypeOK, Idle, JobInv
<1>2. Tail(script[th]) \in Seq(Ops)
  BY <1>1, TailIsSound
<1>3. <<>> \o Tail(script[th]) = Tail(script[th])
  BY <1>2, ConcatEmptySeq
<1>. QED  BY <1>1, <1>2, <1>3, TailIsSound

\* A thread that waits, or has nothing to do, has no access for the job.
LEMMA ParkedIsClear ==
  ASSUME IInv, JobInv, NEW th \in Threads, Parked(th)
  PROVE  Clear(script[th])
<1>1. script[th] \in Seq(Ops)
  BY DEF IInv, TypeOK
<1>2. CASE Idle(th)
  BY <1>2 DEF Idle, Clear
<1>3. CASE ~Idle(th)
  <2>1. /\ DOMAIN script[th] = 1..Len(script[th]) /\ Len(script[th]) \in Nat \ {0}
        /\ Head(script[th]) = script[th][1]
    BY <1>1, <1>3, LenProperties, EmptySeq DEF Idle
  <2>2. script[th][1].op \in Waits
    BY <1>3, <2>1 DEF Parked, Waits
  <2>3. ASSUME NEW i \in DOMAIN script[th] PROVE script[th][i].op \notin ForJob
    <3>1. CASE i = 1
      BY <2>2, <3>1 DEF Waits, ForJob
    <3>2. CASE i # 1
      <4>1. 1 \in DOMAIN script[th] /\ 1 < i
        BY <2>1, <3>2
      <4>. QED  BY <2>2, <4>1 DEF JobInv, Sound, Ordered
    <3>. QED  BY <3>1, <3>2
  <2>. QED  BY <2>3 DEF Clear
<1>. QED  BY <1>2, <1>3

\* A step that follows its table when it changes the job.
FollowsTable == [Job!Next]_job

LEMMA AllowedIsNext ==
  ASSUME IInv, JobInv, Allowed(job, job'),
         job' \in [status : JobStatus, runner : RunnerIds \cup {NoRunner}]
  PROVE  FollowsTable /\ (job'.status = "queued" => job'.runner = NoRunner)
<1>1. /\ job \in [status : JobStatus, runner : RunnerIds \cup {NoRunner}]
      /\ job.status = "queued" => job.runner = NoRunner
  BY DEF IInv, TypeOK, JobInv
<1>2. CASE job' = job
  BY <1>1, <1>2 DEF FollowsTable
<1>3. CASE job'.status = job.status /\ job'.status \in { "blocked", "completed" }
  BY <1>1, <1>3 DEF FollowsTable, Job!Next, Job!Block, Job!Complete, Job!Reports
<1>4. CASE CanTransition(job.status, job'.status) /\ Named(job'.status, job'.runner, job)
  <2>1. CASE job'.status = "claimed"
    BY <1>1, <1>4, <2>1 DEF Named, FollowsTable, Job!Next, Job!Claim, Job!Waits
  <2>2. CASE job'.status = "running"
    BY <1>1, <1>4, <2>2 DEF Named, FollowsTable, Job!Next, Job!Begin, Job!Moves
  <2>3. CASE job'.status \in { "paused", "failed", "cancelled" }
    <3>1. job' = [job EXCEPT !.status = job'.status]
      BY <1>1, <1>4, <2>3 DEF Named
    <3>2. \/ job'.status = "paused" /\ job.status \in { "queued", "claimed", "running" }
          \/ job'.status = "failed" /\ job.status \in { "claimed", "running", "blocked" }
          \/ /\ job'.status = "cancelled"
             /\ job.status \in { "queued", "claimed", "running", "blocked", "paused" }
      BY <1>1, <1>4, <2>3 DEF CanTransition, JobMoves, JobStatus
    <3>. QED  BY <2>3, <3>1, <3>2
              DEF FollowsTable, Job!Next, Job!Pause, Job!Fail, Job!Cancel, Job!Moves
  <2>4. CASE job'.status = "queued"
    <3>1. job' = [status |-> "queued", runner |-> NoRunner]
      BY <1>4, <2>4 DEF Named
    <3>2. job.status \in { "blocked", "paused" }
      BY <1>1, <1>4, <2>4 DEF CanTransition, JobMoves, JobStatus
    <3>. QED  BY <3>1, <3>2 DEF FollowsTable, Job!Next, Job!Requeue, Job!Waits
  <2>5. CASE job'.status \in { "blocked", "completed" }
    <3>1. job.status = "running"
      BY <1>1, <1>4, <2>5 DEF CanTransition, JobMoves, JobStatus
    <3>. QED  BY <1>1, <2>5, <3>1
              DEF FollowsTable, Job!Next, Job!Block, Job!Complete, Job!Reports
  <2>. QED  BY <2>1, <2>2, <2>3, <2>4, <2>5 DEF JobStatus
<1>. QED  BY <1>2, <1>3, <1>4 DEF Allowed

\* A step that leaves the job as it is and the invariant intact.
LEMMA StillFollows ==
  ASSUME UNCHANGED job
  PROVE  FollowsTable
  BY DEF FollowsTable

LEMMA JobStoreSteps ==
  ASSUME ~Overlap, IInv, JobInv, NEW th \in Threads, StoreStep(th)
  PROVE  JobInv' /\ FollowsTable
<1>0. Plain(<<>>) /\ Clear(<<>>)
  BY DEF Plain, Clear
<1>1. CASE RunWrite(th) \/ TaskWrite(th)
  <2>1. ~Idle(th) /\ Follow(th, <<>>) /\ UNCHANGED job
    BY <1>1 DEF RunWrite, TaskWrite, At
  <2>. QED  BY <2>1, JobNext, JobKept, StillFollows DEF Follow
<1>2. CASE JobRead(th)
  <2> DEFINE o    == Head(script[th])
             next == NextJob(o.to, o.runner)
             save == Op("save", 0, next.status, next.runner, FALSE, FALSE)
  <2>1. ~Idle(th) /\ o.op = "job" /\ UNCHANGED job
    BY <1>2 DEF JobRead, At, store
  <2>2. /\ Named(o.to, RunnerOf(o, job), job) /\ Clear(Tail(script[th]))
        /\ Tail(script[th]) \in Seq(Ops) /\ <<>> \o Tail(script[th]) = Tail(script[th])
    BY <2>1, JobNext DEF ForJob
  <2>3. next = [status |-> o.to, runner |-> RunnerOf(o, job)]
    BY DEF NextJob, RunnerOf
  <2>4. CASE (o.to = job.status \/ CanTransition(job.status, o.to)) /\ Follow(th, << save >>)
    <3>1. Allowed(job, next)
      <4>1. CASE CanTransition(job.status, o.to)
        BY <2>2, <2>3, <4>1 DEF Allowed
      <4>2. CASE o.to = job.status
        <5>1. job = [status |-> job.status, runner |-> job.runner] /\ job.status \in JobStatus
          BY DEF IInv, TypeOK
        <5>2. job.status = "queued" => job.runner = NoRunner
          BY DEF JobInv
        <5>. QED  BY <2>2, <2>3, <4>2, <5>1, <5>2 DEF Allowed, Named, JobStatus
      <4>. QED  BY <2>4, <4>1, <4>2
    <3>2. save.op = "save" /\ [status |-> save.to, runner |-> save.runner] = next
      BY <2>3 DEF Op
    <3>3. Sound(<< save >>, job)
      <4> HIDE DEF save, next
      <4>1. Allowed(job, [status |-> save.to, runner |-> save.runner])
        BY <3>1, <3>2
      <4>. QED  BY <3>2, <4>1 DEF Sound, Ordered, Fits
    <3>4. << save >> \in Seq(Ops)
      <4>1. /\ o.to \in JobStatus /\ o.runner \in RunnerIds \cup {NoRunner, Keep}
            /\ job.runner \in RunnerIds \cup {NoRunner}
        BY <2>1, NextAccess, OpShape DEF IInv, TypeOK
      <4>2. next.status \in JobStatus /\ next.runner \in RunnerIds \cup {NoRunner}
        BY <4>1 DEF NextJob
      <4>3. save \in Ops
        BY <4>2 DEF Ops, Op
      <4>. QED  BY <4>3, Tuples
    <3>5. Sound(<< save >> \o Tail(script[th]), job)
      BY <2>2, <3>3, <3>4, JoinIsSound
    <3>6. Does(th, << save >> \o Tail(script[th]))
      BY <2>4 DEF Follow
    <3>. QED  BY <2>1, <3>5, <3>6, JobKept, StillFollows
  <2>5. CASE Follow(th, <<>>)
    <3>1. Does(th, Tail(script[th]))
      BY <2>2, <2>5 DEF Follow
    <3>. QED  BY <2>1, <2>2, <3>1, JobLeft, StillFollows
  <2>6. CASE Does(th, <<>>)
    BY <1>0, <2>1, <2>6, JobLeft, StillFollows
  <2>. QED  BY <1>2, <2>4, <2>5, <2>6 DEF JobRead
<1>3. CASE JobWrite(th)
  <2>1. /\ ~Idle(th) /\ Head(script[th]).op = "save"
        /\ job' = [status |-> To(th), runner |-> Head(script[th]).runner]
    BY <1>3 DEF JobWrite, At
  <2>2. /\ Allowed(job, job') /\ Clear(Tail(script[th]))
        /\ <<>> \o Tail(script[th]) = Tail(script[th])
    BY <2>1, JobNext DEF ForJob, To
  <2>3. job' \in [status : JobStatus, runner : RunnerIds \cup {NoRunner}]
    BY <2>1, NextAccess, OpShape DEF To
  <2>4. FollowsTable /\ (job'.status = "queued" => job'.runner = NoRunner)
    BY <2>2, <2>3, AllowedIsNext
  <2>5. \A u \in Threads : Clear(script'[u])
    <3>1. script' = [script EXCEPT ![th] = Tail(script[th])]
      BY <1>3, <2>2 DEF JobWrite, Follow, Does
    <3>2. \A u \in Threads : script'[u] = IF u = th THEN Tail(script[th]) ELSE script[u]
      BY <3>1 DEF IInv, TypeOK
    <3>3. \A u \in Threads \ {th} : Clear(script[u])
      BY <1>3, ParkedIsClear DEF JobWrite, MayRun
    <3>. QED  BY <2>2, <3>2, <3>3
  <2>6. \A u \in Threads : Sound(script'[u], job')
    BY <2>5, ClearIsSound
  <2>. QED  BY <2>4, <2>6 DEF JobInv
<1>4. CASE Bail(th)
  <2>1. Does(th, <<>>) /\ UNCHANGED job
    BY <1>4 DEF Bail, store
  <2>. QED  BY <1>0, <2>1, JobLeft, StillFollows
<1>5. CASE Failing(th)
  <2> DEFINE rest    == << SetRun("failed", FALSE), SetJob("failed", Keep) >>
             one(t)  == << SetTask(t, "failed", FALSE) >>
  <2>1. ~Idle(th) /\ Head(script[th]).op = "fail" /\ UNCHANGED job
    BY <1>5 DEF Failing, At, store
  <2>2. Clear(Tail(script[th])) /\ Tail(script[th]) \in Seq(Ops)
    BY <2>1, JobNext DEF ForJob
  <2>3. /\ SetRun("failed", FALSE) \in Ops /\ SetJob("failed", Keep) \in Ops
        /\ \A t \in Tasks : SetTask(t, "failed", FALSE) \in Ops
    BY SafeSets, SafeJobs DEF RunStatus, TaskStatus, JobStatus, Safe
  <2>4. /\ SetRun("failed", FALSE).op = "run"
        /\ \A t \in Tasks : SetTask(t, "failed", FALSE).op = "task"
        /\ SetJob("failed", Keep).op = "job" /\ SetJob("failed", Keep).to = "failed"
        /\ SetJob("failed", Keep).runner = Keep
    BY DEF SetRun, SetTask, SetJob, Op
  <2>5. rest \in Seq(Ops) /\ \A t \in Tasks : one(t) \in Seq(Ops)
    BY <2>3, Tuples
  <2>6. Sound(rest, job)
    <3> DEFINE a == SetRun("failed", FALSE)
               o == SetJob("failed", Keep)
    <3>1. Named(o.to, RunnerOf(o, job), job)
      BY <2>4 DEF Named, RunnerOf
    <3>. QED  BY <2>4, <3>1, ShortIsSound DEF ForJob, Waits
  <2>7. \A t \in Tasks : one(t) \o rest \in Seq(Ops) /\ Sound(one(t) \o rest, job)
    <3> SUFFICES ASSUME NEW t \in Tasks
                 PROVE  one(t) \o rest \in Seq(Ops) /\ Sound(one(t) \o rest, job)
      OBVIOUS
    <3>1. Plain(one(t))
      BY <2>4, ShortIsClear DEF ForJob, Waits
    <3> HIDE DEF one, rest
    <3>. QED  BY <2>5, <2>6, <3>1, JoinIsSound, ConcatProperties
  <2>8. PICK more \in Seq(Ops) : Sound(more, job) /\ Follow(th, more)
    <3> HIDE DEF rest, one
    <3>1. Arg(th) \in Tasks \cup {0}
      BY <2>1, NextAccess, OpShape DEF Arg
    <3>2. \/ \E t \in Tasks : Follow(th, one(t) \o rest)
          \/ Follow(th, rest)
      BY <1>5, <3>1 DEF Failing, rest, one
    <3>. QED  BY <2>5, <2>6, <2>7, <3>2
  <2>9. Sound(more \o Tail(script[th]), job)
    BY <2>2, <2>8, JoinIsSound
  <2>. QED  BY <2>1, <2>8, <2>9, JobKept, StillFollows DEF Follow
<1>. QED  BY <1>1, <1>2, <1>3, <1>4, <1>5 DEF StoreStep

LEMMA JobExecSteps ==
  ASSUME IInv, JobInv, NEW th \in Threads, ExecStep(th) \/ WorkProposes(th)
  PROVE  JobInv' /\ FollowsTable
<1>0. Clear(<<>>)
  BY DEF Clear
<1>1. CASE ExecReturn(th)
  BY <1>0, <1>1, JobLeft, StillFollows DEF ExecReturn, Executing, store
<1>2. CASE ExecNoTaskLeft(th)
  <2>1. Clear(<< Op("synthesize", Arg(th), "", job.runner, TRUE, FALSE) >>)
    BY ShortIsClear DEF Op, ForJob
  <2>. QED  BY <1>2, <2>1, JobLeft, StillFollows DEF ExecNoTaskLeft, Proceeding, Executing, store
<1>3. CASE ExecProviderInvalid(th) \/ ExecProviderThrows(th) \/ WorkFails(th) \/ SynthesisThrows(th)
  <2>1. \A t : Sound(<< FailRun(t) >>, job)
    BY ShortIsSound DEF FailRun, Op
  <2>2. /\ (\E t : Does(th, << FailRun(t) >>)) \/ Does(th, <<>>)
        /\ UNCHANGED job
    BY <1>3 DEF ExecProviderInvalid, ExecProviderThrows, WorkFails, SynthesisThrows, Rejected,
                Proceeding, Executing, store
  <2>. QED  BY <1>0, <2>1, <2>2, JobKept, JobLeft, StillFollows
<1>4. CASE ExecHeld(th) \/ ExecAsks(th)
  <2>1. ASSUME NEW t, NEW bail PROVE Sound(Hold(t, bail), job)
    <3> DEFINE a == SetTask(t, "blocked", bail)
               b == SetRun("blocked", bail)
               o == SetJob("blocked", job.runner)
    <3>1. a.op = "task" /\ b.op = "run" /\ o.op = "job" /\ o.to = "blocked"
      BY DEF SetTask, SetRun, SetJob, Op
    <3>2. Named(o.to, RunnerOf(o, job), job)
      BY <3>1 DEF Named
    <3> HIDE DEF a, b, o
    <3>3. Sound(<<a, b, o>>, job)
      BY <3>1, <3>2, ShortIsSound DEF ForJob, Waits
    <3>. QED  BY <3>3 DEF a, b, o, Hold
  <2>2. ASSUME NEW t \in NeedsApproval
        PROVE  Sound(<< Then("ask", t, "pending") >> \o Hold(t, TRUE), job)
    <3>1. Plain(<< Then("ask", t, "pending") >>)
      BY ShortIsClear DEF Then, Op, ForJob, Waits
    <3>2. << Then("ask", t, "pending") >> \in Seq(Ops)
      BY SafeTasks, Tuples, TasksAssumption DEF Safe
    <3>3. Hold(t, TRUE) \in Seq(Ops)
      BY HoldIsSafe, SeqMonotonic, TasksAssumption DEF Safe
    <3>. QED  BY <2>1, <3>1, <3>2, <3>3, JoinIsSound
  <2>3. PICK rest : Sound(rest, job) /\ Does(th, rest)
    BY <1>4, <2>1, <2>2 DEF ExecHeld, ExecAsks
  <2>4. UNCHANGED job
    BY <1>4 DEF ExecHeld, ExecAsks, Proceeding, Executing, store
  <2>. QED  BY <2>3, <2>4, JobKept, StillFollows
<1>5. CASE ExecBegins(th)
  <2>1. \A t : Clear(<< SetRun("running", TRUE), SetTask(t, "running", TRUE),
                        Op("work", t, "", Keep, TRUE, FALSE) >>)
    BY ShortIsClear DEF SetRun, SetTask, Op, ForJob
  <2>. QED  BY <1>5, <2>1, JobLeft, StillFollows DEF ExecBegins, Proceeding, Executing, store
<1>6. CASE Ask(th)
  <2>1. ~Idle(th) /\ Follow(th, <<>>) /\ UNCHANGED job
    BY <1>6 DEF Ask, At
  <2>. QED  BY <2>1, JobNext, JobKept, StillFollows DEF Follow
<1>7. CASE WorkDone(th)
  <2>1. Clear(<< SetTask(Arg(th), "completed", FALSE),
                 Op("recheck", Arg(th), "", Keep, TRUE, FALSE) >>)
    BY ShortIsClear DEF SetTask, Op, ForJob
  <2>. QED  BY <1>7, <2>1, JobLeft, StillFollows DEF WorkDone, store
<1>8. CASE Recheck(th)
  <2>1. Clear(<< Execute(Arg(th)) >>)
    BY ShortIsClear DEF Execute, Op, ForJob
  <2>. QED  BY <1>0, <1>8, <2>1, JobLeft, StillFollows DEF Recheck, store
<1>9. CASE Synthesized(th)
  <2> DEFINE o == Op("job", 0, "completed", Head(script[th]).runner, TRUE, FALSE)
             a == SetRun("completed", TRUE)
  <2>1. a.op = "run" /\ o.op = "job" /\ o.to = "completed"
    BY DEF SetRun, Op
  <2>2. Named(o.to, RunnerOf(o, job), job)
    BY <2>1 DEF Named
  <2>3. Sound(<<o, a>>, job)
    <3> HIDE DEF o, a
    <3>. QED  BY <2>1, <2>2, ShortIsSound DEF ForJob
  <2>. QED  BY <1>9, <2>3, JobKept, StillFollows DEF Synthesized, store
<1>10. CASE WorkProposes(th)
  <2> DEFINE ask == << Then("ask", Arg(th), "pending") >>
  <2>1. Plain(ask)
    BY ShortIsClear DEF Then, Op, ForJob, Waits
  <2>2. Arg(th) \in Tasks
    BY <1>10, NextAccess, OpShape DEF WorkProposes, At, Arg
  <2>3. ask \in Seq(Ops)
    BY <2>2, SafeTasks, Tuples DEF Safe
  <2>4. script[th] \in Seq(Ops) /\ Sound(script[th], job)
    BY DEF IInv, TypeOK, JobInv
  <2>5. Sound(ask \o script[th], job)
    BY <2>1, <2>3, <2>4, JoinIsSound
  <2>. QED  BY <1>10, <2>5, JobKept, StillFollows DEF WorkProposes, store
<1>. QED  BY <1>1, <1>2, <1>3, <1>4, <1>5, <1>6, <1>7, <1>8, <1>9, <1>10 DEF ExecStep

LEMMA JobAfterSteps ==
  ASSUME IInv, JobInv, NEW th \in Threads, AfterStep(th)
  PROVE  JobInv' /\ FollowsTable
<1>0. Clear(<<>>)
  BY DEF Clear
<1>1. CASE Start(th)
  <2> DEFINE o == MustSetJob("running", RunnerId[Home[th]])
             a == SetRun("running", FALSE)
             b == Execute(0)
  <2>1. /\ a.op = "run" /\ b.op = "exec" /\ o.op = "job" /\ o.to = "running"
        /\ o.runner = RunnerId[Home[th]]
    BY DEF SetRun, Execute, MustSetJob, Op
  <2>2. UNCHANGED job
    BY <1>1 DEF Start, store
  <2>3. CASE Does(th, <<>>)
    BY <1>0, <2>2, <2>3, JobLeft, StillFollows
  <2>4. CASE /\ job = [status |-> "claimed", runner |-> RunnerId[Home[th]]]
             /\ Does(th, <<a, o, b>>)
    <3>1. job.runner # Keep
      BY RunnerAssumption DEF IInv, TypeOK, NoRunner, Keep
    <3>2. Named(o.to, RunnerOf(o, job), job)
      BY <2>1, <2>4, <3>1 DEF Named, RunnerOf
    <3>3. Sound(<<a, o, b>>, job)
      <4> HIDE DEF a, o, b
      <4>. QED  BY <2>1, <3>2, ShortIsSound DEF ForJob, Waits
    <3>. QED  BY <2>2, <2>4, <3>3, JobKept, StillFollows
  <2>. QED  BY <1>1, <2>3, <2>4 DEF Start
<1>2. CASE Decided(th)
  <2> DEFINE a == SetRun("queued", FALSE)
             b == SetTask(Arg(th), "queued", FALSE)
             o == SetJob("queued", Keep)
  <2>1. a.op = "run" /\ b.op = "task" /\ o.op = "job" /\ o.to = "queued"
    BY DEF SetRun, SetTask, SetJob, Op
  <2>2. Named(o.to, RunnerOf(o, job), job)
    BY <2>1 DEF Named, RunnerOf
  <2>3. Sound(<< FailRun(Arg(th)) >>, job)
    BY ShortIsSound DEF FailRun, Op
  <2>4. Arg(th) \in Tasks
    BY <1>2, NextAccess, OpShape DEF Decided, At, Arg
  <2>5. a \in Ops /\ b \in Ops /\ o \in Ops
    BY <2>4, SafeSets, SafeJobs DEF RunStatus, TaskStatus, JobStatus, Safe
  <2>6. Plain(<<a, b>>) /\ Sound(<<o>>, job) /\ Clear(<<>>)
    <3> HIDE DEF a, b, o
    <3>1. Plain(<<a, b>>)
      BY <2>1 DEF Plain, ForJob, Waits
    <3>. QED  BY <1>0, <2>1, <2>2, <3>1, ShortIsSound
  <2>7. Sound(<<a, b>> \o <<o>>, job) /\ Sound(<<a, b>> \o <<>>, job)
    <3> HIDE DEF a, b, o
    <3>1. <<a, b>> \in Seq(Ops) /\ <<o>> \in Seq(Ops) /\ <<>> \in Seq(Ops)
      BY <2>5, Tuples, EmptySeq
    <3>. QED  BY <2>6, <3>1, JoinIsSound, ClearIsSound
  <2>8. PICK rest : Sound(rest, job) /\ Does(th, rest)
    <3>1. \/ Does(th, <<a, b>> \o <<o>>) \/ Does(th, <<a, b>> \o <<>>)
          \/ Does(th, << FailRun(Arg(th)) >>)
      BY <1>2 DEF Decided
    <3>. QED  BY <2>3, <2>7, <3>1
  <2>9. UNCHANGED job
    BY <1>2 DEF Decided, store
  <2>. QED  BY <2>8, <2>9, JobKept, StillFollows
<1>3. CASE ExpireWrite(th) \/ OpenQuestion(th)
  <2>1. ~Idle(th) /\ Follow(th, <<>>) /\ UNCHANGED job
    BY <1>3 DEF ExpireWrite, OpenQuestion, At
  <2>. QED  BY <2>1, JobNext, JobKept, StillFollows DEF Follow
<1>4. CASE ResolveWrite(th) \/ CloseQuestion(th)
  <2>1. /\ ~Idle(th) /\ UNCHANGED job
        /\ \/ Follow(th, <<>>)
           \/ \E kind \in {"resolved", "closed"} : Follow(th, << Then(kind, 0, "") >>)
    BY <1>4 DEF ResolveWrite, CloseQuestion, At
  <2>2. ASSUME NEW kind \in {"resolved", "closed"}
        PROVE  Sound(<< Then(kind, 0, "") >> \o Tail(script[th]), job)
    <3>1. Plain(<< Then(kind, 0, "") >>)
      BY ShortIsClear DEF Then, Op, ForJob, Waits
    <3>2. << Then(kind, 0, "") >> \in Seq(Ops)
      BY SafeRest, Tuples DEF RunStatus, Safe
    <3>. QED  BY <2>1, <3>1, <3>2, JobNext, JoinIsSound
  <2>. QED  BY <2>1, <2>2, JobNext, JobKept, StillFollows DEF Follow
<1>5. CASE Resolved(th) \/ Replied(th)
  <2> DEFINE o == SetJob("queued", Keep)
  <2>1. o.op = "job" /\ o.to = "queued"
    BY DEF SetJob, Op
  <2>2. Named(o.to, RunnerOf(o, job), job)
    BY <2>1 DEF Named, RunnerOf
  <2>3. Sound(<<o>>, job)
    BY <2>1, <2>2, ShortIsSound
  <2>4. (Does(th, <<o>>) \/ Does(th, <<>>)) /\ UNCHANGED job
    BY <1>5 DEF Resolved, Replied, store
  <2>. QED  BY <1>0, <2>3, <2>4, JobKept, JobLeft, StillFollows
<1>6. CASE Closed(th)
  <2>1. Clear(<< SetRun("queued", FALSE), Then("replied", 0, "") >>)
    BY ShortIsClear DEF SetRun, Then, Op, ForJob
  <2>2. /\ Does(th, << SetRun("queued", FALSE), Then("replied", 0, "") >>) \/ Does(th, <<>>)
        /\ UNCHANGED job
    BY <1>6 DEF Closed, store
  <2>. QED  BY <1>0, <2>1, <2>2, JobLeft, StillFollows
<1>. QED  BY <1>1, <1>2, <1>3, <1>4, <1>5, <1>6 DEF AfterStep

LEMMA JobRequestSteps ==
  ASSUME IInv, JobInv, NEW th \in Threads, RequestStep(th)
  PROVE  JobInv' /\ FollowsTable
<1>1. CASE Pause(th) \/ Resume(th) \/ Cancel(th)
  <2> DEFINE a(status) == << SetRun(status, FALSE) >>
             o(status) == SetJob(status, IF status = "queued" THEN Keep ELSE job.runner)
  <2>1. PICK status \in { "paused", "queued", "cancelled" } :
          Does(th, a(status) \o << o(status) >>) \/ Does(th, a(status) \o <<>>)
    <3>1. CASE Pause(th)
      <4>1. Does(th, a("paused") \o << o("paused") >>) \/ Does(th, a("paused") \o <<>>)
        BY <3>1 DEF Pause
      <4>. QED  BY <4>1
    <3>2. CASE Resume(th)
      <4>1. Does(th, a("queued") \o << o("queued") >>) \/ Does(th, a("queued") \o <<>>)
        BY <3>2 DEF Resume
      <4>. QED  BY <4>1
    <3>3. CASE Cancel(th)
      <4>1. Does(th, a("cancelled") \o << o("cancelled") >>) \/ Does(th, a("cancelled") \o <<>>)
        BY <3>3 DEF Cancel
      <4>. QED  BY <4>1
    <3>. QED  BY <1>1, <3>1, <3>2, <3>3
  <2>2. /\ o(status).op = "job" /\ o(status).to = status
        /\ o(status).runner = IF status = "queued" THEN Keep ELSE job.runner
    BY DEF SetJob, Op
  <2>3. job.runner \in RunnerIds \cup {NoRunner} /\ job.runner # Keep
    BY RunnerAssumption DEF IInv, TypeOK, NoRunner, Keep
  <2>4. Named(o(status).to, RunnerOf(o(status), job), job)
    BY <2>2, <2>3 DEF Named, RunnerOf
  <2>5. Plain(a(status))
    BY ShortIsClear DEF SetRun, Op, ForJob, Waits
  <2>6. a(status) \in Seq(Ops) /\ << o(status) >> \in Seq(Ops) /\ <<>> \in Seq(Ops)
    <3>1. SetRun(status, FALSE) \in Ops
      BY SafeSets DEF RunStatus, Safe
    <3>2. o(status) \in Ops
      BY <2>3, SafeJobs DEF JobStatus, Safe
    <3>. QED  BY <3>1, <3>2, Tuples, EmptySeq
  <2>7. Sound(<< o(status) >>, job) /\ Sound(<<>>, job)
    <3> HIDE DEF o
    <3>1. Clear(<<>>)
      BY DEF Clear
    <3>. QED  BY <2>2, <2>4, <3>1, ShortIsSound, ClearIsSound
  <2>8. Sound(a(status) \o << o(status) >>, job) /\ Sound(a(status) \o <<>>, job)
    <3> HIDE DEF a, o
    <3>. QED  BY <2>5, <2>6, <2>7, JoinIsSound
  <2>9. UNCHANGED job
    BY <1>1 DEF Pause, Resume, Cancel, store
  <2>. QED  BY <2>1, <2>8, <2>9, JobKept, StillFollows
<1>2. CASE ReportFailure(th)
  <2>1. Sound(<< FailRun(0) >>, job)
    BY ShortIsSound DEF FailRun, Op
  <2>. QED  BY <1>2, <2>1, JobKept, StillFollows DEF ReportFailure, store
<1>3. CASE Decide(th) \/ Propose(th) \/ Expire(th) \/ AskUser(th) \/ Resolve(th) \/ Reply(th)
  <2>1. \A kind \in {"decided", "ask", "expire", "open", "resolve", "close"} :
          \A arg, to : Clear(<< Then(kind, arg, to) >>)
    BY ShortIsClear DEF Then, Op, ForJob
  <2>2. /\ \E kind \in {"decided", "ask", "expire", "open", "resolve", "close"} :
             \E arg, to : Does(th, << Then(kind, arg, to) >>)
        /\ UNCHANGED job
    BY <1>3 DEF Decide, Propose, Expire, AskUser, Resolve, Reply, store
  <2>. QED  BY <2>1, <2>2, JobLeft, StillFollows
<1>. QED  BY <1>1, <1>2, <1>3 DEF RequestStep

LEMMA JobClaims ==
  ASSUME IInv, JobInv, NEW th \in Threads, Claim(th)
  PROVE  JobInv' /\ FollowsTable
<1> DEFINE o == MustSetJob("claimed", RunnerId[Home[th]])
           a == Then("start", 0, "")
<1>1. /\ a.op = "start" /\ o.op = "job" /\ o.to = "claimed" /\ o.runner = RunnerId[Home[th]]
  BY DEF MustSetJob, Then, Op
<1>2. RunnerId[Home[th]] \in RunnerIds /\ RunnerId[Home[th]] # Keep
  BY RunnerAssumption DEF Claim, RunnerIds
<1>3. job = [status |-> "queued", runner |-> NoRunner]
  BY DEF Claim, JobInv, IInv, TypeOK
<1>4. Named(o.to, RunnerOf(o, job), job)
  BY <1>1, <1>2, <1>3 DEF Named, RunnerOf
<1>5. Sound(<<o, a>>, job)
  <2> HIDE DEF o, a
  <2>. QED  BY <1>1, <1>4, ShortIsSound DEF ForJob
<1>. QED  BY <1>5, JobKept, StillFollows DEF Claim, store

LEMMA JobProcSteps ==
  ASSUME ~Overlap, IInv, JobInv, NEW p \in Procs, ProcStep(p)
  PROVE  JobInv' /\ FollowsTable
<1>0. Clear(<<>>)
  BY DEF Clear
<1>1. CASE Crash(p) \/ Stopped(p)
  <2>1. /\ script' = [th \in Threads |-> IF Home[th] = p THEN <<>> ELSE script[th]]
        /\ UNCHANGED job
    BY <1>1 DEF Crash, Stopped, store
  <2>2. \A th \in Threads : Sound(script'[th], job')
    BY <1>0, <2>1, ClearIsSound DEF JobInv
  <2>. QED  BY <2>1, <2>2, StillFollows DEF JobInv
<1>2. CASE Shutdown(p)
  BY <1>2, StillFollows DEF Shutdown, store, JobInv
<1>3. CASE Boot(p)
  <2>1. \A th \in Threads : Clear(script[th])
    BY <1>3, ParkedIsClear DEF Boot
  <2>2. \A th \in Threads : Sound(script'[th], job')
    BY <1>3, <2>1, ClearIsSound DEF Boot
  <2>3. FollowsTable /\ (job'.status = "queued" => job'.runner = NoRunner)
    <3>1. CASE UNCHANGED job
      BY <3>1, StillFollows DEF JobInv
    <3>2. CASE /\ job.status \in { "claimed", "running" }
               /\ job' = [status |-> "queued", runner |-> NoRunner]
      BY <3>2 DEF FollowsTable, Job!Next, Job!Recover, Job!Waits
    <3>. QED  BY <1>3, <3>1, <3>2 DEF Boot
  <2>. QED  BY <2>2, <2>3 DEF JobInv
<1>. QED  BY <1>1, <1>2, <1>3 DEF ProcStep

LEMMA JobStepwise ==
  ASSUME ~Overlap, IInv, JobInv, [Next]_vars
  PROVE  JobInv' /\ FollowsTable
<1>1. CASE UNCHANGED vars
  BY <1>1, StillFollows DEF vars, JobInv
<1>2. ASSUME NEW th \in Threads,
             ThreadStep(th) \/ Claim(th) \/ WorkProposes(th) \/ RequestStep(th)
      PROVE  JobInv' /\ FollowsTable
  BY <1>2, JobStoreSteps, JobExecSteps, JobAfterSteps, JobClaims, JobRequestSteps DEF ThreadStep
<1>3. ASSUME NEW p \in Procs, ProcStep(p) PROVE JobInv' /\ FollowsTable
  BY <1>3, JobProcSteps
<1>. QED  BY <1>1, <1>2, <1>3 DEF Next

LEMMA JobInitially == Init => JobInv /\ Job!Init
<1> SUFFICES ASSUME Init PROVE JobInv /\ Job!Init
  OBVIOUS
<1>1. \A th \in Threads : Sound(script[th], job)
  <2>1. Clear(<<>>)
    BY DEF Clear
  <2>. QED  BY <2>1, ClearIsSound DEF Init
<1>. QED  BY <1>1 DEF Init, JobInv, Job!Init, Job!Waits

\* transitionRunnerJob reads the job and writes it back later: when the short
\* chains of store accesses run one at a time, the job moves along its table
\* all the same, is started by the runner that claimed it and requeued without
\* a runner, for any number of processes, requests, crashes and restarts.
THEOREM JobFollowsTableHolds ==
  ASSUME ~Overlap
  PROVE  Spec => JobFollowsTable
<1>1. IInv /\ JobInv /\ [Next]_vars => IInv' /\ JobInv' /\ [Job!Next]_job
  BY Stepwise, JobStepwise DEF FollowsTable
<1>. QED  BY Initially, JobInitially, <1>1, PTL DEF Spec, JobFollowsTable, Job!Spec

---------------------------------------------------------------------------
(* One thread at a time executes, however the accesses interleave *)

\* One runner process, and no two requests at a time; the API does not go
\* down, and nobody resumes the run or resolves a clarification thread, which
\* are the requests that put a job back in the queue while an execution of it
\* may still be on its way.
ByRunner == { th \in Threads : Home[th] \in Runners }
ByClient == { th \in Threads : Home[th] \in Clients }

Attended ==
  /\ \A p, q \in Runners : p = q
  /\ \A th, u \in ByClient : th = u
  /\ Fragile \subseteq Runners
  /\ Env \cap { "resume", "resolve" } = {}

\* A script of accesses in A that may end in one of L.
Built(s, A, L) ==
  \A i \in DOMAIN s : s[i] \in A \/ (i = Len(s) /\ s[i] \in L)

\* An execution never requeues the job, and ends when it blocks it.
Runs ==
  { o \in Ops :
      /\ o.op \in { "run", "task", "job", "save", "fail", "start", "exec", "ask",
                    "work", "recheck", "synthesize" }
      /\ o.op \in { "job", "save" } => o.to \notin { "queued", "blocked" } }
Blocks == { o \in Ops : o.op \in { "job", "save" } /\ o.to = "blocked" }

\* A request touches the job last, and requeues it only while it is blocked.
Asks ==
  { o \in Ops : o.op \in { "run", "task", "ask", "decided", "open", "expire",
                           "close", "closed", "replied" } }
Settled(status) ==
  { o \in Ops : \/ o.op = "fail"
                \/ /\ o.op \in { "job", "save" }
                   /\ \/ o.to \in { "paused", "failed", "cancelled" }
                      \/ o.to = "queued" /\ status = "blocked" }

\* The runner has read a queued job and not written its claim yet.
Claiming(th) ==
  /\ At(th, "job") \/ At(th, "save")
  /\ To(th) = "claimed" /\ Len(script[th]) = 2 /\ script[th][2].op = "start"

\* At most one thread of the runner does anything; it does nothing while the
\* job is blocked, and only claims it while it is queued.
ExecInv ==
  /\ \A p \in Procs : p \notin Fragile => proc[p] = "up"
  /\ \A th \in Threads : proc[Home[th]] = "down" => Idle(th)
  /\ \A th \in ByRunner : Built(script[th], Runs, Blocks)
  /\ \A th \in ByClient : Built(script[th], Asks, Settled(job.status))
  /\ \A th, u \in ByRunner : Idle(th) \/ Idle(u) \/ th = u
  /\ job.status = "queued" => \A th \in ByRunner : Idle(th) \/ Claiming(th)
  /\ job.status = "blocked" => \A th \in ByRunner : Idle(th)

LEMMA BuiltTail ==
  ASSUME NEW A, NEW L, NEW s \in Seq(A \cup L), s # <<>>, Built(s, A, L)
  PROVE  /\ Tail(s) \in Seq(A \cup L) /\ Built(Tail(s), A, L)
         /\ Head(s) \in A \/ (Head(s) \in L /\ Tail(s) = <<>>)
<1> DEFINE n == Len(s)
           t == Tail(s)
           m == Len(t)
<1>1. /\ t \in Seq(A \cup L) /\ m = n - 1 /\ n \in Nat \ {0}
      /\ \A i \in 1..m : t[i] = s[i + 1]
      /\ Head(s) = s[1]
  BY HeadTailProperties, EmptySeq, LenProperties
<1>2. DOMAIN s = 1..n /\ DOMAIN t = 1..m
  BY <1>1, LenProperties
<1>3. m = 0 => t = <<>>
  BY <1>1, EmptySeq
<1>4. \A i \in 1..n : s[i] \in A \/ (i = n /\ s[i] \in L)
  BY <1>2 DEF Built
<1> HIDE DEF n, m, t
<1>5. \A i \in 1..m : i + 1 \in 1..n /\ (i + 1 = n => i = m)
  BY <1>1
<1>6. \A i \in 1..m : t[i] \in A \/ (i = m /\ t[i] \in L)
  BY <1>1, <1>4, <1>5
<1>7. Built(t, A, L)
  BY <1>2, <1>6 DEF Built, m
<1>8. 1 \in 1..n /\ (1 = n => m = 0)
  BY <1>1
<1>. QED  BY <1>1, <1>3, <1>4, <1>7, <1>8 DEF t

LEMMA BuiltJoin ==
  ASSUME NEW A, NEW L, NEW r \in Seq(A), NEW t \in Seq(A \cup L), Built(t, A, L)
  PROVE  r \o t \in Seq(A \cup L) /\ Built(r \o t, A, L)
<1>0. r \in Seq(A \cup L)
  BY SeqMonotonic
<1>1. /\ DOMAIN t = 1..Len(t) /\ DOMAIN (r \o t) = 1..(Len(r) + Len(t))
      /\ Len(r) \in Nat /\ Len(t) \in Nat /\ Len(r \o t) = Len(r) + Len(t)
      /\ \A i \in 1..Len(r) : r[i] \in A
      /\ r \o t \in Seq(A \cup L)
  BY <1>0, LenProperties, ConcatProperties, ElementOfSeq
<1>2. ASSUME NEW i \in DOMAIN (r \o t)
      PROVE  (r \o t)[i] \in A \/ (i = Len(r \o t) /\ (r \o t)[i] \in L)
  <2>1. CASE i \in 1..Len(r)
    BY <1>0, <1>1, <2>1, ConcatProperties
  <2>2. CASE i \notin 1..Len(r)
    <3>1. i - Len(r) \in DOMAIN t /\ (i - Len(r) = Len(t) => i = Len(r \o t))
      BY <1>1, <1>2, <2>2
    <3>2. (r \o t)[i] = t[i - Len(r)]
      BY <1>0, <1>1, <1>2, <2>2, ConcatProperties
    <3>. QED  BY <3>1, <3>2 DEF Built
  <2>. QED  BY <2>1, <2>2
<1>. QED  BY <1>1, <1>2 DEF Built

LEMMA BuiltShort ==
  ASSUME NEW A, NEW L
  PROVE  /\ \A s \in Seq(A) : s \in Seq(A \cup L) /\ Built(s, A, L)
         /\ \A o \in A \cup L : << o >> \in Seq(A \cup L) /\ Built(<< o >>, A, L)
         /\ <<>> \in Seq(A) /\ <<>> \in Seq(A \cup L) /\ Built(<<>>, A, L)
<1>1. \A s \in Seq(A) : s \in Seq(A \cup L) /\ Built(s, A, L)
  <2> SUFFICES ASSUME NEW s \in Seq(A) PROVE s \in Seq(A \cup L) /\ Built(s, A, L)
    OBVIOUS
  <2>1. DOMAIN s = 1..Len(s) /\ \A i \in 1..Len(s) : s[i] \in A
    BY LenProperties, ElementOfSeq
  <2>. QED  BY <2>1, SeqMonotonic DEF Built
<1>2. \A o \in A \cup L : << o >> \in Seq(A \cup L) /\ Built(<< o >>, A, L)
  BY DEF Built
<1>. QED  BY <1>1, <1>2, EmptySeq

\* The accesses an execution is built from.
LEMMA RunsMade ==
  ASSUME NEW bail \in BOOLEAN, NEW must \in BOOLEAN
  PROVE  /\ \A status \in RunStatus : SetRun(status, bail) \in Runs
         /\ \A t \in Tasks, status \in TaskStatus : SetTask(t, status, bail) \in Runs
         /\ \A t \in Tasks : /\ Then("ask", t, "pending") \in Runs
                             /\ Op("work", t, "", Keep, bail, FALSE) \in Runs
                             /\ Op("recheck", t, "", Keep, bail, FALSE) \in Runs
         /\ \A after \in Tasks \cup {0} :
              /\ Execute(after) \in Runs /\ FailRun(after) \in Runs
              /\ \A runner \in RunnerIds \cup {NoRunner} :
                   Op("synthesize", after, "", runner, TRUE, FALSE) \in Runs
         /\ Then("start", 0, "") \in Runs
         /\ \A runner \in RunnerIds \cup {NoRunner, Keep} :
              /\ \A status \in JobStatus \ { "queued", "blocked" } :
                   /\ SetJob(status, runner) \in Runs /\ MustSetJob(status, runner) \in Runs
                   /\ Op("job", 0, status, runner, bail, must) \in Runs
              /\ SetJob("blocked", runner) \in Blocks
<1>1. \A status \in RunStatus : SetRun(status, bail) \in Runs
  BY SafeSets DEF Runs, Safe, SetRun, Op
<1>2. \A t \in Tasks, status \in TaskStatus : SetTask(t, status, bail) \in Runs
  BY DEF Runs, Ops, SetTask, Op, Keep
<1>3. \A t \in Tasks : /\ Then("ask", t, "pending") \in Runs
                       /\ Op("work", t, "", Keep, bail, FALSE) \in Runs
                       /\ Op("recheck", t, "", Keep, bail, FALSE) \in Runs
  BY DEF Runs, Ops, Then, Op, ApprovalStatus
<1>4. \A after \in Tasks \cup {0} :
        /\ Execute(after) \in Runs /\ FailRun(after) \in Runs
        /\ \A runner \in RunnerIds \cup {NoRunner} :
             Op("synthesize", after, "", runner, TRUE, FALSE) \in Runs
  BY DEF Runs, Ops, Execute, FailRun, Op
<1>5. Then("start", 0, "") \in Runs
  BY DEF Runs, Ops, Then, Op
<1>6. \A runner \in RunnerIds \cup {NoRunner, Keep} :
        /\ \A status \in JobStatus \ { "queued", "blocked" } :
             /\ SetJob(status, runner) \in Runs /\ MustSetJob(status, runner) \in Runs
             /\ Op("job", 0, status, runner, bail, must) \in Runs
        /\ SetJob("blocked", runner) \in Blocks
  BY DEF Runs, Blocks, Ops, SetJob, MustSetJob, Op, JobStatus
<1>. QED  BY <1>1, <1>2, <1>3, <1>4, <1>5, <1>6

\* The accesses a request is built from.
LEMMA AsksMade ==
  ASSUME NEW status
  PROVE  /\ \A to \in RunStatus : SetRun(to, FALSE) \in Asks /\ Then("open", 0, to) \in Asks
         /\ \A t \in Tasks : /\ \A to \in TaskStatus : SetTask(t, to, FALSE) \in Asks
                             /\ Then("ask", t, "pending") \in Asks
                             /\ \A to \in { "approved", "denied" } : Then("decided", t, to) \in Asks
         /\ \A n \in Nat : Then("expire", n, "") \in Asks /\ Then("close", n, "") \in Asks
         /\ Then("closed", 0, "") \in Asks /\ Then("replied", 0, "") \in Asks
         /\ \A t \in Tasks \cup {0} : FailRun(t) \in Settled(status)
         /\ \A runner \in RunnerIds \cup {NoRunner, Keep} :
              /\ \A to \in { "paused", "failed", "cancelled" } :
                   SetJob(to, runner) \in Settled(status)
              /\ status = "blocked" => SetJob("queued", runner) \in Settled(status)
<1>1. \A to \in RunStatus : SetRun(to, FALSE) \in Asks /\ Then("open", 0, to) \in Asks
  BY DEF Asks, Ops, SetRun, Then, Op
<1>2. \A t \in Tasks : /\ \A to \in TaskStatus : SetTask(t, to, FALSE) \in Asks
                       /\ Then("ask", t, "pending") \in Asks
                       /\ \A to \in { "approved", "denied" } : Then("decided", t, to) \in Asks
  BY DEF Asks, Ops, SetTask, Then, Op, ApprovalStatus
<1>3. /\ \A n \in Nat : Then("expire", n, "") \in Asks /\ Then("close", n, "") \in Asks
      /\ Then("closed", 0, "") \in Asks /\ Then("replied", 0, "") \in Asks
  BY DEF Asks, Ops, Then, Op
<1>4. \A t \in Tasks \cup {0} : FailRun(t) \in Settled(status)
  BY DEF Settled, Ops, FailRun, Op
<1>5. \A runner \in RunnerIds \cup {NoRunner, Keep} :
        /\ \A to \in { "paused", "failed", "cancelled" } : SetJob(to, runner) \in Settled(status)
        /\ status = "blocked" => SetJob("queued", runner) \in Settled(status)
  BY DEF Settled, Ops, SetJob, Op, JobStatus
<1>. QED  BY <1>1, <1>2, <1>3, <1>4, <1>5

\* A script whose first access is replaced.
LEMMA Replaced ==
  ASSUME NEW S, NEW s \in Seq(S), s # <<>>, NEW o \in S
  PROVE  LET r == << o >> \o Tail(s)
         IN /\ r \in Seq(S) /\ r # <<>> /\ Len(r) = Len(s) /\ Head(r) = o
            /\ \A i \in 2..Len(s) : r[i] = s[i]
<1> DEFINE t == Tail(s)
           r == << o >> \o t
<1>1. /\ t \in Seq(S) /\ Len(t) = Len(s) - 1 /\ Len(s) \in Nat \ {0}
      /\ \A i \in 1..Len(t) : t[i] = s[i + 1]
  BY HeadTailProperties, EmptySeq, LenProperties
<1>2. << o >> \in Seq(S) /\ Len(<< o >>) = 1
  OBVIOUS
<1>3. r \in Seq(S) /\ Len(r) = Len(s)
  <2> HIDE DEF t
  <2>1. r \in Seq(S) /\ Len(r) = Len(<< o >>) + Len(t)
    BY <1>1, <1>2, ConcatProperties
  <2>. QED  BY <1>1, <1>2, <2>1
<1>4. \A i \in 1..Len(s) : r[i] = IF i = 1 THEN o ELSE s[i]
  <2> HIDE DEF t
  <2> SUFFICES ASSUME NEW i \in 1..Len(s) PROVE r[i] = IF i = 1 THEN o ELSE s[i]
    OBVIOUS
  <2>1. r[i] = IF i <= 1 THEN << o >>[i] ELSE t[i - 1]
    BY <1>1, <1>2, ConcatProperties
  <2>2. i # 1 => i - 1 \in 1..Len(t) /\ (i - 1) + 1 = i /\ ~(i <= 1)
    BY <1>1
  <2>. QED  BY <1>1, <2>1, <2>2
<1>5. r # <<>> /\ Head(r) = o
  <2>1. Head(r) = r[1] /\ r # <<>>
    <3> HIDE DEF r
    <3>. QED  BY <1>1, <1>3, EmptySeq
  <2>2. 1 \in 1..Len(s)
    BY <1>1
  <2>. QED  BY <1>4, <2>1, <2>2
<1>. QED  BY <1>3, <1>4, <1>5

\* Every thread belongs to one side.
LEMMA Sides ==
  /\ \A th \in Threads : th \in ByRunner \/ th \in ByClient
  /\ ByRunner \subseteq Threads /\ ByClient \subseteq Threads /\ ByRunner \cap ByClient = {}
  BY ProcsAssumption DEF ByRunner, ByClient, Clients

\* The script of a thread, and what is left of it after its next access.
LEMMA BuiltNext ==
  ASSUME NEW A \in SUBSET Ops, NEW L \in SUBSET Ops, NEW s \in Seq(Ops), s # <<>>, Built(s, A, L)
  PROVE  /\ s \in Seq(A \cup L) /\ Tail(s) \in Seq(A \cup L) /\ Built(Tail(s), A, L)
         /\ <<>> \o Tail(s) = Tail(s)
         /\ Head(s) \in A \/ (Head(s) \in L /\ Tail(s) = <<>>)
<1>1. s \in Seq(A \cup L)
  <2>1. DOMAIN s = 1..Len(s) /\ \A i \in 1..Len(s) : s[i] \in A \cup L
    BY LenProperties DEF Built
  <2>2. s \in [1..Len(s) -> A \cup L] /\ Len(s) \in Nat
    BY <2>1, LenProperties
  <2>. QED  BY <2>2
<1>2. /\ Tail(s) \in Seq(A \cup L) /\ Built(Tail(s), A, L)
      /\ Head(s) \in A \/ (Head(s) \in L /\ Tail(s) = <<>>)
  BY <1>1, BuiltTail
<1>3. <<>> \o Tail(s) = Tail(s)
  BY <1>2, ConcatEmptySeq
<1>. QED  BY <1>1, <1>2, <1>3

LEMMA RunnerNext ==
  ASSUME IInv, ExecInv, NEW th \in ByRunner, ~Idle(th)
  PROVE  LET s == script[th] IN
         /\ Tail(s) \in Seq(Runs \cup Blocks) /\ Built(Tail(s), Runs, Blocks)
         /\ <<>> \o Tail(s) = Tail(s)
         /\ Head(s) \in Runs \/ (Head(s) \in Blocks /\ Tail(s) = <<>>)
         /\ job.status # "blocked" /\ (job.status = "queued" => Claiming(th))
         /\ \A u \in ByRunner \ {th} : Idle(u)
<1>1. script[th] \in Seq(Ops) /\ script[th] # <<>> /\ Built(script[th], Runs, Blocks)
  BY Sides DEF IInv, TypeOK, Idle, ExecInv
<1>2. Runs \in SUBSET Ops /\ Blocks \in SUBSET Ops
  BY DEF Runs, Blocks
<1>. QED  BY <1>1, <1>2, BuiltNext DEF ExecInv

LEMMA ClientNext ==
  ASSUME IInv, ExecInv, NEW th \in ByClient, ~Idle(th)
  PROVE  LET s == script[th]
             L == Settled(job.status)
         IN /\ Tail(s) \in Seq(Asks \cup L) /\ Built(Tail(s), Asks, L)
            /\ <<>> \o Tail(s) = Tail(s)
            /\ Head(s) \in Asks \/ (Head(s) \in L /\ Tail(s) = <<>>)
<1>1. script[th] \in Seq(Ops) /\ script[th] # <<>> /\ Built(script[th], Asks, Settled(job.status))
  BY Sides DEF IInv, TypeOK, Idle, ExecInv
<1>2. Asks \in SUBSET Ops /\ Settled(job.status) \in SUBSET Ops
  BY DEF Asks, Settled
<1>. QED  BY <1>1, <1>2, BuiltNext

\* The kinds of access only one side makes.
LEMMA RunnerOnly ==
  ASSUME IInv, ExecInv, NEW th \in Threads,
         \E kind \in { "start", "exec", "work", "recheck", "synthesize" } : At(th, kind)
  PROVE  /\ th \in ByRunner /\ ~Idle(th) /\ job.status \notin { "queued", "blocked" }
         /\ \A u \in ByRunner \ {th} : Idle(u)
<1>1. ~Idle(th)
  BY DEF At
<1>2. th \notin ByClient
  BY <1>1, ClientNext DEF At, Asks, Settled
<1>3. th \in ByRunner
  BY <1>2, Sides
<1>4. job.status # "queued"
  BY <1>1, <1>3, RunnerNext DEF Claiming, At
<1>. QED  BY <1>1, <1>3, <1>4, RunnerNext

LEMMA ClientOnly ==
  ASSUME IInv, ExecInv, NEW th \in Threads,
         \E kind \in { "decided", "open", "expire", "close", "closed", "replied",
                       "resolve", "resolved" } : At(th, kind)
  PROVE  th \in ByClient /\ ~Idle(th) /\ ~At(th, "resolve") /\ ~At(th, "resolved")
<1>1. ~Idle(th)
  BY DEF At
<1>2. th \notin ByRunner
  BY <1>1, RunnerNext DEF At, Runs, Blocks
<1>3. th \in ByClient
  BY <1>2, Sides
<1>. QED  BY <1>1, <1>3, ClientNext DEF At, Asks, Settled

\* A step of the runner that leaves the job as it is.
LEMMA RunnerKeeps ==
  ASSUME IInv, ExecInv, NEW th \in ByRunner, NEW rest, Does(th, rest),
         Built(rest, Runs, Blocks), UNCHANGED <<job, proc>>, proc[Home[th]] # "down",
         \A u \in ByRunner \ {th} : Idle(u),
         rest # <<>> => job.status # "blocked" /\ (job.status = "queued" => Claiming(th)')
  PROVE  ExecInv'
<1>1. th \in Threads /\ \A u \in Threads : script'[u] = IF u = th THEN rest ELSE script[u]
  BY Sides DEF Does, IInv, TypeOK
<1>2. \A u \in Threads : proc'[Home[u]] = "down" => Idle(u)'
  BY <1>1 DEF ExecInv, Idle
<1>3. \A u \in ByRunner : Built(script'[u], Runs, Blocks)
  BY <1>1, Sides DEF ExecInv
<1>4. \A u \in ByClient : Built(script'[u], Asks, Settled(job'.status))
  BY <1>1, Sides DEF ExecInv
<1>5. \A u \in ByRunner \ {th} : Idle(u)'
  BY <1>1, Sides DEF Idle
<1>6. rest = <<>> => Idle(th)'
  BY <1>1 DEF Idle
<1>. QED  BY <1>2, <1>3, <1>4, <1>5, <1>6 DEF ExecInv

\* A step of a request that leaves the job as it is.
LEMMA ClientKeeps ==
  ASSUME IInv, ExecInv, NEW th \in ByClient, NEW rest, Does(th, rest),
         Built(rest, Asks, Settled(job.status)), UNCHANGED <<job, proc>>,
         proc[Home[th]] # "down"
  PROVE  ExecInv'
<1>1. th \in Threads /\ \A u \in Threads : script'[u] = IF u = th THEN rest ELSE script[u]
  BY Sides DEF Does, IInv, TypeOK
<1>2. \A u \in Threads : proc'[Home[u]] = "down" => Idle(u)'
  BY <1>1 DEF ExecInv, Idle
<1>3. \A u \in ByRunner : script'[u] = script[u]
  BY <1>1, Sides
<1>4. \A u \in ByRunner : Idle(u)' = Idle(u) /\ Claiming(u)' = Claiming(u)
  BY <1>3 DEF Idle, Claiming, At, To
<1>5. \A u \in ByClient : Built(script'[u], Asks, Settled(job'.status))
  BY <1>1, Sides DEF ExecInv
<1>. QED  BY <1>2, <1>3, <1>4, <1>5 DEF ExecInv

\* A thread stops, or goes on after an access that is not for the job.
LEMMA EitherDrops ==
  ASSUME IInv, ExecInv, NEW th \in Threads, Does(th, <<>>), UNCHANGED <<job, proc>>,
         ~Idle(th), proc[Home[th]] # "down"
  PROVE  ExecInv'
<1>1. Built(<<>>, Runs, Blocks) /\ Built(<<>>, Asks, Settled(job.status))
  BY BuiltShort
<1>2. CASE th \in ByRunner
  BY <1>1, <1>2, RunnerNext, RunnerKeeps
<1>3. CASE th \in ByClient
  BY <1>1, <1>3, ClientKeeps
<1>. QED  BY <1>2, <1>3, Sides

LEMMA EitherGoesOn ==
  ASSUME IInv, ExecInv, NEW th \in Threads, Follow(th, <<>>), UNCHANGED <<job, proc>>,
         ~Idle(th), Head(script[th]).op \notin { "job", "save" }, proc[Home[th]] # "down"
  PROVE  ExecInv'
<1>1. CASE th \in ByRunner
  <2>1. ~Claiming(th)
    BY DEF Claiming, At
  <2>2. job.status \notin { "queued", "blocked" } /\ Does(th, Tail(script[th]))
    BY <1>1, <2>1, RunnerNext DEF Follow
  <2>. QED  BY <1>1, <2>2, RunnerNext, RunnerKeeps
<1>2. CASE th \in ByClient
  <2>1. Does(th, Tail(script[th]))
    BY <1>2, ClientNext DEF Follow
  <2>. QED  BY <1>2, <2>1, ClientNext, ClientKeeps
<1>. QED  BY <1>1, <1>2, Sides

\* A step of an execution that goes on with other accesses.
LEMMA RunnerGoesOn ==
  ASSUME IInv, ExecInv, NEW th \in Threads,
         \E kind \in { "start", "exec", "work", "recheck", "synthesize" } : At(th, kind),
         NEW rest, Does(th, rest), Built(rest, Runs, Blocks), UNCHANGED <<job, proc>>,
         proc[Home[th]] # "down"
  PROVE  ExecInv'
  BY RunnerOnly, RunnerKeeps

\* The write that follows transitionRunnerJob's read.
LEMMA SaveMade ==
  ASSUME IInv, NEW th \in Threads, At(th, "job")
  PROVE  LET o    == Head(script[th])
             next == NextJob(o.to, o.runner)
             save == Op("save", 0, next.status, next.runner, FALSE, FALSE)
         IN save \in Ops /\ save.op = "save" /\ save.to = o.to
<1> DEFINE o    == Head(script[th])
           next == NextJob(o.to, o.runner)
           save == Op("save", 0, next.status, next.runner, FALSE, FALSE)
<1>1. /\ o.to \in JobStatus /\ o.runner \in RunnerIds \cup {NoRunner, Keep}
      /\ job.runner \in RunnerIds \cup {NoRunner}
  BY NextAccess, OpShape DEF IInv, TypeOK, At
<1>2. next.status = o.to /\ next.runner \in RunnerIds \cup {NoRunner}
  BY <1>1 DEF NextJob
<1>3. save \in Ops
  BY <1>1, <1>2 DEF Ops, Op
<1>. QED  BY <1>2, <1>3 DEF Op

LEMMA ExecReads ==
  ASSUME IInv, ExecInv, NEW th \in Threads, JobRead(th)
  PROVE  ExecInv'
<1> DEFINE o    == Head(script[th])
           next == NextJob(o.to, o.runner)
           save == Op("save", 0, next.status, next.runner, FALSE, FALSE)
<1>1. /\ At(th, "job") /\ ~Idle(th) /\ o.op = "job" /\ UNCHANGED <<job, proc>>
      /\ proc[Home[th]] # "down"
  BY DEF JobRead, At, store, MayRun
<1>2. save \in Ops /\ save.op = "save" /\ save.to = o.to
  BY <1>1, SaveMade
<1> HIDE DEF save
<1>3. CASE Does(th, <<>>)
  BY <1>1, <1>3, EitherDrops
<1>4. CASE (Follow(th, <<>>) \/ Follow(th, << save >>)) /\ th \in ByRunner
  <2> DEFINE tail == Tail(script[th])
             rest == << save >> \o tail
  <2>1. CASE Follow(th, <<>>)
    <3>1. Does(th, tail)
      BY <1>1, <1>4, <2>1, RunnerNext DEF Follow
    <3>2. CASE job.status # "queued"
      BY <1>1, <1>4, <3>1, <3>2, RunnerNext, RunnerKeeps
    <3>3. CASE job.status = "queued"
      \* the claim of a queued job is never refused
      <4>1. Claiming(th) /\ o.to = "claimed"
        BY <1>1, <1>4, <3>3, RunnerNext DEF Claiming, To
      <4>2. CanTransition(job.status, o.to)
        BY <3>3, <4>1 DEF CanTransition, JobMoves
      <4>3. Follow(th, << save >>)
        BY <4>2 DEF JobRead, save
      <4>4. script[th] \in Seq(Ops) /\ script[th] # <<>>
        BY <1>1 DEF IInv, TypeOK, Idle
      <4>5. script'[th] = tail /\ script'[th] = rest
        BY <3>1, <4>3 DEF Follow, Does, IInv, TypeOK
      <4>6. Len(tail) = Len(script[th]) - 1 /\ Len(script[th]) \in Nat
        BY <4>4, HeadTailProperties, LenProperties
      <4>7. Len(rest) = Len(script[th])
        <5> HIDE DEF rest
        <5>. QED  BY <1>2, <4>4, Replaced DEF rest
      <4>8. Len(tail) = Len(script[th])
        BY <4>5, <4>7
      <4>. QED  BY <4>6, <4>8
    <3>. QED  BY <3>2, <3>3
  <2>2. CASE Follow(th, << save >>)
    <3>1. Does(th, rest)
      BY <2>2 DEF Follow
    <3>2. Built(rest, Runs, Blocks)
      <4>1. CASE o \in Runs
        <5>1. save \in Runs
          BY <1>1, <1>2, <4>1 DEF Runs
        <5>2. << save >> \in Seq(Runs)
          BY <5>1, Tuples
        <5>. QED  BY <1>1, <1>4, <5>2, RunnerNext, BuiltJoin
      <4>2. CASE o \in Blocks /\ tail = <<>>
        <5>1. save \in Blocks
          BY <1>2, <4>2 DEF Blocks
        <5>2. rest = << save >>
          BY <4>2, <5>1, Tuples, ConcatEmptySeq
        <5>. QED  BY <5>1, <5>2, BuiltShort
      <4>. QED  BY <1>1, <1>4, <4>1, <4>2, RunnerNext
    <3>3. job.status = "queued" => Claiming(th)'
      <4> SUFFICES ASSUME job.status = "queued" PROVE Claiming(th)'
        OBVIOUS
      <4>1. /\ o.to = "claimed" /\ Len(script[th]) = 2 /\ script[th][2].op = "start"
            /\ script[th] \in Seq(Ops) /\ script[th] # <<>>
        BY <1>1, <1>4, RunnerNext DEF Claiming, To, IInv, TypeOK, Idle
      <4>2. rest # <<>> /\ Len(rest) = 2 /\ Head(rest) = save /\ rest[2] = script[th][2]
        <5>1. /\ rest # <<>> /\ Len(rest) = Len(script[th]) /\ Head(rest) = save
              /\ \A i \in 2..Len(script[th]) : rest[i] = script[th][i]
          <6> HIDE DEF rest
          <6>. QED  BY <1>2, <4>1, Replaced DEF rest
        <5>. QED  BY <4>1, <5>1
      <4>3. script'[th] = rest
        BY <3>1 DEF Does, IInv, TypeOK
      <4> HIDE DEF rest
      <4>. QED  BY <1>2, <4>1, <4>2, <4>3 DEF Claiming, At, To, Idle
    <3> HIDE DEF rest
    <3>. QED  BY <1>1, <1>4, <3>1, <3>2, <3>3, RunnerNext, RunnerKeeps
  <2>. QED  BY <1>4, <2>1, <2>2
<1>5. CASE (Follow(th, <<>>) \/ Follow(th, << save >>)) /\ th \in ByClient
  <2>1. o \in Settled(job.status) /\ Tail(script[th]) = <<>>
    BY <1>1, <1>5, ClientNext DEF Asks
  <2>2. save \in Settled(job.status)
    BY <1>1, <1>2, <2>1 DEF Settled
  <2>3. << save >> \o <<>> = << save >> /\ <<>> \o <<>> = <<>>
    BY <1>2, Tuples, EmptySeq, ConcatEmptySeq
  <2>4. Built(<< save >>, Asks, Settled(job.status)) /\ Built(<<>>, Asks, Settled(job.status))
    BY <2>2, BuiltShort
  <2>5. Does(th, << save >>) \/ Does(th, <<>>)
    BY <1>5, <2>1, <2>3 DEF Follow
  <2>. QED  BY <1>1, <1>5, <2>4, <2>5, ClientKeeps
<1>. QED  BY <1>3, <1>4, <1>5, Sides DEF JobRead, save

LEMMA ExecWrites ==
  ASSUME Attended, IInv, ExecInv, NEW th \in Threads, JobWrite(th)
  PROVE  ExecInv'
<1> DEFINE o    == Head(script[th])
           tail == Tail(script[th])
<1>1. /\ ~Idle(th) /\ o.op = "save" /\ Follow(th, <<>>) /\ UNCHANGED proc
      /\ job'.status = o.to /\ proc[Home[th]] # "down"
  BY DEF JobWrite, At, To, MayRun
<1>2. CASE th \in ByRunner
  <2>1. /\ Does(th, tail) /\ Built(tail, Runs, Blocks) /\ job.status # "blocked"
        /\ o \in Runs \/ (o \in Blocks /\ tail = <<>>)
        /\ \A u \in ByRunner \ {th} : Idle(u)
    BY <1>1, <1>2, RunnerNext DEF Follow
  <2>2. \A u \in Threads : script'[u] = IF u = th THEN tail ELSE script[u]
    BY <2>1 DEF Does, IInv, TypeOK
  <2>3. job'.status # "queued" /\ (job'.status = "blocked" => tail = <<>>)
    BY <1>1, <2>1 DEF Runs, Blocks
  <2>4. \A u \in ByRunner \ {th} : Idle(u)'
    BY <2>1, <2>2, Sides DEF Idle
  <2>5. tail = <<>> => Idle(th)'
    BY <2>2 DEF Idle
  <2>6. \A u \in ByRunner : Built(script'[u], Runs, Blocks)
    BY <2>1, <2>2, Sides DEF ExecInv
  <2>7. \A u \in ByClient : Built(script'[u], Asks, Settled(job'.status))
    <3> SUFFICES ASSUME NEW u \in ByClient PROVE Built(script'[u], Asks, Settled(job'.status))
      OBVIOUS
    <3>1. script'[u] = script[u] /\ Built(script[u], Asks, Settled(job.status))
      BY <1>2, <2>2, Sides DEF ExecInv
    <3>2. Settled(job.status) \subseteq Settled(job'.status)
      BY <2>1 DEF Settled
    <3>. QED  BY <3>1, <3>2 DEF Built
  <2>8. \A u \in Threads : proc'[Home[u]] = "down" => Idle(u)'
    BY <1>1, <2>2 DEF ExecInv, Idle
  <2>. QED  BY <1>1, <2>3, <2>4, <2>5, <2>6, <2>7, <2>8 DEF ExecInv
<1>3. CASE th \in ByClient
  <2>1. o \in Settled(job.status) /\ tail = <<>> /\ Does(th, <<>>)
    BY <1>1, <1>3, ClientNext DEF Asks, Follow
  <2>2. \A u \in Threads : script'[u] = IF u = th THEN <<>> ELSE script[u]
    BY <2>1 DEF Does, IInv, TypeOK
  <2>3. \A u \in ByRunner : script'[u] = script[u]
    BY <1>3, <2>2, Sides
  <2>4. \A u \in ByRunner : Idle(u)' = Idle(u)
    BY <2>3 DEF Idle
  <2>5. /\ job'.status # "blocked"
        /\ job'.status = "queued" => \A u \in ByRunner : Idle(u)
    BY <1>1, <2>1 DEF Settled, ExecInv
  <2>6. \A u \in ByClient : Built(script'[u], Asks, Settled(job'.status))
    <3>1. \A u \in ByClient : script'[u] = <<>>
      BY <1>3, <2>2, Sides DEF Attended
    <3>. QED  BY <3>1, BuiltShort
  <2>7. \A u \in Threads : proc'[Home[u]] = "down" => Idle(u)'
    BY <1>1, <2>2 DEF ExecInv, Idle
  <2>. QED  BY <1>1, <2>3, <2>4, <2>5, <2>6, <2>7 DEF ExecInv
<1>. QED  BY <1>2, <1>3, Sides

LEMMA ExecFails ==
  ASSUME IInv, ExecInv, NEW th \in Threads, Failing(th)
  PROVE  ExecInv'
<1> DEFINE a    == SetRun("failed", FALSE)
           o    == SetJob("failed", Keep)
           b(t) == SetTask(t, "failed", FALSE)
           L    == Settled(job.status)
           tail == Tail(script[th])
<1>1. /\ ~Idle(th) /\ Head(script[th]).op = "fail" /\ UNCHANGED <<job, proc>>
      /\ proc[Home[th]] # "down" /\ Arg(th) \in Tasks \cup {0}
  BY NextAccess, OpShape DEF Failing, At, store, MayRun, Arg
<1>2. /\ a \in Runs /\ o \in Runs /\ \A t \in Tasks : b(t) \in Runs
      /\ a \in Asks /\ o \in L /\ \A t \in Tasks : b(t) \in Asks
  BY RunsMade, AsksMade DEF RunStatus, TaskStatus, JobStatus
<1>3. \/ \E t \in Tasks : Follow(th, << b(t) >> \o << a, o >>)
      \/ Follow(th, << a, o >>)
  BY <1>1 DEF Failing
<1> HIDE DEF a, o, b, L
<1>4. CASE th \in ByRunner
  <2>1. << a, o >> \in Seq(Runs) /\ \A t \in Tasks : << b(t) >> \in Seq(Runs)
    BY <1>2, Tuples
  <2>2. PICK more \in Seq(Runs) : Follow(th, more)
    BY <1>3, <2>1, ConcatProperties
  <2>3. Built(more \o tail, Runs, Blocks)
    BY <1>1, <1>4, RunnerNext, BuiltJoin
  <2>4. ~Claiming(th)
    BY <1>1 DEF Claiming, At
  <2>. QED  BY <1>1, <1>4, <2>2, <2>3, <2>4, RunnerNext, RunnerKeeps DEF Follow
<1>5. CASE th \in ByClient
  <2>1. tail = <<>>
    BY <1>1, <1>5, ClientNext DEF Asks
  <2>2. << a, o >> \in Seq(Asks \cup L) /\ Built(<< a, o >>, Asks, L)
    BY <1>2, Tuples DEF Built
  <2>3. \A t \in Tasks : << b(t) >> \in Seq(Asks)
    BY <1>2, Tuples
  <2>4. PICK more \in Seq(Asks \cup L) : Built(more, Asks, L) /\ Follow(th, more)
    BY <1>3, <2>2, <2>3, BuiltJoin
  <2>5. more \o tail = more
    BY <2>1, ConcatEmptySeq
  <2>. QED  BY <1>1, <1>5, <2>4, <2>5, ClientKeeps DEF Follow, L
<1>. QED  BY <1>4, <1>5, Sides

LEMMA ExecStoreSteps ==
  ASSUME Attended, IInv, ExecInv, NEW th \in Threads, StoreStep(th)
  PROVE  ExecInv'
<1>1. CASE RunWrite(th) \/ TaskWrite(th)
  BY <1>1, EitherGoesOn DEF RunWrite, TaskWrite, At, MayRun
<1>2. CASE Bail(th)
  BY <1>2, EitherDrops DEF Bail, store, MayRun
<1>. QED  BY <1>1, <1>2, ExecReads, ExecWrites, ExecFails DEF StoreStep

LEMMA ExecExecSteps ==
  ASSUME IInv, ExecInv, NEW th \in Threads, ExecStep(th) \/ WorkProposes(th)
  PROVE  ExecInv'
<1>0. Built(<<>>, Runs, Blocks)
  BY BuiltShort
<1>1. CASE ExecReturn(th)
  BY <1>0, <1>1, RunnerGoesOn DEF ExecReturn, Executing, store, MayRun
<1>2. CASE ExecNoTaskLeft(th)
  <2>1. Arg(th) \in Tasks \cup {0} /\ job.runner \in RunnerIds \cup {NoRunner}
    BY <1>2, NextAccess, OpShape
       DEF ExecNoTaskLeft, Proceeding, Executing, At, Arg, IInv, TypeOK
  <2>2. Op("synthesize", Arg(th), "", job.runner, TRUE, FALSE) \in Runs
    BY <2>1, RunsMade
  <2>3. Built(<< Op("synthesize", Arg(th), "", job.runner, TRUE, FALSE) >>, Runs, Blocks)
    BY <2>2, BuiltShort
  <2>. QED  BY <1>2, <2>3, RunnerGoesOn
            DEF ExecNoTaskLeft, Proceeding, Executing, store, MayRun
<1>3. CASE \/ ExecProviderInvalid(th) \/ ExecProviderThrows(th)
           \/ WorkFails(th) \/ SynthesisThrows(th)
  <2>1. \A t \in Tasks \cup {0} : Built(<< FailRun(t) >>, Runs, Blocks)
    BY RunsMade, BuiltShort
  <2>2. Arg(th) \in Tasks \cup {0}
    BY <1>3, NextAccess, OpShape
       DEF ExecProviderInvalid, ExecProviderThrows, WorkFails, SynthesisThrows,
           Proceeding, Executing, At, Arg
  <2>3. PICK rest : Does(th, rest) /\ Built(rest, Runs, Blocks)
    BY <1>0, <1>3, <2>1, <2>2
       DEF ExecProviderInvalid, ExecProviderThrows, WorkFails, SynthesisThrows, Rejected
  <2>. QED  BY <1>3, <2>3, RunnerGoesOn
            DEF ExecProviderInvalid, ExecProviderThrows, WorkFails, SynthesisThrows,
                Proceeding, Executing, store, MayRun
<1>4. CASE ExecHeld(th) \/ ExecAsks(th)
  <2>1. job.runner \in RunnerIds \cup {NoRunner}
    BY DEF IInv, TypeOK
  <2>2. ASSUME NEW t \in Tasks, NEW bail \in BOOLEAN
        PROVE  Hold(t, bail) \in Seq(Runs \cup Blocks) /\ Built(Hold(t, bail), Runs, Blocks)
    <3> DEFINE a == SetTask(t, "blocked", bail)
               b == SetRun("blocked", bail)
               o == SetJob("blocked", job.runner)
    <3>1. a \in Runs /\ b \in Runs /\ o \in Blocks
      BY <2>1, RunsMade DEF RunStatus, TaskStatus
    <3> HIDE DEF a, b, o
    <3>2. << a, b, o >> \in Seq(Runs \cup Blocks)
      BY <3>1, Tuples
    <3>3. Built(<< a, b, o >>, Runs, Blocks)
      BY <3>1 DEF Built
    <3>. QED  BY <3>2, <3>3 DEF Hold, a, b, o
  <2>3. ASSUME NEW t \in Tasks
        PROVE  Built(<< Then("ask", t, "pending") >> \o Hold(t, TRUE), Runs, Blocks)
    <3>1. << Then("ask", t, "pending") >> \in Seq(Runs)
      BY RunsMade, Tuples
    <3>. QED  BY <2>2, <3>1, BuiltJoin
  <2>4. PICK rest : Does(th, rest) /\ Built(rest, Runs, Blocks)
    BY <1>4, <2>2, <2>3, TasksAssumption DEF ExecHeld, ExecAsks
  <2>. QED  BY <1>4, <2>4, RunnerGoesOn
            DEF ExecHeld, ExecAsks, Proceeding, Executing, store, MayRun
<1>5. CASE ExecBegins(th)
  <2>1. \A t \in Tasks : << SetRun("running", TRUE), SetTask(t, "running", TRUE),
                            Op("work", t, "", Keep, TRUE, FALSE) >> \in Seq(Runs)
    <3> SUFFICES ASSUME NEW t \in Tasks
                 PROVE  << SetRun("running", TRUE), SetTask(t, "running", TRUE),
                           Op("work", t, "", Keep, TRUE, FALSE) >> \in Seq(Runs)
      OBVIOUS
    <3>1. /\ SetRun("running", TRUE) \in Runs /\ SetTask(t, "running", TRUE) \in Runs
          /\ Op("work", t, "", Keep, TRUE, FALSE) \in Runs
      BY RunsMade DEF RunStatus, TaskStatus
    <3>. QED  BY <3>1, Tuples
  <2>2. PICK rest : Does(th, rest) /\ Built(rest, Runs, Blocks)
    BY <1>5, <2>1, BuiltShort DEF ExecBegins
  <2>. QED  BY <1>5, <2>2, RunnerGoesOn DEF ExecBegins, Proceeding, Executing, store, MayRun
<1>6. CASE Ask(th)
  BY <1>6, EitherGoesOn DEF Ask, At, MayRun
<1>7. CASE WorkDone(th) \/ Recheck(th)
  <2>1. Arg(th) \in Tasks
    BY <1>7, NextAccess, OpShape DEF WorkDone, Recheck, At, Arg
  <2>2. /\ SetTask(Arg(th), "completed", FALSE) \in Runs
        /\ Op("recheck", Arg(th), "", Keep, TRUE, FALSE) \in Runs
        /\ Execute(Arg(th)) \in Runs
    BY <2>1, RunsMade DEF TaskStatus
  <2>3. /\ << SetTask(Arg(th), "completed", FALSE),
              Op("recheck", Arg(th), "", Keep, TRUE, FALSE) >> \in Seq(Runs)
        /\ << Execute(Arg(th)) >> \in Seq(Runs)
    BY <2>2, Tuples
  <2>4. PICK rest : Does(th, rest) /\ Built(rest, Runs, Blocks)
    BY <1>0, <1>7, <2>3, BuiltShort DEF WorkDone, Recheck
  <2>. QED  BY <1>7, <2>4, RunnerGoesOn DEF WorkDone, Recheck, store, MayRun
<1>8. CASE Synthesized(th)
  <2>1. Head(script[th]).runner \in RunnerIds \cup {NoRunner}
    BY <1>8, NextAccess, OpShape DEF Synthesized, At
  <2>2. /\ Op("job", 0, "completed", Head(script[th]).runner, TRUE, FALSE) \in Runs
        /\ SetRun("completed", TRUE) \in Runs
    BY <2>1, RunsMade DEF RunStatus, JobStatus
  <2>3. << Op("job", 0, "completed", Head(script[th]).runner, TRUE, FALSE),
           SetRun("completed", TRUE) >> \in Seq(Runs)
    BY <2>2, Tuples
  <2>4. PICK rest : Does(th, rest) /\ Built(rest, Runs, Blocks)
    BY <1>8, <2>3, BuiltShort DEF Synthesized
  <2>. QED  BY <1>8, <2>4, RunnerGoesOn DEF Synthesized, store, MayRun
<1>9. CASE WorkProposes(th)
  <2>1. Arg(th) \in Tasks
    BY <1>9, NextAccess, OpShape DEF WorkProposes, At, Arg
  <2>2. << Then("ask", Arg(th), "pending") >> \in Seq(Runs)
    BY <2>1, RunsMade, Tuples
  <2>3. th \in ByRunner /\ ~Idle(th)
    BY <1>9, RunnerOnly DEF WorkProposes
  <2>4. script[th] \in Seq(Runs \cup Blocks) /\ Built(script[th], Runs, Blocks)
    <3>1. Runs \in SUBSET Ops /\ Blocks \in SUBSET Ops
      BY DEF Runs, Blocks
    <3>2. /\ script[th] \in Seq(Ops) /\ script[th] # <<>>
          /\ Built(script[th], Runs, Blocks)
      BY <2>3 DEF IInv, TypeOK, ExecInv, Idle
    <3>. QED  BY <3>1, <3>2, BuiltNext
  <2>5. Built(<< Then("ask", Arg(th), "pending") >> \o script[th], Runs, Blocks)
    BY <2>2, <2>4, BuiltJoin
  <2>. QED  BY <1>9, <2>5, RunnerGoesOn DEF WorkProposes, store, MayRun
<1>. QED  BY <1>1, <1>2, <1>3, <1>4, <1>5, <1>6, <1>7, <1>8, <1>9 DEF ExecStep

LEMMA ExecAfterSteps ==
  ASSUME IInv, ExecInv, NEW th \in Threads, AfterStep(th)
  PROVE  ExecInv'
<1> DEFINE L == Settled(job.status)
<1>0. Built(<<>>, Runs, Blocks) /\ Built(<<>>, Asks, L) /\ <<>> \in Seq(Asks \cup L)
  BY BuiltShort
<1>1. CASE Start(th)
  <2> DEFINE rest == << SetRun("running", FALSE),
                        MustSetJob("running", RunnerId[Home[th]]), Execute(0) >>
  <2>1. CASE Does(th, <<>>)
    BY <1>0, <1>1, <2>1, RunnerGoesOn DEF Start, store, MayRun
  <2>2. CASE Does(th, rest) /\ job = [status |-> "claimed", runner |-> RunnerId[Home[th]]]
    <3>1. RunnerId[Home[th]] \in RunnerIds \cup {NoRunner}
      BY <2>2 DEF IInv, TypeOK
    <3>2. /\ SetRun("running", FALSE) \in Runs /\ Execute(0) \in Runs
          /\ MustSetJob("running", RunnerId[Home[th]]) \in Runs
      BY <3>1, RunsMade DEF RunStatus, JobStatus
    <3>3. rest \in Seq(Runs)
      BY <3>2, Tuples
    <3>4. Built(rest, Runs, Blocks)
      BY <3>3, BuiltShort
    <3>. QED  BY <1>1, <2>2, <3>4, RunnerGoesOn DEF Start, store, MayRun
  <2>. QED  BY <1>1, <2>1, <2>2 DEF Start
<1>2. CASE Decided(th)
  <2> DEFINE both == << SetRun("queued", FALSE), SetTask(Arg(th), "queued", FALSE) >>
             o    == SetJob("queued", Keep)
  <2>1. th \in ByClient /\ Arg(th) \in Tasks
    BY <1>2, ClientOnly, NextAccess, OpShape DEF Decided, At, Arg
  <2>2. /\ SetRun("queued", FALSE) \in Asks /\ SetTask(Arg(th), "queued", FALSE) \in Asks
        /\ FailRun(Arg(th)) \in L /\ (job.status = "blocked" => o \in L)
    BY <2>1, AsksMade DEF RunStatus, TaskStatus
  <2>3. both \in Seq(Asks)
    BY <2>2, Tuples
  <2>4. Built(both \o <<>>, Asks, L) /\ (job.status = "blocked" => Built(both \o << o >>, Asks, L))
    <3> HIDE DEF both, o, L
    <3>. QED  BY <1>0, <2>2, <2>3, BuiltShort, BuiltJoin
  <2>5. Built(<< FailRun(Arg(th)) >>, Asks, L)
    BY <2>2, BuiltShort
  <2>6. PICK rest : Does(th, rest) /\ Built(rest, Asks, L)
    BY <1>2, <2>4, <2>5 DEF Decided
  <2>. QED  BY <1>2, <2>1, <2>6, ClientKeeps DEF Decided, store, MayRun
<1>3. CASE ExpireWrite(th) \/ OpenQuestion(th)
  BY <1>3, EitherGoesOn DEF ExpireWrite, OpenQuestion, At, MayRun
<1>4. CASE CloseQuestion(th)
  <2>1. th \in ByClient /\ ~Idle(th)
    BY <1>4, ClientOnly DEF CloseQuestion
  <2>2. << Then("closed", 0, "") >> \in Seq(Asks)
    BY AsksMade, Tuples
  <2>3. Built(<< Then("closed", 0, "") >> \o Tail(script[th]), Asks, L)
    BY <2>1, <2>2, ClientNext, BuiltJoin
  <2>. QED  BY <1>4, <2>1, <2>3, ClientKeeps DEF CloseQuestion, Follow, MayRun
<1>5. CASE Closed(th) \/ Replied(th)
  <2>1. th \in ByClient
    BY <1>5, ClientOnly DEF Closed, Replied
  <2>2. SetRun("queued", FALSE) \in Asks /\ Then("replied", 0, "") \in Asks
    BY AsksMade DEF RunStatus
  <2>3. << SetRun("queued", FALSE), Then("replied", 0, "") >> \in Seq(Asks)
    BY <2>2, Tuples
  <2>4. job.status = "blocked" => Built(<< SetJob("queued", Keep) >>, Asks, L)
    BY AsksMade, BuiltShort
  <2>5. PICK rest : Does(th, rest) /\ Built(rest, Asks, L)
    BY <1>0, <1>5, <2>3, <2>4, BuiltShort DEF Closed, Replied
  <2>. QED  BY <1>5, <2>1, <2>5, ClientKeeps DEF Closed, Replied, store, MayRun
<1>6. CASE ResolveWrite(th) \/ Resolved(th)
  BY <1>6, ClientOnly DEF ResolveWrite, Resolved
<1>. QED  BY <1>1, <1>2, <1>3, <1>4, <1>5, <1>6 DEF AfterStep

LEMMA ExecRequestSteps ==
  ASSUME Attended, IInv, ExecInv, NEW th \in Threads, RequestStep(th)
  PROVE  ExecInv'
<1> DEFINE L == Settled(job.status)
<1>0. th \in ByClient /\ proc[Home[th]] # "down" /\ "resume" \notin Env /\ "resolve" \notin Env
  BY DEF RequestStep, Pause, Resume, Cancel, Decide, ReportFailure, Propose, Expire, AskUser,
         Resolve, Reply, Request, MayRun, ByClient, Attended
<1>1. CASE Pause(th) \/ Cancel(th)
  <2>1. ASSUME NEW to \in { "paused", "cancelled" }
        PROVE  /\ Built(<< SetRun(to, FALSE) >> \o << SetJob(to, job.runner) >>, Asks, L)
               /\ Built(<< SetRun(to, FALSE) >> \o <<>>, Asks, L)
    <3>1. SetRun(to, FALSE) \in Asks /\ SetJob(to, job.runner) \in L
      BY AsksMade DEF RunStatus, IInv, TypeOK
    <3>2. << SetRun(to, FALSE) >> \in Seq(Asks)
      BY <3>1, Tuples
    <3> HIDE DEF L
    <3>. QED  BY <3>1, <3>2, BuiltShort, BuiltJoin
  <2>2. PICK rest : Does(th, rest) /\ Built(rest, Asks, L)
    BY <1>1, <2>1 DEF Pause, Cancel
  <2>. QED  BY <1>0, <1>1, <2>2, ClientKeeps DEF Pause, Cancel, store
<1>2. CASE ReportFailure(th)
  <2>1. Built(<< FailRun(0) >>, Asks, L)
    BY AsksMade, BuiltShort
  <2>. QED  BY <1>0, <1>2, <2>1, ClientKeeps DEF ReportFailure, store
<1>3. CASE Decide(th) \/ Propose(th) \/ Expire(th) \/ AskUser(th) \/ Reply(th)
  <2>1. approvals \in Seq([task : Tasks, status : ApprovalStatus]) /\ run \in RunStatus
        /\ questions \in Seq([open : BOOLEAN, before : RunStatus])
    BY DEF IInv, TypeOK
  <2>2. /\ \A i \in DOMAIN approvals : i \in Nat /\ approvals[i].task \in Tasks
        /\ \A i \in Open : i \in Nat
    <3>1. /\ DOMAIN approvals = 1..Len(approvals) /\ DOMAIN questions = 1..Len(questions)
          /\ \A i \in 1..Len(approvals) : approvals[i] \in [task : Tasks, status : ApprovalStatus]
      BY <2>1, LenProperties, ElementOfSeq
    <3>. QED  BY <3>1 DEF Open
  <2>3. PICK o \in Asks : Does(th, << o >>)
    BY <1>3, <2>1, <2>2, AsksMade DEF Decide, Propose, Expire, AskUser, Reply
  <2>4. Built(<< o >>, Asks, L)
    BY BuiltShort
  <2>5. UNCHANGED <<job, proc>>
    BY <1>3 DEF Decide, Propose, Expire, AskUser, Reply, store
  <2>. QED  BY <1>0, <2>3, <2>4, <2>5, ClientKeeps
<1>4. CASE Resume(th) \/ Resolve(th)
  BY <1>0, <1>4 DEF Resume, Resolve, Request
<1>. QED  BY <1>1, <1>2, <1>3, <1>4 DEF RequestStep

\* A runner claims only when none of its threads does anything.
LEMMA RunnerFree ==
  ASSUME Attended, IInv, ExecInv, NEW th \in Threads, Claim(th)
  PROVE  \A u \in ByRunner : Idle(u)
<1> SUFFICES ASSUME NEW u \in ByRunner, ~Idle(u) PROVE FALSE
  OBVIOUS
<1>1. Claiming(u) /\ u \in Threads /\ Home[u] = Home[th]
  BY DEF ExecInv, ByRunner, Attended, Claim
<1>2. 2 \in DOMAIN script[u]
  BY <1>1, LenProperties DEF Claiming, IInv, TypeOK
<1>3. Taking(u)
  BY <1>1, <1>2 DEF Claiming, Taking
<1>. QED  BY <1>1, <1>3 DEF Claim, Draining

LEMMA ExecClaims ==
  ASSUME Attended, IInv, ExecInv, NEW th \in Threads, Claim(th)
  PROVE  ExecInv'
<1> DEFINE a == MustSetJob("claimed", RunnerId[Home[th]])
           b == Then("start", 0, "")
<1>1. /\ th \in ByRunner /\ job.status = "queued" /\ proc[Home[th]] # "down"
      /\ Does(th, << a, b >>) /\ UNCHANGED <<job, proc>> /\ RunnerId[Home[th]] \in RunnerIds
  BY DEF Claim, ByRunner, store, MayRun, RunnerIds
<1>2. \A u \in ByRunner : Idle(u)
  BY RunnerFree
<1>3. a \in Runs /\ b \in Runs /\ a.op = "job" /\ a.to = "claimed" /\ b.op = "start"
  BY <1>1, RunsMade DEF JobStatus, MustSetJob, Then, Op
<1> HIDE DEF a, b
<1>4. Built(<< a, b >>, Runs, Blocks)
  BY <1>3, Tuples, BuiltShort
<1>5. Claiming(th)'
  <2>1. script'[th] = << a, b >>
    BY <1>1 DEF Does, IInv, TypeOK, ByRunner
  <2>2. Head(<< a, b >>) = a /\ Len(<< a, b >>) = 2 /\ << a, b >>[2] = b /\ << a, b >> # <<>>
    OBVIOUS
  <2>. QED  BY <1>3, <2>1, <2>2 DEF Claiming, At, To, Idle
<1>. QED  BY <1>1, <1>2, <1>4, <1>5, RunnerKeeps

LEMMA ExecProcSteps ==
  ASSUME Attended, IInv, ExecInv, NEW p \in Procs, ProcStep(p)
  PROVE  ExecInv'
<1>1. CASE Crash(p) \/ Stopped(p)
  <2>1. /\ script' = [th \in Threads |-> IF Home[th] = p THEN <<>> ELSE script[th]]
        /\ proc' = [proc EXCEPT ![p] = "down"] /\ UNCHANGED job
    BY <1>1 DEF Crash, Stopped, store
  <2>2. p \in Fragile
    BY <1>1 DEF Crash, Stopped, ExecInv
  <2>3. p \in Runners /\ \A th \in ByRunner : Home[th] = p
    BY <2>2 DEF Attended, ByRunner
  <2>4. \A th \in ByRunner : script'[th] = <<>>
    BY <2>1, <2>3, Sides
  <2>5. \A th \in ByClient : script'[th] = script[th]
    BY <2>1, <2>3, Sides DEF ByClient, Clients
  <2>6. \A th \in Threads : proc'[Home[th]] = "down" => Idle(th)'
    <3> SUFFICES ASSUME NEW th \in Threads, proc'[Home[th]] = "down", Home[th] # p
                 PROVE  Idle(th)'
      BY <2>1 DEF Idle
    <3>1. Home[th] \in Procs
      BY ProcsAssumption
    <3>. QED  BY <2>1, <3>1 DEF ExecInv, Idle, IInv, TypeOK
  <2>7. \A q \in Procs : q \notin Fragile => proc'[q] = "up"
    BY <2>1, <2>2 DEF ExecInv, IInv, TypeOK
  <2>8. \A th \in ByRunner : Built(script'[th], Runs, Blocks)
    BY <2>4, BuiltShort
  <2>. QED  BY <2>1, <2>4, <2>5, <2>6, <2>7, <2>8 DEF ExecInv, Idle
<1>2. CASE Shutdown(p)
  <2>1. UNCHANGED <<job, script>> /\ p \in Fragile /\ proc' = [proc EXCEPT ![p] = "stopping"]
    BY <1>2 DEF Shutdown, store
  <2>2. \A th \in Threads : proc'[Home[th]] = "down" => Idle(th)'
    <3> SUFFICES ASSUME NEW th \in Threads, proc'[Home[th]] = "down" PROVE Idle(th)'
      OBVIOUS
    <3>1. Home[th] \in Procs
      BY ProcsAssumption
    <3>. QED  BY <2>1, <3>1 DEF ExecInv, Idle, IInv, TypeOK
  <2>3. \A q \in Procs : q \notin Fragile => proc'[q] = "up"
    BY <2>1 DEF ExecInv, IInv, TypeOK
  <2>4. \A th \in Threads : Idle(th)' = Idle(th) /\ Claiming(th)' = Claiming(th)
    BY <2>1 DEF Idle, Claiming, At, To
  <2>. QED  BY <2>1, <2>2, <2>3, <2>4, Sides DEF ExecInv
<1>3. CASE Boot(p)
  <2>1. UNCHANGED script /\ proc' = [proc EXCEPT ![p] = "up"] /\ proc[p] = "down"
    BY <1>3 DEF Boot
  <2>2. \A th \in ByRunner : Home[th] = p /\ Idle(th)
    <3>1. p \in Runners
      BY <2>1 DEF ExecInv, Attended
    <3>. QED  BY <2>1, <3>1, Sides DEF ExecInv, Attended, ByRunner
  <2>3. \/ UNCHANGED job
        \/ job.status # "blocked" /\ job'.status = "queued"
    BY <1>3 DEF Boot
  <2>4. \A th \in ByClient : Built(script'[th], Asks, Settled(job'.status))
    <3> SUFFICES ASSUME NEW th \in ByClient
                 PROVE  Built(script'[th], Asks, Settled(job'.status))
      OBVIOUS
    <3>1. script'[th] = script[th] /\ Built(script[th], Asks, Settled(job.status))
      BY <2>1 DEF ExecInv
    <3>2. Settled(job.status) \subseteq Settled(job'.status)
      BY <2>3 DEF Settled
    <3>. QED  BY <3>1, <3>2 DEF Built
  <2>5. \A th \in Threads : proc'[Home[th]] = "down" => Idle(th)'
    <3> SUFFICES ASSUME NEW th \in Threads, proc'[Home[th]] = "down" PROVE Idle(th)'
      OBVIOUS
    <3>1. Home[th] \in Procs
      BY ProcsAssumption
    <3>. QED  BY <2>1, <3>1 DEF ExecInv, Idle, IInv, TypeOK
  <2>6. \A q \in Procs : q \notin Fragile => proc'[q] = "up"
    BY <2>1 DEF ExecInv, IInv, TypeOK
  <2>7. \A th \in ByRunner : Idle(th)'
    BY <2>1, <2>2 DEF Idle
  <2>8. \A th \in ByRunner : Built(script'[th], Runs, Blocks)
    BY <2>1 DEF ExecInv
  <2>. QED  BY <2>4, <2>5, <2>6, <2>7, <2>8 DEF ExecInv
<1>. QED  BY <1>1, <1>2, <1>3 DEF ProcStep

LEMMA ExecStepwise ==
  ASSUME Attended, IInv, ExecInv, [Next]_vars
  PROVE  ExecInv'
<1>1. CASE UNCHANGED vars
  <2>1. UNCHANGED <<script, job, proc>>
    BY <1>1 DEF vars
  <2>2. \A th \in Threads : Idle(th)' = Idle(th) /\ Claiming(th)' = Claiming(th)
    BY <2>1 DEF Idle, Claiming, At, To
  <2>. QED  BY <2>1, <2>2, Sides DEF ExecInv
<1>2. ASSUME NEW th \in Threads,
             ThreadStep(th) \/ Claim(th) \/ WorkProposes(th) \/ RequestStep(th)
      PROVE  ExecInv'
  BY <1>2, ExecStoreSteps, ExecExecSteps, ExecAfterSteps, ExecClaims, ExecRequestSteps
     DEF ThreadStep
<1>3. ASSUME NEW p \in Procs, ProcStep(p) PROVE ExecInv'
  BY <1>3, ExecProcSteps
<1>. QED  BY <1>1, <1>2, <1>3 DEF Next

LEMMA ExecInitially == Init => ExecInv
<1> SUFFICES ASSUME Init PROVE ExecInv
  OBVIOUS
<1>1. \A th \in Threads : script[th] = <<>>
  BY DEF Init
<1>2. \A th \in Threads : Idle(th)
  BY <1>1 DEF Idle
<1>. QED  BY <1>1, <1>2, Sides, BuiltShort DEF Init, ExecInv

\* drainQueue, claimNext and start keep a run in one pair of hands: whatever
\* the number of tasks and of threads, however the accesses of the runner and
\* of a request interleave, and wherever the runner is killed or stopped and
\* started again, two threads never work on the run's tasks at once.
THEOREM SingleExecutionHolds ==
  ASSUME Attended
  PROVE  Spec => []SingleExecution
<1>1. IInv /\ ExecInv => SingleExecution
  <2> SUFFICES ASSUME IInv, ExecInv, NEW th \in Threads, NEW u \in Threads,
                      Working(th), Working(u)
               PROVE  th = u
    BY DEF SingleExecution
  <2>. QED  BY RunnerOnly DEF Working
<1>2. IInv /\ ExecInv /\ [Next]_vars => IInv' /\ ExecInv'
  BY Stepwise, ExecStepwise
<1>. QED  BY Initially, ExecInitially, <1>1, <1>2, PTL DEF Spec

---------------------------------------------------------------------------
(* A run counts as completed when its tasks are, once and for all *)

\* The surroundings of an ordinary run: nothing goes down, nobody resumes it,
\* asks it a question, reports a failure or decides the same approval again,
\* and the provider does not throw.
Ordinary ==
  /\ Attended
  /\ Env \subseteq { "decide", "pause", "cancel", "expire", "task_error", "provider_invalid" }

\* Kinds of access: those that stand last in their script, and the others.
Lasting == { "start", "exec", "work", "recheck", "synthesize", "fail", "decided" }
Passing == { "run", "task", "job", "save", "ask", "expire" }

\* What an access does to the run and its tasks: it ends the run as failed,
\* holds a task for a decision, changes a task that must not be completed,
\* leads to the end of task t, acts on a decision, requeues the job, or is on
\* the way to a completed run.
Ends(o)      == o.op \in { "run", "job", "save" } /\ o.to = "failed"
Holds(o)     == o.op \in { "run", "task", "job", "save" } /\ o.to = "blocked"
Undoes(o)    == \/ o.op \in { "ask", "decided", "work", "fail" }
                \/ o.op = "task" /\ o.to # "completed"
Drives(o, t) == /\ o.arg = t
                /\ \/ o.op \in { "work", "fail" }
                   \/ o.op = "task" /\ o.to \in { "completed", "failed" }
Decides(o)   == o.op \in { "decided", "fail", "task" }
Requeues(o)  == o.op \in { "job", "save" } /\ o.to = "queued"
Concludes(o) == o.op = "synthesize" \/ (o.op = "run" /\ o.to = "completed")

\* b may come after a in a script.
Follows(a, b) ==
  /\ a.op = "task" /\ a.to = "failed" => Ends(b)
  /\ a.op = "task" /\ a.to = "completed" => b.op = "recheck"
  /\ a.op = "ask" => Holds(b)
  /\ a.op \in { "job", "save" } => b.op \in { "start", "exec", "run" }

\* The scripts of an ordinary run.
Proper(o) == /\ o.op = "task" => o.to # "cancelled"
             /\ o.op = "fail" => o.arg # 0
Begins(o) == o.op = "task" /\ o.to = "running"

Shape(s) ==
  /\ \A i \in DOMAIN s : s[i].op \in Passing \/ (i = Len(s) /\ s[i].op \in Lasting)
  /\ \A o \in Range(s) : Proper(o)
  /\ \A o \in Range(s) : Begins(o) => \E w \in Range(s) : w.op = "work" /\ w.arg = o.arg
  /\ \A i, k \in DOMAIN s : i < k => Follows(s[i], s[k])

Coming(th) == Range(script[th])
AllDone    == \A t \in Tasks : task[t] = "completed"
Pending    == \E i \in DOMAIN approvals : approvals[i].status = "pending"
Deciding   == \E th \in ByClient : \E o \in Coming(th) : Decides(o)
Requeuing  == \E th \in ByClient : \E o \in Coming(th) : Requeues(o)
Failed     == \E t \in Tasks : task[t] = "failed"

\* While a decision is pending or acted on, the runner can only hold the task;
\* a pending approval is the only one and concerns a task not completed; once
\* a task has failed, nothing is left that would go on; and whoever is about
\* to change a task, to another status than completed, finds it not completed.
WholeInv ==
  /\ \A p \in Procs : proc[p] = "up"
  /\ \A t \in Tasks : task[t] # "cancelled"
  /\ \A th \in Threads : Shape(script[th])
  /\ \A th \in ByClient : \A o \in Coming(th) :
       ~Concludes(o) /\ o.op # "ask" /\ (o.op = "task" => o.to \in { "queued", "failed" })
  /\ \A th \in ByRunner : \A o \in Coming(th) : Concludes(o) => AllDone
  /\ run = "completed" => AllDone
  /\ \A th \in Threads : \A o \in Coming(th) : Undoes(o) => task[o.arg] # "completed"
  /\ \A i \in DOMAIN approvals :
       approvals[i].status = "pending" => task[approvals[i].task] # "completed"
  /\ \A i, k \in DOMAIN approvals :
       approvals[i].status = "pending" /\ approvals[k].status = "pending" => i = k
  /\ \A t \in Tasks :
       task[t] = "running" => \E th \in ByRunner : \E o \in Coming(th) : Drives(o, t)
  /\ Pending \/ Deciding =>
       job.status # "queued" /\ \A th \in ByRunner : \A o \in Coming(th) : Holds(o)
  /\ Pending => ~Deciding /\ ~Requeuing
  /\ Failed =>
       /\ job.status # "queued" /\ ~Pending /\ ~Deciding /\ ~Requeuing
       /\ \A th \in ByRunner : \A o \in Coming(th) : Holds(o) \/ Ends(o)

\* The accesses of a script, of what is left of it, and of one put before it.
LEMMA ShapeTail ==
  ASSUME NEW s \in Seq(Ops), s # <<>>, Shape(s)
  PROVE  LET h == Head(s)
             t == Tail(s)
         IN /\ t \in Seq(Ops) /\ <<>> \o t = t /\ Range(s) = { h } \cup Range(t)
            /\ h \in Ops /\ h.op \in Passing \cup Lasting /\ Proper(h) /\ Shape(t)
            /\ h.op \in Lasting => t = <<>>
            /\ \A b \in Range(t) : Follows(h, b)
            /\ Begins(h) => \E w \in Range(t) : w.op = "work" /\ w.arg = h.arg
<1> DEFINE n == Len(s)
           t == Tail(s)
           m == Len(t)
           h == Head(s)
<1>1. /\ t \in Seq(Ops) /\ m = n - 1 /\ n \in Nat \ {0}
      /\ \A i \in 1..m : t[i] = s[i + 1]
      /\ h = s[1]
  BY HeadTailProperties, EmptySeq, LenProperties
<1>2. DOMAIN s = 1..n /\ DOMAIN t = 1..m /\ <<>> \o t = t /\ (m = 0 => t = <<>>)
  BY <1>1, LenProperties, ConcatEmptySeq, EmptySeq
<1>3. Range(s) = { s[i] : i \in 1..n } /\ Range(t) = { t[i] : i \in 1..m }
  BY <1>1, RangeEquality
<1>4. /\ \A i \in 1..n : s[i].op \in Passing \/ (i = n /\ s[i].op \in Lasting)
      /\ \A o \in Range(s) : Proper(o)
      /\ \A o \in Range(s) : Begins(o) => \E w \in Range(s) : w.op = "work" /\ w.arg = o.arg
      /\ \A i, k \in 1..n : i < k => Follows(s[i], s[k])
  BY <1>2 DEF Shape
<1>5. h \in Ops
  BY HeadTailProperties
<1> HIDE DEF n, t, m, h
<1>6. \A i \in 1..m : i + 1 \in 1..n /\ 1 < i + 1 /\ (i + 1 = n => i = m) /\ i + 1 # 1
  BY <1>1
<1>7. 1 \in 1..n /\ (1 = n => m = 0) /\ \A i \in 1..n : i # 1 => i - 1 \in 1..m /\ (i - 1) + 1 = i
  BY <1>1
<1>8. Range(s) = { h } \cup Range(t)
  <2>1. \A o \in Range(s) : o = h \/ o \in Range(t)
    <3> SUFFICES ASSUME NEW i \in 1..n PROVE s[i] = h \/ s[i] \in Range(t)
      BY <1>3
    <3>1. CASE i = 1
      BY <1>1, <3>1
    <3>2. CASE i # 1
      <4>1. i - 1 \in 1..m /\ t[i - 1] = s[i]
        BY <1>1, <1>7, <3>2
      <4>. QED  BY <1>3, <4>1
    <3>. QED  BY <3>1, <3>2
  <2>2. h \in Range(s)
    BY <1>1, <1>3, <1>7
  <2>3. \A o \in Range(t) : o \in Range(s)
    BY <1>1, <1>3, <1>6
  <2>. QED  BY <2>1, <2>2, <2>3
<1>9. h.op \in Passing \cup Lasting /\ Proper(h) /\ (h.op \in Lasting => t = <<>>)
  <2>1. h.op \in Passing \/ (1 = n /\ h.op \in Lasting)
    BY <1>1, <1>4, <1>7
  <2>2. h.op \in Lasting => h.op \notin Passing
    BY DEF Lasting, Passing
  <2>. QED  BY <1>2, <1>4, <1>7, <1>8, <2>1, <2>2
<1>10. \A b \in Range(t) : Follows(h, b)
  <2> SUFFICES ASSUME NEW i \in 1..m PROVE Follows(h, t[i])
    BY <1>3
  <2>. QED  BY <1>1, <1>4, <1>6, <1>7
<1>11. ASSUME NEW o \in Range(s), Begins(o)
       PROVE  \E w \in Range(t) : w.op = "work" /\ w.arg = o.arg
  <2>1. PICK w \in Range(s) : w.op = "work" /\ w.arg = o.arg
    BY <1>4, <1>11
  <2>2. CASE w = h
    <3>1. t = <<>>
      BY <1>9, <2>1, <2>2 DEF Lasting
    <3>2. Range(t) = {}
      BY <3>1 DEF Range
    <3>3. o = h
      BY <1>8, <3>2
    <3>. QED  BY <1>11, <2>1, <2>2, <3>3 DEF Begins
  <2>. QED  BY <1>8, <2>1, <2>2
<1>12. Shape(t)
  <2>1. \A i \in 1..m : t[i].op \in Passing \/ (i = m /\ t[i].op \in Lasting)
    BY <1>1, <1>4, <1>6
  <2>2. \A o \in Range(t) : Proper(o)
    BY <1>4, <1>8
  <2>3. \A o \in Range(t) : Begins(o) => \E w \in Range(t) : w.op = "work" /\ w.arg = o.arg
    BY <1>8, <1>11
  <2>4. \A i, k \in 1..m : i < k => Follows(t[i], t[k])
    <3> SUFFICES ASSUME NEW i \in 1..m, NEW k \in 1..m, i < k PROVE Follows(t[i], t[k])
      OBVIOUS
    <3>1. i + 1 \in 1..n /\ k + 1 \in 1..n /\ i + 1 < k + 1
      BY <1>6
    <3>. QED  BY <1>1, <1>4, <3>1
  <2>. QED  BY <1>2, <2>1, <2>2, <2>3, <2>4 DEF Shape, m
<1>. QED  BY <1>1, <1>2, <1>5, <1>8, <1>9, <1>10, <1>11, <1>12 DEF t, h

LEMMA ShapeJoin ==
  ASSUME NEW r \in Seq(Ops), NEW t \in Seq(Ops), Shape(r), Shape(t),
         \A a \in Range(r) : a.op \in Passing,
         \A a \in Range(r), b \in Range(t) : Follows(a, b)
  PROVE  r \o t \in Seq(Ops) /\ Shape(r \o t) /\ Range(r \o t) = Range(r) \cup Range(t)
<1> DEFINE s == r \o t
           n == Len(r)
           m == Len(t)
<1>1. s \in Seq(Ops) /\ Len(s) = n + m /\ n \in Nat /\ m \in Nat /\ Range(s) = Range(r) \cup Range(t)
  BY ConcatProperties, RangeConcatenation, LenProperties
<1>2. DOMAIN r = 1..n /\ DOMAIN t = 1..m /\ DOMAIN s = 1..(n + m)
  BY <1>1, LenProperties
<1>3. \A i \in 1..(n + m) : s[i] = IF i <= n THEN r[i] ELSE t[i - n]
  BY ConcatProperties
<1>4. \A i \in 1..n : r[i] \in Range(r)
  BY RangeEquality
<1>5. \A i \in 1..m : t[i] \in Range(t)
  BY RangeEquality
<1>6. /\ \A i \in 1..m : t[i].op \in Passing \/ (i = m /\ t[i].op \in Lasting)
      /\ \A i, k \in 1..n : i < k => Follows(r[i], r[k])
      /\ \A i, k \in 1..m : i < k => Follows(t[i], t[k])
  BY <1>2 DEF Shape
<1> HIDE DEF s, n, m
<1>7. \A i \in 1..(n + m) : \/ i \in 1..n /\ s[i] = r[i]
                            \/ i > n /\ i - n \in 1..m /\ s[i] = t[i - n] /\ (i - n = m => i = n + m)
  BY <1>1, <1>3
<1>8. \A i \in 1..(n + m) : s[i].op \in Passing \/ (i = n + m /\ s[i].op \in Lasting)
  BY <1>4, <1>6, <1>7
<1>9. ASSUME NEW i \in 1..(n + m), NEW k \in 1..(n + m), i < k PROVE Follows(s[i], s[k])
  <2>1. CASE k \in 1..n /\ s[k] = r[k]
    <3>1. i \in 1..n /\ s[i] = r[i]
      BY <1>1, <1>7, <1>9, <2>1
    <3>. QED  BY <1>6, <1>9, <2>1, <3>1
  <2>2. CASE k > n /\ k - n \in 1..m /\ s[k] = t[k - n]
    <3>1. CASE i \in 1..n /\ s[i] = r[i]
      BY <1>4, <1>5, <2>2, <3>1
    <3>2. CASE i > n /\ i - n \in 1..m /\ s[i] = t[i - n]
      <4>1. i - n < k - n
        BY <1>1, <1>9
      <4>. QED  BY <1>6, <2>2, <3>2, <4>1
    <3>. QED  BY <1>7, <3>1, <3>2
  <2>. QED  BY <1>7, <2>1, <2>2
<1>10. /\ \A o \in Range(s) : Proper(o)
       /\ \A o \in Range(s) : Begins(o) => \E w \in Range(s) : w.op = "work" /\ w.arg = o.arg
  BY <1>1 DEF Shape
<1>11. Shape(s)
  BY <1>1, <1>2, <1>8, <1>9, <1>10 DEF Shape
<1>. QED  BY <1>1, <1>11 DEF s

LEMMA ShapeShort ==
  /\ Shape(<<>>) /\ Range(<<>>) = {}
  /\ \A a : Range(<< a >>) = { a }
  /\ \A a : a.op \in Passing \cup Lasting /\ Proper(a) /\ ~Begins(a) => Shape(<< a >>)
<1>1. Range(<<>>) = {}
  BY DEF Range
<1>2. Shape(<<>>)
  BY <1>1 DEF Shape
<1>3. \A a : Range(<< a >>) = { a }
  BY DEF Range
<1>4. \A a : a.op \in Passing \cup Lasting /\ Proper(a) /\ ~Begins(a) => Shape(<< a >>)
  BY <1>3 DEF Shape
<1>. QED  BY <1>1, <1>2, <1>3, <1>4

LEMMA ShapePair ==
  ASSUME NEW a, NEW b, a.op \in Passing, b.op \in Passing \cup Lasting, Follows(a, b),
         Proper(a), Proper(b), ~Begins(a), ~Begins(b)
  PROVE  Shape(<< a, b >>) /\ Range(<< a, b >>) = { a, b }
<1> DEFINE s == << a, b >>
<1>1. DOMAIN s = {1, 2} /\ s[1] = a /\ s[2] = b /\ Len(s) = 2
  OBVIOUS
<1> HIDE DEF s
<1>2. Range(s) = { a, b }
  BY <1>1 DEF Range
<1>3. \A i, k \in DOMAIN s : i < k => Follows(s[i], s[k])
  BY <1>1
<1>4. Shape(s)
  BY <1>1, <1>2, <1>3 DEF Shape
<1>. QED  BY <1>2, <1>4 DEF s

LEMMA ShapeTriple ==
  ASSUME NEW a, NEW b, NEW c,
         a.op \in Passing, b.op \in Passing, c.op \in Passing \cup Lasting,
         Follows(a, b), Follows(a, c), Follows(b, c),
         Proper(a), Proper(b), Proper(c), ~Begins(a), ~Begins(c),
         Begins(b) => c.op = "work" /\ c.arg = b.arg
  PROVE  Shape(<< a, b, c >>) /\ Range(<< a, b, c >>) = { a, b, c }
<1> DEFINE s == << a, b, c >>
<1>1. DOMAIN s = {1, 2, 3} /\ s[1] = a /\ s[2] = b /\ s[3] = c /\ Len(s) = 3
  OBVIOUS
<1> HIDE DEF s
<1>2. Range(s) = { a, b, c }
  BY <1>1 DEF Range
<1>3. \A i, k \in DOMAIN s : i < k => Follows(s[i], s[k])
  BY <1>1
<1>4. Shape(s)
  BY <1>1, <1>2, <1>3 DEF Shape
<1>. QED  BY <1>2, <1>4 DEF s

\* The accesses in flight after a step of th, and after a step of the only
\* thread of its side.
LEMMA ComingAfter ==
  ASSUME IInv, NEW th \in Threads, NEW rest, Does(th, rest)
  PROVE  /\ script'[th] = rest
         /\ \A u \in Threads : script'[u] = IF u = th THEN rest ELSE script[u]
         /\ \A u \in Threads : Coming(u)' = IF u = th THEN Range(rest) ELSE Coming(u)
<1>1. \A u \in Threads : script'[u] = IF u = th THEN rest ELSE script[u]
  BY DEF Does, IInv, TypeOK
<1>. QED  BY <1>1 DEF Coming

LEMMA IdleIsEmpty ==
  ASSUME NEW th \in Threads, Idle(th)
  PROVE  Coming(th) = {}
  BY ShapeShort DEF Idle, Coming

\* A step of the runner that changes no task and no approval.
LEMMA WholeRunner ==
  ASSUME IInv, WholeInv, NEW th \in ByRunner, \A u \in ByRunner \ {th} : Idle(u),
         NEW rest, Shape(rest), Does(th, rest), UNCHANGED <<task, approvals, proc>>,
         \A o \in Range(rest) : /\ Concludes(o) => AllDone
                                /\ Undoes(o) => task[o.arg] # "completed",
         \A t \in Tasks : task[t] = "running" => \E o \in Range(rest) : Drives(o, t),
         Pending \/ Deciding => \A o \in Range(rest) : Holds(o),
         Failed => \A o \in Range(rest) : Holds(o) \/ Ends(o),
         run' = "completed" => AllDone,
         job'.status = "queued" => job.status = "queued"
  PROVE  WholeInv'
<1>1. /\ th \in Threads /\ th \notin ByClient
      /\ \A u \in Threads : script'[u] = IF u = th THEN rest ELSE script[u]
      /\ \A u \in Threads : Coming(u)' = IF u = th THEN Range(rest) ELSE Coming(u)
  BY Sides, ComingAfter
<1>2. /\ \A u \in ByClient : Coming(u)' = Coming(u)
      /\ \A u \in ByRunner \ {th} : Coming(u)' = {}
      /\ Coming(th)' = Range(rest)
  BY <1>1, Sides, IdleIsEmpty
<1>3. /\ Deciding' = Deciding /\ Requeuing' = Requeuing
      /\ Pending' = Pending /\ Failed' = Failed /\ AllDone' = AllDone
  BY <1>2 DEF Deciding, Requeuing, Pending, Failed, AllDone
<1>4. \A u \in Threads : Shape(script'[u])
  BY <1>1 DEF WholeInv
<1>5. /\ \A u \in ByClient : \A o \in Coming(u)' :
           ~Concludes(o) /\ o.op # "ask" /\ (o.op = "task" => o.to \in { "queued", "failed" })
      /\ \A u \in ByRunner : \A o \in Coming(u)' : Concludes(o) => AllDone
      /\ \A u \in Threads : \A o \in Coming(u)' : Undoes(o) => task[o.arg] # "completed"
  BY <1>1, <1>2 DEF WholeInv
<1>6. \A t \in Tasks : task[t] = "running" => \E u \in ByRunner : \E o \in Coming(u)' : Drives(o, t)
  BY <1>2
<1>7. /\ Pending \/ Deciding =>
           job'.status # "queued" /\ \A u \in ByRunner : \A o \in Coming(u)' : Holds(o)
      /\ Failed => /\ job'.status # "queued"
                   /\ \A u \in ByRunner : \A o \in Coming(u)' : Holds(o) \/ Ends(o)
  BY <1>2 DEF WholeInv
<1>. QED  BY <1>3, <1>4, <1>5, <1>6, <1>7 DEF WholeInv

\* A step of the request that changes no task and adds no approval.
LEMMA WholeClient ==
  ASSUME Attended, IInv, WholeInv, NEW th \in ByClient,
         NEW rest, Shape(rest), Does(th, rest), UNCHANGED <<task, proc>>,
         \A o \in Range(rest) :
           /\ ~Concludes(o) /\ o.op # "ask" /\ (o.op = "task" => o.to \in { "queued", "failed" })
           /\ Undoes(o) => task[o.arg] # "completed"
           /\ Decides(o) => Deciding \/ Pending
           /\ Requeues(o) => Deciding \/ Requeuing
           /\ Decides(o) \/ Requeues(o) => ~Pending',
         \A i \in DOMAIN approvals' : approvals'[i].status = "pending" =>
           i \in DOMAIN approvals /\ approvals'[i] = approvals[i],
         run' = "completed" => AllDone,
         job'.status = "queued" =>
           \/ job.status = "queued"
           \/ ~Pending /\ ~Failed /\ \A o \in Range(rest) : ~Decides(o)
  PROVE  WholeInv'
<1>1. /\ th \in Threads /\ th \notin ByRunner
      /\ \A u \in Threads : script'[u] = IF u = th THEN rest ELSE script[u]
      /\ \A u \in Threads : Coming(u)' = IF u = th THEN Range(rest) ELSE Coming(u)
  BY Sides, ComingAfter
<1>2. /\ \A u \in ByRunner : Coming(u)' = Coming(u)
      /\ \A u \in ByClient : u = th /\ Coming(u)' = Range(rest)
  BY <1>1, Sides DEF Attended
<1>3. /\ Deciding' => \E o \in Range(rest) : Decides(o)
      /\ Requeuing' => \E o \in Range(rest) : Requeues(o)
      /\ Pending' => Pending /\ Failed' = Failed /\ AllDone' = AllDone
  BY <1>2 DEF Deciding, Requeuing, Pending, Failed, AllDone
<1>4. Failed' = Failed /\ AllDone' = AllDone
  BY DEF Failed, AllDone
<1>5. \A u \in Threads : Shape(script'[u])
  BY <1>1 DEF WholeInv
<1>6. /\ \A u \in ByClient : \A o \in Coming(u)' :
           ~Concludes(o) /\ o.op # "ask" /\ (o.op = "task" => o.to \in { "queued", "failed" })
      /\ \A u \in ByRunner : \A o \in Coming(u)' : Concludes(o) => AllDone
      /\ \A u \in Threads : \A o \in Coming(u)' : Undoes(o) => task[o.arg] # "completed"
  BY <1>1, <1>2 DEF WholeInv
<1>7. \A t \in Tasks : task[t] = "running" => \E u \in ByRunner : \E o \in Coming(u)' : Drives(o, t)
  BY <1>2 DEF WholeInv
<1>8. /\ \A i \in DOMAIN approvals' :
           approvals'[i].status = "pending" => task[approvals'[i].task] # "completed"
      /\ \A i, k \in DOMAIN approvals' :
           approvals'[i].status = "pending" /\ approvals'[k].status = "pending" => i = k
  BY DEF WholeInv
<1>9. Pending' \/ Deciding' =>
        job'.status # "queued" /\ \A u \in ByRunner : \A o \in Coming(u)' : Holds(o)
  <2> SUFFICES ASSUME Pending' \/ Deciding'
               PROVE  job'.status # "queued" /\ \A u \in ByRunner : \A o \in Coming(u)' : Holds(o)
    OBVIOUS
  <2>1. Pending \/ Deciding
    BY <1>3
  <2>2. job.status # "queued" /\ \A u \in ByRunner : \A o \in Coming(u) : Holds(o)
    BY <2>1 DEF WholeInv
  <2>3. job'.status # "queued"
    BY <1>3, <2>2
  <2>. QED  BY <1>2, <2>2, <2>3
<1>10. Pending' => ~Deciding' /\ ~Requeuing'
  BY <1>3
<1>11. Failed => /\ job'.status # "queued" /\ ~Pending' /\ ~Deciding' /\ ~Requeuing'
                 /\ \A u \in ByRunner : \A o \in Coming(u)' : Holds(o) \/ Ends(o)
  BY <1>2, <1>3 DEF WholeInv
<1>. QED  BY <1>4, <1>5, <1>6, <1>7, <1>8, <1>9, <1>10, <1>11 DEF WholeInv

\* While a runner's thread is at an access that is neither for a decision nor
\* for a failure, no decision is pending or acted on and no task has failed.
LEMMA NothingPending ==
  ASSUME IInv, ExecInv, WholeInv, NEW th \in ByRunner, ~Idle(th),
         ~Holds(Head(script[th])), ~Ends(Head(script[th]))
  PROVE  ~Pending /\ ~Deciding /\ ~Failed
<1>1. script[th] \in Seq(Ops) /\ script[th] # <<>> /\ Shape(script[th])
  BY Sides DEF IInv, TypeOK, Idle, WholeInv
<1>2. Head(script[th]) \in Coming(th)
  BY <1>1, ShapeTail DEF Coming
<1>. QED  BY <1>2 DEF WholeInv

\* A thread of the runner at an access that stands last has no other, and
\* unless it is at work or failing, no task is running.
LEMMA NothingRuns ==
  ASSUME IInv, ExecInv, WholeInv, NEW th \in ByRunner, ~Idle(th),
         \A u \in ByRunner \ {th} : Idle(u),
         Head(script[th]).op \in { "start", "exec", "recheck", "synthesize" }
  PROVE  \A t \in Tasks : task[t] # "running"
<1>1. script[th] \in Seq(Ops) /\ script[th] # <<>> /\ Shape(script[th])
  BY Sides DEF IInv, TypeOK, Idle, WholeInv
<1>2. Coming(th) = { Head(script[th]) }
  <2>1. Coming(th) = { Head(script[th]) } \cup Range(Tail(script[th])) /\ Tail(script[th]) = <<>>
    BY <1>1, ShapeTail DEF Coming, Lasting
  <2>. QED  BY <2>1, ShapeShort
<1>3. \A u \in ByRunner : \A o \in Coming(u) : \A t \in Tasks : ~Drives(o, t)
  BY <1>2, IdleIsEmpty, Sides DEF Drives
<1>. QED  BY <1>3 DEF WholeInv

\* The next access of a thread and the accesses after it.
LEMMA WholeNext ==
  ASSUME IInv, WholeInv, NEW th \in Threads, ~Idle(th)
  PROVE  LET h == Head(script[th])
             t == Tail(script[th])
         IN /\ t \in Seq(Ops) /\ <<>> \o t = t /\ Coming(th) = { h } \cup Range(t)
            /\ h \in Ops /\ h.op \in Passing \cup Lasting /\ Proper(h) /\ Shape(t)
            /\ h.op \in Lasting => t = <<>> /\ Range(t) = {}
            /\ \A b \in Range(t) : Follows(h, b)
            /\ Begins(h) => \E w \in Range(t) : w.op = "work" /\ w.arg = h.arg
            /\ ~Stopping(th)
<1>1. script[th] \in Seq(Ops) /\ script[th] # <<>> /\ Shape(script[th])
  BY DEF IInv, TypeOK, Idle, WholeInv
<1>2. ~Stopping(th)
  BY ProcsAssumption DEF Stopping, WholeInv
<1>. QED  BY <1>1, <1>2, ShapeTail, ShapeShort DEF Coming

\* A request that requeues the job found it blocked, and the runner idle.
LEMMA RequeuesBlocked ==
  ASSUME ExecInv, Requeuing
  PROVE  \A u \in ByRunner : Idle(u)
<1>1. PICK th \in ByClient : \E o \in Coming(th) : Requeues(o)
  BY DEF Requeuing
<1>2. PICK o \in Coming(th) : Requeues(o)
  BY <1>1
<1>3. PICK i \in DOMAIN script[th] : o = script[th][i]
  BY <1>2 DEF Coming, Range
<1>4. o \in Asks \/ o \in Settled(job.status)
  BY <1>3 DEF ExecInv, Built
<1>5. job.status = "blocked"
  BY <1>2, <1>4 DEF Requeues, Asks, Settled
<1>. QED  BY <1>5 DEF ExecInv

\* An access to the run or to the job, or a refused one.
LEMMA WholeGoesOn ==
  ASSUME Attended, IInv, ExecInv, WholeInv, NEW th \in Threads, ~Idle(th), Follow(th, <<>>),
         Head(script[th]).op \in { "run", "job", "save" }, UNCHANGED <<task, approvals, proc>>,
         run' = "completed" => AllDone,
         job'.status = "queued" =>
           job.status = "queued" \/ (th \in ByClient /\ Requeues(Head(script[th])))
  PROVE  WholeInv'
<1> DEFINE h == Head(script[th])
           t == Tail(script[th])
<1>1. /\ t \in Seq(Ops) /\ Coming(th) = { h } \cup Range(t) /\ Shape(t) /\ Does(th, t)
  BY WholeNext DEF Follow
<1>2. h \in Coming(th) /\ \A o \in Range(t) : o \in Coming(th)
  BY <1>1
<1>3. CASE th \in ByRunner
  <2>1. \A u \in ByRunner \ {th} : Idle(u)
    BY <1>3, RunnerNext
  <2>2. \A x \in Tasks : task[x] = "running" => \E o \in Range(t) : Drives(o, x)
    <3> SUFFICES ASSUME NEW x \in Tasks, task[x] = "running"
                 PROVE  \E o \in Range(t) : Drives(o, x)
      OBVIOUS
    <3>1. PICK u \in ByRunner : \E o \in Coming(u) : Drives(o, x)
      BY DEF WholeInv
    <3>2. u = th
      BY <2>1, <3>1, IdleIsEmpty, Sides
    <3>3. ~Drives(h, x)
      BY DEF Drives
    <3>. QED  BY <1>1, <3>1, <3>2, <3>3
  <2>3. \A o \in Range(t) : /\ Concludes(o) => AllDone
                            /\ Undoes(o) => task[o.arg] # "completed"
    BY <1>2, <1>3 DEF WholeInv
  <2>4. /\ Pending \/ Deciding => \A o \in Range(t) : Holds(o)
        /\ Failed => \A o \in Range(t) : Holds(o) \/ Ends(o)
    BY <1>2, <1>3 DEF WholeInv
  <2>5. job'.status = "queued" => job.status = "queued"
    BY <1>3, Sides
  <2> HIDE DEF t, h
  <2>. QED  BY <1>1, <1>3, <2>1, <2>2, <2>3, <2>4, <2>5, WholeRunner
<1>4. CASE th \in ByClient
  <2>1. \A o \in Range(t) :
          /\ ~Concludes(o) /\ o.op # "ask" /\ (o.op = "task" => o.to \in { "queued", "failed" })
          /\ Undoes(o) => task[o.arg] # "completed"
    BY <1>2, <1>4 DEF WholeInv
  <2>2. \A o \in Range(t) : (Decides(o) => Deciding) /\ (Requeues(o) => Requeuing)
    BY <1>2, <1>4 DEF Deciding, Requeuing
  <2>3. (Deciding \/ Requeuing => ~Pending) /\ Pending' = Pending
    BY DEF WholeInv, Pending
  <2>4. job'.status = "queued" =>
           \/ job.status = "queued"
           \/ ~Pending /\ ~Failed /\ \A o \in Range(t) : ~Decides(o)
    <3> SUFFICES ASSUME Requeues(h) PROVE ~Pending /\ ~Failed /\ \A o \in Range(t) : ~Decides(o)
      OBVIOUS
    <3>1. Requeuing
      BY <1>2, <1>4 DEF Requeuing
    <3>2. ~Pending /\ ~Failed
      BY <3>1 DEF WholeInv
    <3>3. t = <<>>
      BY <1>4, ClientNext DEF Asks, Requeues
    <3>. QED  BY <3>2, <3>3, ShapeShort
  <2> HIDE DEF t, h
  <2>. QED  BY <1>1, <1>4, <2>1, <2>2, <2>3, <2>4, WholeClient
<1>. QED  BY <1>3, <1>4, Sides

LEMMA WholeWrites ==
  ASSUME Attended, IInv, ExecInv, WholeInv, NEW th \in Threads, RunWrite(th) \/ JobWrite(th)
  PROVE  WholeInv'
<1> DEFINE h == Head(script[th])
<1>1. ~Idle(th) /\ Follow(th, <<>>) /\ h.op \in { "run", "save" } /\ UNCHANGED <<task, approvals, proc>>
  BY DEF RunWrite, JobWrite, At
<1>2. h \in Coming(th) /\ ~Stopping(th)
  BY <1>1, WholeNext
<1>3. run' = "completed" => AllDone
  <2>1. CASE RunWrite(th)
    <3>1. run' = h.to /\ h.op = "run"
      BY <1>2, <2>1 DEF RunWrite, At, To
    <3>2. run' = "completed" => Concludes(h)
      BY <3>1 DEF Concludes
    <3>. QED  BY <1>2, <3>2, Sides DEF WholeInv
  <2>2. CASE JobWrite(th)
    BY <2>2 DEF JobWrite, WholeInv
  <2>. QED  BY <2>1, <2>2
<1>4. job'.status = "queued" => job.status = "queued" \/ (th \in ByClient /\ Requeues(h))
  <2>1. CASE RunWrite(th)
    BY <2>1 DEF RunWrite
  <2>2. CASE JobWrite(th)
    <3>1. job'.status = h.to /\ h.op = "save"
      BY <2>2 DEF JobWrite, At, To
    <3>2. th \in ByRunner => h.to # "queued"
      BY <1>1, <3>1, RunnerNext DEF Runs, Blocks
    <3>. QED  BY <3>1, <3>2, Sides DEF Requeues
  <2>. QED  BY <2>1, <2>2
<1>. QED  BY <1>1, <1>3, <1>4, WholeGoesOn

LEMMA WholeReads ==
  ASSUME Attended, IInv, ExecInv, WholeInv, NEW th \in Threads, JobRead(th)
  PROVE  WholeInv'
<1> DEFINE h    == Head(script[th])
           t    == Tail(script[th])
           next == NextJob(h.to, h.runner)
           save == Op("save", 0, next.status, next.runner, FALSE, FALSE)
<1>1. /\ At(th, "job") /\ ~Idle(th) /\ h.op = "job"
      /\ UNCHANGED <<run, task, job, approvals, proc>>
  BY DEF JobRead, At, store
<1>2. /\ t \in Seq(Ops) /\ Coming(th) = { h } \cup Range(t) /\ Shape(t)
      /\ \A b \in Range(t) : Follows(h, b)
  BY <1>1, WholeNext
<1>3. save \in Ops /\ save.op = "save" /\ save.to = h.to
  BY <1>1, SaveMade
<1> HIDE DEF save
<1>4. run' = "completed" => AllDone
  BY <1>1 DEF WholeInv
<1>5. CASE Follow(th, <<>>)
  BY <1>1, <1>4, <1>5, WholeGoesOn
<1>6. \A x \in Tasks : task[x] = "running" /\ th \in ByRunner => \E o \in Range(t) : Drives(o, x)
  <2> SUFFICES ASSUME NEW x \in Tasks, task[x] = "running", th \in ByRunner
               PROVE  \E o \in Range(t) : Drives(o, x)
    OBVIOUS
  <2>1. PICK u \in ByRunner : \E o \in Coming(u) : Drives(o, x)
    BY DEF WholeInv
  <2>2. u = th
    BY <1>1, <2>1, RunnerNext, IdleIsEmpty, Sides
  <2>3. ~Drives(h, x)
    BY <1>1 DEF Drives
  <2>. QED  BY <1>2, <2>1, <2>2, <2>3
<1>7. CASE Does(th, <<>>)
  \* nothing comes after the job that works on a task
  <2>1. \A o \in Range(t) : \A x \in Tasks : ~Drives(o, x)
    BY <1>1, <1>2 DEF Follows, Drives
  <2>2. Shape(<<>>) /\ Range(<<>>) = {}
    BY ShapeShort
  <2>3. CASE th \in ByRunner
    <3>1. \A x \in Tasks : task[x] # "running"
      BY <1>6, <2>1, <2>3
    <3>. QED  BY <1>1, <1>4, <1>7, <2>2, <2>3, <3>1, RunnerNext, WholeRunner
  <2>4. CASE th \in ByClient
    BY <1>1, <1>4, <1>7, <2>2, <2>4, WholeClient
  <2>. QED  BY <2>3, <2>4, Sides
<1>8. CASE Follow(th, << save >>)
  <2> DEFINE rest == << save >> \o t
  <2>1. Does(th, rest)
    BY <1>8 DEF Follow
  <2>2. \A b \in Range(t) : Follows(save, b)
    BY <1>1, <1>2, <1>3 DEF Follows
  <2>3. Shape(<< save >>) /\ Range(<< save >>) = { save } /\ << save >> \in Seq(Ops)
    BY <1>3, ShapeShort, Tuples DEF Proper, Begins, Passing
  <2>4. Shape(rest) /\ Range(rest) = { save } \cup Range(t)
    <3>1. \A a \in Range(<< save >>) : a.op \in Passing
      BY <1>3, <2>3 DEF Passing
    <3>2. t \in Seq(Ops) /\ Shape(t)
      BY <1>2
    <3> HIDE DEF h, t
    <3>3. \A a \in Range(<< save >>), b \in Range(t) : Follows(a, b)
      BY <2>2, <2>3
    <3>. QED  BY <2>3, <3>1, <3>2, <3>3, ShapeJoin
  <2>5. /\ ~Concludes(save) /\ ~Undoes(save) /\ ~Decides(save) /\ save.op # "ask" /\ save.op # "task"
        /\ Holds(save) = Holds(h) /\ Ends(save) = Ends(h) /\ Requeues(save) = Requeues(h)
    BY <1>1, <1>3 DEF Concludes, Undoes, Decides, Holds, Ends, Requeues
  <2>6. h \in Coming(th) /\ \A o \in Range(t) : o \in Coming(th)
    BY <1>2
  <2> HIDE DEF rest, h, t
  <2>7. CASE th \in ByRunner
    <3>1. \A o \in Range(rest) : /\ Concludes(o) => AllDone
                                 /\ Undoes(o) => task[o.arg] # "completed"
      BY <2>4, <2>5, <2>6, <2>7 DEF WholeInv
    <3>2. /\ Pending \/ Deciding => \A o \in Range(rest) : Holds(o)
          /\ Failed => \A o \in Range(rest) : Holds(o) \/ Ends(o)
      BY <2>4, <2>5, <2>6, <2>7 DEF WholeInv
    <3>3. \A x \in Tasks : task[x] = "running" => \E o \in Range(rest) : Drives(o, x)
      BY <1>6, <2>4, <2>7
    <3>. QED  BY <1>1, <1>4, <2>1, <2>4, <2>7, <3>1, <3>2, <3>3, RunnerNext, WholeRunner
  <2>8. CASE th \in ByClient
    <3>1. \A o \in Range(rest) :
            /\ ~Concludes(o) /\ o.op # "ask" /\ (o.op = "task" => o.to \in { "queued", "failed" })
            /\ Undoes(o) => task[o.arg] # "completed"
      BY <2>4, <2>5, <2>6, <2>8 DEF WholeInv
    <3>2. \A o \in Range(rest) : (Decides(o) => Deciding) /\ (Requeues(o) => Requeuing)
      BY <2>4, <2>5, <2>6, <2>8 DEF Deciding, Requeuing
    <3>3. (Deciding \/ Requeuing => ~Pending) /\ Pending' = Pending
      BY <1>1 DEF WholeInv, Pending
    <3>. QED  BY <1>1, <1>4, <2>1, <2>4, <2>8, <3>1, <3>2, <3>3, WholeClient
  <2>. QED  BY <2>7, <2>8, Sides
<1>. QED  BY <1>5, <1>7, <1>8 DEF JobRead, save

\* A task's status is written.
LEMMA WholeTasks ==
  ASSUME Attended, IInv, ExecInv, WholeInv, NEW th \in Threads, TaskWrite(th)
  PROVE  /\ WholeInv'
         /\ \A x \in Tasks : task[x] = "completed" => task'[x] = "completed"
<1> DEFINE h == Head(script[th])
           t == Tail(script[th])
           x == h.arg
           to == h.to
<1>1. ~Idle(th) /\ Follow(th, <<>>) /\ h.op = "task" /\ UNCHANGED <<run, job, approvals, proc>>
  BY DEF TaskWrite, At
<1>2. /\ t \in Seq(Ops) /\ Coming(th) = { h } \cup Range(t) /\ Shape(t) /\ Does(th, t)
      /\ Proper(h) /\ ~Stopping(th) /\ \A b \in Range(t) : Follows(h, b)
      /\ Begins(h) => \E w \in Range(t) : w.op = "work" /\ w.arg = x
  BY <1>1, WholeNext DEF Follow
<1>3. x \in Tasks /\ task' = [task EXCEPT ![x] = to] /\ to # "cancelled"
  BY <1>1, <1>2, NextAccess, OpShape DEF TaskWrite, At, Arg, To, Proper
<1>4. \A y \in Tasks : task'[y] = IF y = x THEN to ELSE task[y]
  BY <1>3 DEF IInv, TypeOK
<1>5. /\ \A u \in Threads : script'[u] = IF u = th THEN t ELSE script[u]
      /\ \A u \in Threads : Coming(u)' = IF u = th THEN Range(t) ELSE Coming(u)
  BY <1>2, ComingAfter
<1>6. \A u \in Threads : Coming(u)' \subseteq Coming(u)
  BY <1>2, <1>5
<1>7. h \in Coming(th)
  BY <1>2
<1>8. to # "completed" => task[x] # "completed"
  <2>1. to # "completed" => Undoes(h)
    BY <1>1 DEF Undoes
  <2>. QED  BY <1>7, <2>1 DEF WholeInv
<1> HIDE DEF h, t, x, to
<1>9. AllDone => AllDone'
  BY <1>4, <1>8 DEF AllDone
<1>10. /\ Pending' = Pending /\ (Deciding' => Deciding) /\ (Requeuing' => Requeuing)
       /\ UNCHANGED proc
  BY <1>1, <1>6, Sides DEF Pending, Deciding, Requeuing
<1>11. /\ \A y \in Tasks : task'[y] # "cancelled"
       /\ \A u \in Threads : Shape(script'[u])
       /\ \A u \in ByClient : \A o \in Coming(u)' :
            ~Concludes(o) /\ o.op # "ask" /\ (o.op = "task" => o.to \in { "queued", "failed" })
  BY <1>2, <1>3, <1>4, <1>5, <1>6, Sides DEF WholeInv
<1>12. /\ \A u \in ByRunner : \A o \in Coming(u)' : Concludes(o) => AllDone'
       /\ run' = "completed" => AllDone'
  BY <1>1, <1>6, <1>9, Sides DEF WholeInv
<1>13. to = "completed" => ~Pending /\ ~Deciding /\ th \in ByRunner
  <2> SUFFICES ASSUME to = "completed" PROVE ~Pending /\ ~Deciding /\ th \in ByRunner
    OBVIOUS
  <2>1. th \in ByRunner
    BY <1>1, <1>7, Sides DEF WholeInv, to
  <2>2. ~Holds(h)
    BY DEF Holds, to
  <2>. QED  BY <1>7, <2>1, <2>2 DEF WholeInv
<1>14. ASSUME NEW u \in Threads, NEW o \in Coming(u)', Undoes(o)
       PROVE  task'[o.arg] # "completed"
  <2>1. task[o.arg] # "completed" /\ o \in Coming(u)
    BY <1>6, <1>14 DEF WholeInv
  <2>2. CASE to # "completed"
    BY <1>3, <2>1, <2>2 DEF IInv, TypeOK
  <2>3. CASE to = "completed"
    <3>1. CASE u = th
      <4>1. o.op = "recheck"
        BY <1>1, <1>2, <1>5, <1>14, <2>3, <3>1 DEF Follows, to
      <4>. QED  BY <1>14, <4>1 DEF Undoes
    <3>2. CASE u # th /\ u \in ByRunner
      BY <1>1, <1>13, <2>1, <2>3, <3>2, RunnerNext, IdleIsEmpty
    <3>3. CASE u \in ByClient
      <4>1. o \in Asks \/ o \in Settled(job.status)
        BY <2>1, <3>3 DEF ExecInv, Built, Coming, Range
      <4>2. Decides(o)
        BY <1>14, <2>1, <3>3, <4>1 DEF Undoes, Decides, Asks, Settled, WholeInv
      <4>. QED  BY <1>13, <2>1, <2>3, <3>3, <4>2 DEF Deciding
    <3>. QED  BY <3>1, <3>2, <3>3, Sides
  <2>. QED  BY <2>2, <2>3
<1>15. /\ \A i \in DOMAIN approvals' :
            approvals'[i].status = "pending" => task'[approvals'[i].task] # "completed"
       /\ \A i, k \in DOMAIN approvals' :
            approvals'[i].status = "pending" /\ approvals'[k].status = "pending" => i = k
  <2>1. \A i, k \in DOMAIN approvals' :
            approvals'[i].status = "pending" /\ approvals'[k].status = "pending" => i = k
    BY <1>1 DEF WholeInv
  <2>2. ASSUME NEW i \in DOMAIN approvals, approvals[i].status = "pending"
        PROVE  task'[approvals[i].task] # "completed"
    <3>1. to # "completed"
      BY <1>13, <2>2 DEF Pending
    <3>2. approvals[i].task \in Tasks /\ task[approvals[i].task] # "completed"
      <4>1. approvals \in Seq([task : Tasks, status : ApprovalStatus])
        BY DEF IInv, TypeOK
      <4>2. approvals[i] \in [task : Tasks, status : ApprovalStatus]
        BY <4>1, ElementOfSeq, LenProperties
      <4>. QED  BY <2>2, <4>2 DEF WholeInv
    <3>. QED  BY <1>4, <3>1, <3>2
  <2>. QED  BY <1>1, <2>1, <2>2
<1>16. ASSUME NEW y \in Tasks, task'[y] = "running"
       PROVE  \E u \in ByRunner : \E o \in Coming(u)' : Drives(o, y)
  <2>1. CASE y = x
    <3>1. Begins(h)
      BY <1>1, <1>4, <1>16, <2>1 DEF Begins, to
    <3>2. PICK w \in Range(t) : w.op = "work" /\ w.arg = x
      BY <1>2, <3>1
    <3>3. Drives(w, y)
      BY <2>1, <3>2 DEF Drives
    <3>4. th \in ByRunner
      BY <1>1, <1>4, <1>7, <1>16, <2>1, Sides DEF WholeInv, to
    <3>. QED  BY <1>5, <3>2, <3>3, <3>4
  <2>2. CASE y # x
    <3>1. PICK u \in ByRunner : \E o \in Coming(u) : Drives(o, y)
      BY <1>4, <1>16, <2>2 DEF WholeInv
    <3>2. PICK o \in Coming(u) : Drives(o, y)
      BY <3>1
    <3>3. o # h
      BY <2>2, <3>2 DEF Drives, x
    <3>. QED  BY <1>2, <1>5, <3>2, <3>3, Sides
  <2>. QED  BY <2>1, <2>2
<1>17. Pending' \/ Deciding' =>
         job'.status # "queued" /\ \A u \in ByRunner : \A o \in Coming(u)' : Holds(o)
  BY <1>1, <1>6, <1>10, Sides DEF WholeInv
<1>18. Pending' => ~Deciding' /\ ~Requeuing'
  BY <1>10 DEF WholeInv
<1>19. Failed' =>
         /\ job'.status # "queued" /\ ~Pending' /\ ~Deciding' /\ ~Requeuing'
         /\ \A u \in ByRunner : \A o \in Coming(u)' : Holds(o) \/ Ends(o)
  <2>1. CASE to # "failed"
    <3>1. Failed' => Failed
      BY <1>4, <2>1 DEF Failed
    <3>. QED  BY <1>1, <1>6, <1>10, <3>1, Sides DEF WholeInv
  <2>2. CASE to = "failed"
    <3>1. \A b \in Range(t) : Ends(b)
      BY <1>1, <1>2, <2>2 DEF Follows, to
    <3>2. ~Holds(h) /\ Decides(h)
      BY <1>1, <2>2 DEF Holds, Decides, to
    <3>3. CASE th \in ByRunner
      <4>1. ~Pending /\ ~Deciding
        BY <1>7, <3>2, <3>3 DEF WholeInv
      <4>2. ~Requeuing
        BY <1>1, <3>3, RequeuesBlocked
      <4>3. job.status # "queued"
        BY <1>1, <3>3, RunnerNext DEF Claiming, At, h
      <4>4. \A u \in ByRunner : \A o \in Coming(u)' : Ends(o)
        BY <1>1, <1>5, <3>1, <3>3, RunnerNext, IdleIsEmpty, Sides
      <4>. QED  BY <1>1, <1>10, <4>1, <4>2, <4>3, <4>4
    <3>4. CASE th \in ByClient
      <4>1. Deciding
        BY <1>7, <3>2, <3>4 DEF Deciding
      <4>2. /\ ~Pending /\ job.status # "queued"
            /\ \A u \in ByRunner : \A o \in Coming(u) : Holds(o)
        BY <4>1 DEF WholeInv
      <4>3. \A u \in ByClient : \A o \in Coming(u)' : Ends(o)
        BY <1>5, <3>1, <3>4, Sides DEF Attended
      <4>4. ~Deciding' /\ ~Requeuing'
        BY <4>3 DEF Deciding, Requeuing, Ends, Decides, Requeues
      <4>. QED  BY <1>1, <1>6, <1>10, <4>2, <4>4, Sides
    <3>. QED  BY <3>3, <3>4, Sides
  <2>. QED  BY <2>1, <2>2
<1>20. WholeInv'
  BY <1>10, <1>11, <1>12, <1>14, <1>15, <1>16, <1>17, <1>18, <1>19 DEF WholeInv
<1>. QED  BY <1>4, <1>8, <1>20

\* failRun takes over from the task or the denial that named the task.
LEMMA WholeFails ==
  ASSUME Attended, IInv, ExecInv, WholeInv, NEW th \in Threads, Failing(th)
  PROVE  WholeInv'
<1> DEFINE h == Head(script[th])
           a == SetTask(h.arg, "failed", FALSE)
           b == SetRun("failed", FALSE)
           c == SetJob("failed", Keep)
           rest == << a >> \o << b, c >>
<1>1. ~Idle(th) /\ h.op = "fail" /\ UNCHANGED <<run, task, job, approvals, proc>>
  BY DEF Failing, At, store
<1>2. Coming(th) = { h } /\ Tail(script[th]) = <<>> /\ h.arg \in Tasks
  <2>1. h.arg \in Tasks
    BY <1>1, WholeNext, NextAccess, OpShape DEF Proper, At
  <2>. QED  BY <1>1, <2>1, WholeNext DEF Lasting
<1>3. /\ a.op = "task" /\ a.to = "failed" /\ a.arg = h.arg /\ b.op = "run" /\ b.to = "failed"
      /\ c.op = "job" /\ c.to = "failed" /\ a \in Ops /\ b \in Ops /\ c \in Ops
  BY <1>2 DEF SetTask, SetRun, SetJob, Op, Ops, Keep, TaskStatus, RunStatus, JobStatus
<1>4. h.arg # 0
  BY <1>2 DEF Tasks
<1>5. Follow(th, rest)
  BY <1>4 DEF Failing, Arg
<1> HIDE DEF a, b, c, h
<1>6. Shape(rest) /\ Range(rest) = { a, b, c } /\ rest \in Seq(Ops)
  <2>1. Shape(<< a >>) /\ Range(<< a >>) = { a } /\ << a >> \in Seq(Ops)
    BY <1>3, Tuples, ShapeShort DEF Proper, Begins, Passing
  <2>2. Shape(<< b, c >>) /\ Range(<< b, c >>) = { b, c } /\ << b, c >> \in Seq(Ops)
    <3>1. Follows(b, c)
      BY <1>3 DEF Follows
    <3>. QED  BY <1>3, <3>1, Tuples, ShapePair DEF Proper, Begins, Passing
  <2>3. Follows(a, b) /\ Follows(a, c)
    BY <1>3 DEF Follows, Ends
  <2>4. \A o \in Range(<< a >>) : o.op \in Passing
    BY <1>3, <2>1 DEF Passing
  <2>5. \A o \in Range(<< a >>), e \in Range(<< b, c >>) : Follows(o, e)
    BY <2>1, <2>2, <2>3
  <2>6. rest \in Seq(Ops) /\ Shape(rest) /\ Range(rest) = Range(<< a >>) \cup Range(<< b, c >>)
    BY <2>1, <2>2, <2>4, <2>5, ShapeJoin
  <2>. QED  BY <2>1, <2>2, <2>6
<1> HIDE DEF rest
<1>7. Does(th, rest)
  BY <1>2, <1>5, <1>6, ConcatEmptySeq DEF Follow
<1>8. task[h.arg] # "completed"
  BY <1>1, <1>2, Sides DEF WholeInv, Undoes
<1>9. \A o \in Range(rest) : ~Concludes(o) /\ ~Requeues(o) /\ o.op # "ask"
                             /\ (o.op = "task" => o.to = "failed" /\ o.arg = h.arg)
                             /\ (Undoes(o) => o.arg = h.arg)
  BY <1>3, <1>6 DEF Concludes, Requeues, Undoes
<1>10. run' = "completed" => AllDone
  BY <1>1 DEF WholeInv
<1>11. CASE th \in ByRunner
  <2>1. \A u \in ByRunner \ {th} : Idle(u)
    BY <1>1, <1>11, RunnerNext DEF h
  <2>2. ~Pending /\ ~Deciding /\ ~Failed
    BY <1>1, <1>11, NothingPending DEF Holds, Ends, h
  <2>3. ASSUME NEW x \in Tasks, task[x] = "running" PROVE \E o \in Range(rest) : Drives(o, x)
    <3>1. PICK u \in ByRunner : \E o \in Coming(u) : Drives(o, x)
      BY <2>3 DEF WholeInv
    <3>2. u = th
      BY <2>1, <3>1, IdleIsEmpty, Sides
    <3>3. x = h.arg
      BY <1>2, <3>1, <3>2 DEF Drives
    <3>4. Drives(a, x)
      BY <1>3, <3>3 DEF Drives
    <3>. QED  BY <1>6, <3>4
  <2>4. \A o \in Range(rest) : /\ Concludes(o) => AllDone
                               /\ Undoes(o) => task[o.arg] # "completed"
    BY <1>8, <1>9
  <2>. QED  BY <1>1, <1>6, <1>7, <1>10, <1>11, <2>1, <2>2, <2>3, <2>4, WholeRunner
<1>12. CASE th \in ByClient
  <2>1. Deciding
    BY <1>1, <1>2, <1>12 DEF Deciding, Decides
  <2>2. ~Pending /\ Pending' = Pending
    BY <1>1, <2>1 DEF WholeInv, Pending
  <2>3. \A o \in Range(rest) :
          /\ ~Concludes(o) /\ o.op # "ask" /\ (o.op = "task" => o.to \in { "queued", "failed" })
          /\ Undoes(o) => task[o.arg] # "completed"
    BY <1>8, <1>9
  <2>. QED  BY <1>1, <1>6, <1>7, <1>9, <1>10, <1>12, <2>1, <2>2, <2>3, WholeClient
<1>. QED  BY <1>11, <1>12, Sides

LEMMA WholeStoreSteps ==
  ASSUME Attended, IInv, ExecInv, WholeInv, NEW th \in Threads, StoreStep(th)
  PROVE  /\ WholeInv'
         /\ \A t \in Tasks : task[t] = "completed" => task'[t] = "completed"
<1>1. CASE RunWrite(th) \/ JobWrite(th)
  BY <1>1, WholeWrites DEF RunWrite, JobWrite
<1>2. CASE TaskWrite(th)
  BY <1>2, WholeTasks
<1>3. CASE JobRead(th)
  BY <1>3, WholeReads DEF JobRead, store
<1>4. CASE Bail(th)
  BY <1>4, WholeNext DEF Bail
<1>5. CASE Failing(th)
  BY <1>5, WholeFails DEF Failing, store
<1>. QED  BY <1>1, <1>2, <1>3, <1>4, <1>5 DEF StoreStep

\* The runner's thread is between two tasks: no decision is pending or acted
\* on, no task has failed and none is running, and it may go on with anything.
LEMMA BetweenTasks ==
  ASSUME IInv, ExecInv, WholeInv, NEW th \in Threads,
         \E kind \in { "start", "exec", "recheck", "synthesize" } : At(th, kind)
  PROVE  /\ ~Pending /\ ~Deciding /\ ~Failed /\ \A t \in Tasks : task[t] # "running"
         /\ th \in ByRunner /\ \A u \in ByRunner \ {th} : Idle(u)
         /\ Head(script[th]) \in Coming(th)
<1>1. th \in ByRunner /\ ~Idle(th) /\ \A u \in ByRunner \ {th} : Idle(u)
  BY RunnerOnly
<1>2. Head(script[th]).op \in { "start", "exec", "recheck", "synthesize" }
  BY DEF At
<1>3. ~Holds(Head(script[th])) /\ ~Ends(Head(script[th]))
  BY <1>2 DEF Holds, Ends
<1>. QED  BY <1>1, <1>2, <1>3, NothingPending, NothingRuns, WholeNext

LEMMA WholeBetween ==
  ASSUME IInv, ExecInv, WholeInv, NEW th \in Threads,
         \E kind \in { "start", "exec", "recheck", "synthesize" } : At(th, kind),
         NEW rest, Shape(rest), Does(th, rest), UNCHANGED <<run, task, job, approvals, proc>>,
         \A o \in Range(rest) : /\ Concludes(o) => AllDone
                                /\ Undoes(o) => task[o.arg] # "completed"
  PROVE  WholeInv'
<1>1. run' = "completed" => AllDone
  BY DEF WholeInv
<1>. QED  BY <1>1, BetweenTasks, WholeRunner

\* The accesses the handlers are built from, by what they do.
LEMMA Meanings ==
  ASSUME NEW bail, NEW runner
  PROVE  /\ \A status : LET o == SetRun(status, bail) IN
              /\ o.op = "run" /\ o.to = status /\ ~Undoes(o) /\ ~Decides(o) /\ ~Requeues(o)
              /\ Proper(o) /\ ~Begins(o) /\ (Concludes(o) => status = "completed")
         /\ \A t, status : LET o == SetTask(t, status, bail) IN
              /\ o.op = "task" /\ o.arg = t /\ o.to = status /\ ~Requeues(o) /\ ~Concludes(o)
              /\ status # "cancelled" => Proper(o)
              /\ status # "running" => ~Begins(o)
         /\ \A status, must : LET o == Op("job", 0, status, runner, bail, must) IN
              /\ o.op = "job" /\ o.to = status /\ ~Undoes(o) /\ ~Decides(o) /\ ~Concludes(o)
              /\ Proper(o) /\ ~Begins(o) /\ (Requeues(o) => status = "queued")
<1>1. \A status : LET o == SetRun(status, bail) IN
        /\ o.op = "run" /\ o.to = status /\ ~Undoes(o) /\ ~Decides(o) /\ ~Requeues(o)
        /\ Proper(o) /\ ~Begins(o) /\ (Concludes(o) => status = "completed")
  BY DEF SetRun, Op, Undoes, Decides, Requeues, Proper, Begins, Concludes
<1>2. \A t, status : LET o == SetTask(t, status, bail) IN
        /\ o.op = "task" /\ o.arg = t /\ o.to = status /\ ~Requeues(o) /\ ~Concludes(o)
        /\ status # "cancelled" => Proper(o)
        /\ status # "running" => ~Begins(o)
  BY DEF SetTask, Op, Requeues, Proper, Begins, Concludes
<1>3. \A status, must : LET o == Op("job", 0, status, runner, bail, must) IN
        /\ o.op = "job" /\ o.to = status /\ ~Undoes(o) /\ ~Decides(o) /\ ~Concludes(o)
        /\ Proper(o) /\ ~Begins(o) /\ (Requeues(o) => status = "queued")
  BY DEF Op, Undoes, Decides, Requeues, Proper, Begins, Concludes
<1>. QED  BY <1>1, <1>2, <1>3

\* What follows once a task waits for a decision.
LEMMA HoldShape ==
  ASSUME IInv, NEW t \in Tasks, NEW bail \in BOOLEAN, task[t] # "completed"
  PROVE  LET s == Hold(t, bail)
         IN /\ s \in Seq(Ops) /\ Shape(s)
            /\ \A o \in Range(s) : /\ Holds(o) /\ ~Concludes(o)
                                   /\ Undoes(o) => task[o.arg] # "completed"
<1> DEFINE a == SetTask(t, "blocked", bail)
           b == SetRun("blocked", bail)
           c == SetJob("blocked", job.runner)
<1>1. /\ a.op = "task" /\ a.to = "blocked" /\ a.arg = t /\ ~Concludes(a) /\ Proper(a) /\ ~Begins(a)
      /\ b.op = "run" /\ b.to = "blocked" /\ ~Undoes(b) /\ ~Concludes(b) /\ Proper(b) /\ ~Begins(b)
      /\ c.op = "job" /\ c.to = "blocked" /\ ~Undoes(c) /\ ~Concludes(c) /\ Proper(c) /\ ~Begins(c)
  <2>1. a.op = "task" /\ a.to = "blocked" /\ a.arg = t /\ ~Concludes(a) /\ Proper(a) /\ ~Begins(a)
    BY Meanings
  <2>2. b.op = "run" /\ b.to = "blocked" /\ ~Undoes(b) /\ ~Concludes(b) /\ Proper(b) /\ ~Begins(b)
    BY Meanings
  <2>3. c.op = "job" /\ c.to = "blocked" /\ ~Undoes(c) /\ ~Concludes(c) /\ Proper(c) /\ ~Begins(c)
    BY DEF SetJob, Op, Undoes, Concludes, Proper, Begins
  <2>. QED  BY <2>1, <2>2, <2>3
<1>2. a \in Ops /\ b \in Ops /\ c \in Ops
  BY DEF SetTask, SetRun, SetJob, Op, Ops, Keep, TaskStatus, RunStatus, JobStatus, IInv, TypeOK
<1>3. Hold(t, bail) = << a, b, c >>
  BY DEF Hold
<1> HIDE DEF a, b, c
<1>4. Follows(a, b) /\ Follows(a, c) /\ Follows(b, c)
  BY <1>1 DEF Follows
<1>5. Shape(<< a, b, c >>) /\ Range(<< a, b, c >>) = { a, b, c }
  BY <1>1, <1>4, ShapeTriple DEF Passing
<1>6. << a, b, c >> \in Seq(Ops)
  BY <1>2, Tuples
<1>7. Holds(a) /\ Holds(b) /\ Holds(c)
  BY <1>1 DEF Holds
<1>. QED  BY <1>1, <1>3, <1>5, <1>6, <1>7

LEMMA FailShape ==
  ASSUME NEW t \in Tasks
  PROVE  LET o == FailRun(t)
         IN /\ Shape(<< o >>) /\ Range(<< o >>) = { o } /\ o.op = "fail" /\ o.arg = t
            /\ ~Concludes(o) /\ ~Requeues(o) /\ Undoes(o) /\ Decides(o)
<1> DEFINE o == FailRun(t)
<1>1. o.op = "fail" /\ o.arg = t /\ t # 0
  BY DEF FailRun, Op, Tasks
<1> HIDE DEF o
<1>2. Proper(o) /\ ~Begins(o) /\ o.op \in Lasting
  BY <1>1 DEF Proper, Begins, Lasting
<1>3. ~Concludes(o) /\ ~Requeues(o) /\ Undoes(o) /\ Decides(o)
  BY <1>1 DEF Concludes, Requeues, Undoes, Decides
<1>. QED  BY <1>1, <1>2, <1>3, ShapeShort DEF o

\* The other accesses an execution may stop at.
LEMMA StopShape ==
  ASSUME NEW t, NEW runner, NEW bail
  PROVE  LET a == Execute(t)
             b == Op("synthesize", t, "", runner, bail, FALSE)
         IN /\ a.op = "exec" /\ Shape(<< a >>) /\ Range(<< a >>) = { a } /\ ~Concludes(a) /\ ~Undoes(a)
            /\ b.op = "synthesize" /\ Shape(<< b >>) /\ Range(<< b >>) = { b } /\ ~Undoes(b)
            /\ Proper(a) /\ ~Begins(a) /\ ~Decides(a) /\ ~Requeues(a)
<1> DEFINE a == Execute(t)
           b == Op("synthesize", t, "", runner, bail, FALSE)
<1>1. a.op = "exec" /\ b.op = "synthesize"
  BY DEF Execute, Op
<1> HIDE DEF a, b
<1>2. /\ Proper(a) /\ ~Begins(a) /\ a.op \in Lasting /\ ~Concludes(a) /\ ~Undoes(a)
      /\ Proper(b) /\ ~Begins(b) /\ b.op \in Lasting /\ ~Undoes(b) /\ ~Decides(a) /\ ~Requeues(a)
  BY <1>1 DEF Proper, Begins, Lasting, Concludes, Undoes, Decides, Requeues
<1>. QED  BY <1>1, <1>2, ShapeShort DEF a, b

\* The execution asks: its thread has only the holding of the task left, and
\* no other decision is awaited.
LEMMA WholeAsk ==
  ASSUME Attended, IInv, ExecInv, WholeInv, NEW th \in Threads, Ask(th)
  PROVE  WholeInv'
<1> DEFINE h == Head(script[th])
           t == Tail(script[th])
           x == h.arg
           record == [task |-> x, status |-> "pending"]
<1>1. ~Idle(th) /\ Follow(th, <<>>) /\ h.op = "ask" /\ UNCHANGED <<run, task, job, proc>>
  BY DEF Ask, At
<1>2. /\ Coming(th) = { h } \cup Range(t) /\ Shape(t) /\ Does(th, t)
      /\ \A b \in Range(t) : Follows(h, b)
  BY <1>1, WholeNext DEF Follow
<1>3. approvals' = Append(approvals, record)
  BY DEF Ask, Arg
<1>4. /\ \A u \in Threads : script'[u] = IF u = th THEN t ELSE script[u]
      /\ \A u \in Threads : Coming(u)' = IF u = th THEN Range(t) ELSE Coming(u)
  BY <1>2, ComingAfter
<1>5. h \in Coming(th) /\ \A u \in Threads : Coming(u)' \subseteq Coming(u)
  BY <1>2, <1>4
<1>6. th \in ByRunner
  BY <1>1, <1>5, Sides DEF WholeInv
<1>7. ~Holds(h) /\ ~Ends(h) /\ Undoes(h) /\ \A y \in Tasks : ~Drives(h, y)
  BY <1>1 DEF Holds, Ends, Undoes, Drives
<1>8. ~Pending /\ ~Deciding /\ ~Failed /\ task[x] # "completed"
  BY <1>1, <1>5, <1>6, <1>7, NothingPending, Sides DEF WholeInv
<1>9. ~Requeuing /\ job.status # "queued" /\ \A u \in ByRunner \ {th} : Idle(u)
  BY <1>1, <1>6, RequeuesBlocked, RunnerNext DEF Claiming, At
<1> HIDE DEF h, t, x
<1>10. ~Deciding' /\ ~Requeuing' /\ ~Failed' /\ AllDone' = AllDone
  BY <1>1, <1>5, <1>8, <1>9, Sides DEF Deciding, Requeuing, Failed, AllDone
<1>11. \A u \in ByRunner : \A o \in Coming(u)' : Holds(o)
  <2>1. \A o \in Range(t) : Holds(o)
    BY <1>1, <1>2 DEF Follows
  <2>. QED  BY <1>4, <1>9, <2>1, IdleIsEmpty, Sides
<1>12. \A i \in DOMAIN approvals' :
         \/ i \in DOMAIN approvals /\ approvals'[i] = approvals[i]
         \/ i = Len(approvals) + 1 /\ approvals'[i] = record
  <2>1. approvals \in Seq([task : Tasks, status : ApprovalStatus])
    BY DEF IInv, TypeOK
  <2>2. /\ Len(approvals') = Len(approvals) + 1 /\ Len(approvals) \in Nat
        /\ approvals'[Len(approvals) + 1] = record
        /\ \A i \in 1..Len(approvals) : approvals'[i] = approvals[i]
        /\ approvals' \in Seq([task : Tasks, status : ApprovalStatus] \cup { record })
    <3> HIDE DEF record
    <3>1. approvals \in Seq([task : Tasks, status : ApprovalStatus] \cup { record })
      BY <2>1, SeqMonotonic
    <3>. QED  BY <1>3, <3>1, AppendProperties, LenProperties
  <2>3. DOMAIN approvals = 1..Len(approvals) /\ DOMAIN approvals' = 1..(Len(approvals) + 1)
    BY <2>1, <2>2, LenProperties
  <2>. QED  BY <2>2, <2>3
<1>13. \A i \in DOMAIN approvals' : approvals'[i].status = "pending" =>
         i = Len(approvals) + 1 /\ approvals'[i].task = x
  BY <1>8, <1>12 DEF Pending
<1>14. /\ \A i \in DOMAIN approvals' :
            approvals'[i].status = "pending" => task'[approvals'[i].task] # "completed"
       /\ \A i, k \in DOMAIN approvals' :
            approvals'[i].status = "pending" /\ approvals'[k].status = "pending" => i = k
  BY <1>1, <1>8, <1>13
<1>15. /\ \A p \in Procs : proc'[p] = "up"
       /\ \A y \in Tasks : task'[y] # "cancelled"
       /\ \A u \in Threads : Shape(script'[u])
       /\ \A u \in ByClient : \A o \in Coming(u)' :
            ~Concludes(o) /\ o.op # "ask" /\ (o.op = "task" => o.to \in { "queued", "failed" })
       /\ \A u \in ByRunner : \A o \in Coming(u)' : Concludes(o) => AllDone'
       /\ run' = "completed" => AllDone'
       /\ \A u \in Threads : \A o \in Coming(u)' : Undoes(o) => task'[o.arg] # "completed"
  BY <1>1, <1>2, <1>4, <1>5, <1>10, Sides DEF WholeInv
<1>16. ASSUME NEW y \in Tasks, task'[y] = "running"
       PROVE  \E u \in ByRunner : \E o \in Coming(u)' : Drives(o, y)
  <2>1. PICK u \in ByRunner : \E o \in Coming(u) : Drives(o, y)
    BY <1>1, <1>16 DEF WholeInv
  <2>2. PICK o \in Coming(u) : Drives(o, y)
    BY <2>1
  <2>. QED  BY <1>2, <1>4, <1>7, <2>2, Sides
<1>. QED  BY <1>1, <1>9, <1>10, <1>11, <1>14, <1>15, <1>16 DEF WholeInv

\* The work on a task ends, well or not.
LEMMA WholeWork ==
  ASSUME IInv, ExecInv, WholeInv, NEW th \in Threads, WorkDone(th) \/ WorkFails(th)
  PROVE  WholeInv'
<1> DEFINE h == Head(script[th])
           x == Arg(th)
<1>1. At(th, "work") /\ UNCHANGED <<run, task, job, approvals, proc>>
  BY DEF WorkDone, WorkFails, store
<1>2. /\ th \in ByRunner /\ ~Idle(th) /\ \A u \in ByRunner \ {th} : Idle(u)
      /\ h.op = "work" /\ h.arg = x /\ x \in Tasks
  BY <1>1, RunnerOnly, NextAccess, OpShape DEF At, Arg
<1>3. Coming(th) = { h }
  BY <1>2, WholeNext DEF Lasting
<1>4. ~Pending /\ ~Deciding /\ ~Failed
  BY <1>2, NothingPending DEF Holds, Ends
<1> HIDE DEF h, x
<1>5. task[x] # "completed" /\ \A y \in Tasks : task[y] = "running" => y = x
  <2>1. task[x] # "completed"
    BY <1>2, <1>3, Sides DEF WholeInv, Undoes
  <2>2. ASSUME NEW y \in Tasks, task[y] = "running" PROVE y = x
    <3>1. PICK u \in ByRunner : \E o \in Coming(u) : Drives(o, y)
      BY <2>2 DEF WholeInv
    <3>2. u = th
      BY <1>2, <3>1, IdleIsEmpty, Sides
    <3>. QED  BY <1>2, <1>3, <3>1, <3>2 DEF Drives
  <2>. QED  BY <2>1, <2>2
<1>6. run' = "completed" => AllDone
  BY <1>1 DEF WholeInv
<1>7. CASE WorkDone(th)
  <2> DEFINE a == SetTask(x, "completed", FALSE)
             b == Op("recheck", x, "", Keep, TRUE, FALSE)
  <2>1. Does(th, << a, b >>)
    BY <1>7 DEF WorkDone, x
  <2>2. a.op = "task" /\ a.to = "completed" /\ a.arg = x /\ b.op = "recheck"
    BY DEF SetTask, Op
  <2> HIDE DEF a, b
  <2>3. Shape(<< a, b >>) /\ Range(<< a, b >>) = { a, b }
    BY <2>2, ShapePair DEF Passing, Lasting, Follows, Proper, Begins
  <2>4. ~Undoes(a) /\ ~Undoes(b) /\ ~Concludes(a) /\ ~Concludes(b) /\ Drives(a, x)
    BY <2>2 DEF Undoes, Concludes, Drives
  <2>. QED  BY <1>1, <1>2, <1>4, <1>5, <1>6, <2>1, <2>3, <2>4, WholeRunner
<1>8. CASE WorkFails(th)
  <2> DEFINE o == FailRun(x)
  <2>1. Does(th, << o >>)
    BY <1>8 DEF WorkFails, x
  <2>2. /\ Shape(<< o >>) /\ Range(<< o >>) = { o } /\ o.op = "fail" /\ o.arg = x /\ ~Concludes(o)
    BY <1>2, FailShape
  <2> HIDE DEF o
  <2>3. Drives(o, x)
    BY <2>2 DEF Drives
  <2>. QED  BY <1>1, <1>2, <1>4, <1>5, <1>6, <2>1, <2>2, <2>3, WholeRunner
<1>. QED  BY <1>7, <1>8

LEMMA WholeExecSteps ==
  ASSUME Ordinary, IInv, ExecInv, WholeInv, NEW th \in Threads, ExecStep(th)
  PROVE  WholeInv'
<1> DEFINE h == Head(script[th])
<1>0. Shape(<<>>) /\ Range(<<>>) = {} /\ "provider_throw" \notin Env
  BY ShapeShort DEF Ordinary
<1>1. CASE ExecReturn(th)
  BY <1>0, <1>1, WholeBetween DEF ExecReturn, Executing, store
<1>2. CASE ExecNoTaskLeft(th)
  <2>1. AllDone
    <3>1. /\ \A t \in Tasks : task[t] \notin { "queued", "blocked" }
          /\ \A t \in Tasks : task[t] \notin { "running", "failed" }
      BY <1>2, BetweenTasks DEF ExecNoTaskLeft, Proceeding, Executing, Waiting, Failed
    <3>2. \A t \in Tasks : task[t] \in TaskStatus /\ task[t] # "cancelled"
      BY DEF IInv, TypeOK, WholeInv
    <3>. QED  BY <3>1, <3>2 DEF AllDone, TaskStatus
  <2> DEFINE o == Op("synthesize", Arg(th), "", job.runner, TRUE, FALSE)
  <2>2. Shape(<< o >>) /\ Range(<< o >>) = { o } /\ ~Undoes(o)
    BY StopShape
  <2>3. Does(th, << o >>) /\ At(th, "exec") /\ UNCHANGED <<run, task, job, approvals, proc>>
    BY <1>2 DEF ExecNoTaskLeft, Proceeding, Executing, store
  <2> HIDE DEF o
  <2>. QED  BY <2>1, <2>2, <2>3, WholeBetween
<1>3. CASE ExecProviderInvalid(th)
  <2>1. PICK t \in Tasks : IsNext(t) /\ Does(th, << FailRun(t) >>)
    BY <1>3 DEF ExecProviderInvalid
  <2>2. At(th, "exec") /\ UNCHANGED <<run, task, job, approvals, proc>>
    BY <1>3 DEF ExecProviderInvalid, Proceeding, Executing, store
  <2>3. task[t] # "completed"
    BY <2>1 DEF IsNext, Waiting
  <2>. QED  BY <2>1, <2>2, <2>3, FailShape, WholeBetween
<1>4. CASE ExecHeld(th)
  <2>1. PICK t \in NeedsApproval : IsNext(t) /\ \E bail \in BOOLEAN : Does(th, Hold(t, bail))
    BY <1>4 DEF ExecHeld
  <2>2. PICK bail \in BOOLEAN : Does(th, Hold(t, bail))
    BY <2>1
  <2>3. t \in Tasks /\ task[t] # "completed"
    BY <2>1 DEF IsNext, Waiting
  <2>4. At(th, "exec") /\ UNCHANGED <<run, task, job, approvals, proc>>
    BY <1>4 DEF ExecHeld, Proceeding, Executing, store
  <2>. QED  BY <2>2, <2>3, <2>4, HoldShape, WholeBetween
<1>5. CASE ExecAsks(th)
  <2>1. PICK t \in NeedsApproval :
          IsNext(t) /\ Does(th, << Then("ask", t, "pending") >> \o Hold(t, TRUE))
    BY <1>5 DEF ExecAsks
  <2>2. t \in Tasks /\ task[t] # "completed"
    BY <2>1 DEF IsNext, Waiting
  <2>3. At(th, "exec") /\ UNCHANGED <<run, task, job, approvals, proc>>
    BY <1>5 DEF ExecAsks, Proceeding, Executing, store
  <2> DEFINE a == Then("ask", t, "pending")
             s == Hold(t, TRUE)
             rest == << a >> \o s
  <2>4. a.op = "ask" /\ a.arg = t /\ a \in Ops
    BY <2>2 DEF Then, Op, Ops, ApprovalStatus
  <2>5. /\ s \in Seq(Ops) /\ Shape(s)
        /\ \A o \in Range(s) : /\ Holds(o) /\ ~Concludes(o)
                               /\ Undoes(o) => task[o.arg] # "completed"
    BY <2>2, HoldShape
  <2> HIDE DEF a, s
  <2>6. /\ Shape(<< a >>) /\ Range(<< a >>) = { a } /\ << a >> \in Seq(Ops) /\ a.op \in Passing
        /\ ~Concludes(a) /\ \A o \in Range(s) : Follows(a, o)
    BY <2>4, <2>5, Tuples, ShapeShort DEF Passing, Proper, Begins, Follows, Concludes
  <2>7. Shape(rest) /\ Range(rest) = { a } \cup Range(s)
    BY <2>5, <2>6, ShapeJoin
  <2>8. \A o \in Range(rest) : ~Concludes(o) /\ (Undoes(o) => task[o.arg] # "completed")
    BY <2>2, <2>4, <2>5, <2>6, <2>7
  <2>9. Does(th, rest)
    BY <2>1 DEF a, s
  <2> HIDE DEF rest
  <2>. QED  BY <2>3, <2>7, <2>8, <2>9, WholeBetween
<1>6. CASE ExecBegins(th)
  <2>1. PICK t \in Tasks :
          IsNext(t) /\ Does(th, << SetRun("running", TRUE), SetTask(t, "running", TRUE),
                                   Op("work", t, "", Keep, TRUE, FALSE) >>)
    BY <1>6 DEF ExecBegins
  <2>2. task[t] # "completed"
    BY <2>1 DEF IsNext, Waiting
  <2>3. At(th, "exec") /\ UNCHANGED <<run, task, job, approvals, proc>>
    BY <1>6 DEF ExecBegins, Proceeding, Executing, store
  <2> DEFINE a == SetRun("running", TRUE)
             b == SetTask(t, "running", TRUE)
             c == Op("work", t, "", Keep, TRUE, FALSE)
  <2>4. /\ a.op = "run" /\ a.to = "running"
        /\ b.op = "task" /\ b.to = "running" /\ b.arg = t
        /\ c.op = "work" /\ c.arg = t
    BY DEF SetRun, SetTask, Op
  <2>5. Does(th, << a, b, c >>)
    BY <2>1
  <2> HIDE DEF a, b, c
  <2>6. Shape(<< a, b, c >>) /\ Range(<< a, b, c >>) = { a, b, c }
    <3>1. Follows(a, b) /\ Follows(a, c) /\ Follows(b, c)
      BY <2>4 DEF Follows
    <3>2. /\ Proper(a) /\ Proper(b) /\ Proper(c) /\ ~Begins(a) /\ ~Begins(c)
          /\ a.op \in Passing /\ b.op \in Passing /\ c.op \in Lasting
      BY <2>4 DEF Proper, Begins, Passing, Lasting
    <3>. QED  BY <2>4, <3>1, <3>2, ShapeTriple
  <2>7. \A o \in { a, b, c } : ~Concludes(o) /\ (Undoes(o) => o.arg = t)
    BY <2>4 DEF Concludes, Undoes
  <2>. QED  BY <2>2, <2>3, <2>5, <2>6, <2>7, WholeBetween
<1>7. CASE Ask(th)
  BY <1>7, WholeAsk DEF Ordinary
<1>8. CASE WorkDone(th) \/ WorkFails(th)
  BY <1>8, WholeWork
<1>9. CASE Recheck(th)
  <2> DEFINE o == Execute(Arg(th))
  <2>1. Shape(<< o >>) /\ Range(<< o >>) = { o } /\ ~Concludes(o) /\ ~Undoes(o)
    BY StopShape
  <2>2. Does(th, <<>>) \/ Does(th, << o >>)
    BY <1>9 DEF Recheck
  <2>3. At(th, "recheck") /\ UNCHANGED <<run, task, job, approvals, proc>>
    BY <1>9 DEF Recheck, store
  <2> HIDE DEF o
  <2>. QED  BY <1>0, <2>1, <2>2, <2>3, WholeBetween
<1>10. CASE Synthesized(th)
  <2> DEFINE a == Op("job", 0, "completed", h.runner, TRUE, FALSE)
             b == SetRun("completed", TRUE)
  <2>1. Does(th, << a, b >>) /\ At(th, "synthesize") /\ UNCHANGED <<run, task, job, approvals, proc>>
    BY <1>10 DEF Synthesized, store
  <2>2. AllDone
    <3>1. Concludes(h)
      BY <2>1 DEF At, Concludes
    <3>. QED  BY <2>1, <3>1, BetweenTasks DEF WholeInv
  <2>3. a.op = "job" /\ b.op = "run" /\ b.to = "completed"
    BY DEF SetRun, Op
  <2> HIDE DEF a, b
  <2>4. Shape(<< a, b >>) /\ Range(<< a, b >>) = { a, b }
    BY <2>3, ShapePair DEF Passing, Follows, Proper, Begins
  <2>5. ~Undoes(a) /\ ~Undoes(b)
    BY <2>3 DEF Undoes
  <2>. QED  BY <2>1, <2>2, <2>4, <2>5, WholeBetween
<1>11. CASE ExecProviderThrows(th) \/ SynthesisThrows(th)
  BY <1>0, <1>11 DEF ExecProviderThrows, SynthesisThrows
<1>. QED  BY <1>1, <1>2, <1>3, <1>4, <1>5, <1>6, <1>7, <1>8, <1>9, <1>10, <1>11 DEF ExecStep

LEMMA WholeAfterSteps ==
  ASSUME Ordinary, IInv, ExecInv, WholeInv, NEW th \in Threads, AfterStep(th)
  PROVE  WholeInv'
<1> DEFINE h == Head(script[th])
<1>0. Shape(<<>>) /\ Range(<<>>) = {} /\ <<>> \in Seq(Ops) /\ (run = "completed" => AllDone)
  BY ShapeShort, EmptySeq DEF WholeInv
<1>1. CASE Start(th)
  <2> DEFINE a == SetRun("running", FALSE)
             b == MustSetJob("running", RunnerId[Home[th]])
             c == Execute(0)
  <2>1. At(th, "start") /\ UNCHANGED <<run, task, job, approvals, proc>>
    BY <1>1 DEF Start, store
  <2>2. Does(th, <<>>) \/ Does(th, << a, b, c >>)
    BY <1>1 DEF Start
  <2>3. a.op = "run" /\ a.to = "running" /\ b.op = "job" /\ c.op = "exec"
    BY DEF SetRun, MustSetJob, Execute, Op
  <2> HIDE DEF a, b, c
  <2>4. Shape(<< a, b, c >>) /\ Range(<< a, b, c >>) = { a, b, c }
    BY <2>3, ShapeTriple DEF Passing, Lasting, Follows, Proper, Begins
  <2>5. \A o \in { a, b, c } : ~Concludes(o) /\ ~Undoes(o)
    BY <2>3 DEF Concludes, Undoes
  <2>. QED  BY <1>0, <2>1, <2>2, <2>4, <2>5, WholeBetween
<1>2. CASE Decided(th)
  <2>1. /\ th \in ByClient /\ ~Idle(th) /\ UNCHANGED <<run, task, job, approvals, proc>>
        /\ h.op = "decided" /\ h.arg \in Tasks /\ Arg(th) = h.arg
    BY <1>2, ClientOnly, NextAccess, OpShape DEF Decided, At, Arg, store
  <2>2. Deciding /\ task[h.arg] # "completed"
    <3>1. h \in Coming(th)
      BY <2>1, WholeNext
    <3>. QED  BY <2>1, <3>1, Sides DEF WholeInv, Deciding, Decides, Undoes
  <2>3. ~Pending'
    BY <2>1, <2>2 DEF WholeInv, Pending
  <2> DEFINE a == SetRun("queued", FALSE)
             b == SetTask(h.arg, "queued", FALSE)
             c == SetJob("queued", Keep)
             d == FailRun(h.arg)
  <2>4. \/ Does(th, << a, b >> \o << c >>) \/ Does(th, << a, b >> \o <<>>)
        \/ Does(th, << d >>)
    BY <1>2, <2>1 DEF Decided
  <2>5. /\ a.op = "run" /\ a.to = "queued"
        /\ b.op = "task" /\ b.to = "queued" /\ b.arg = h.arg
        /\ c.op = "job" /\ c.to = "queued" /\ a \in Ops /\ b \in Ops /\ c \in Ops
    BY <2>1 DEF SetRun, SetTask, SetJob, Op, Ops, Keep, TaskStatus, RunStatus, JobStatus
  <2>6. /\ Shape(<< d >>) /\ Range(<< d >>) = { d } /\ d.op = "fail" /\ d.arg = h.arg
        /\ ~Concludes(d) /\ ~Requeues(d)
    BY <2>1, FailShape
  <2> HIDE DEF a, b, c, d, h
  <2>7. /\ << a, b >> \in Seq(Ops) /\ << c >> \in Seq(Ops)
        /\ Shape(<< a, b >>) /\ Range(<< a, b >>) = { a, b } /\ Shape(<< c >>) /\ Range(<< c >>) = { c }
    BY <2>5, Tuples, ShapePair, ShapeShort DEF Passing, Follows, Proper, Begins
  <2>8. \A e \in { a, b }, f \in { c } : e.op \in Passing /\ Follows(e, f)
    BY <2>5 DEF Passing, Follows
  <2>9. /\ Shape(<< a, b >> \o << c >>) /\ Range(<< a, b >> \o << c >>) = { a, b, c }
        /\ Shape(<< a, b >> \o <<>>) /\ Range(<< a, b >> \o <<>>) = { a, b }
    <3>1. /\ Shape(<< a, b >> \o << c >>)
          /\ Range(<< a, b >> \o << c >>) = Range(<< a, b >>) \cup Range(<< c >>)
      BY <2>7, <2>8, ShapeJoin
    <3>2. << a, b >> \o <<>> = << a, b >>
      BY <2>7, ConcatEmptySeq
    <3>. QED  BY <2>7, <3>1, <3>2
  <2>10. PICK rest : Does(th, rest) /\ Shape(rest) /\ Range(rest) \subseteq { a, b, c, d }
    BY <2>4, <2>6, <2>9
  <2>11. \A o \in { a, b, c, d } :
           /\ ~Concludes(o) /\ o.op # "ask" /\ (o.op = "task" => o.to \in { "queued", "failed" })
           /\ Undoes(o) => o.arg = h.arg
    BY <2>5, <2>6 DEF Concludes, Undoes
  <2>12. /\ Pending' => Pending
         /\ \A i \in DOMAIN approvals' : i \in DOMAIN approvals /\ approvals'[i] = approvals[i]
    BY <2>1 DEF Pending
  <2>13. \A o \in Range(rest) :
           /\ ~Concludes(o) /\ o.op # "ask" /\ (o.op = "task" => o.to \in { "queued", "failed" })
           /\ Undoes(o) => task[o.arg] # "completed"
    BY <2>2, <2>10, <2>11
  <2>. QED  BY <1>0, <2>1, <2>2, <2>3, <2>10, <2>12, <2>13, WholeClient DEF Ordinary
<1>3. CASE ExpireWrite(th)
  <2> DEFINE t == Tail(script[th])
  <2>1. /\ th \in ByClient /\ ~Idle(th) /\ UNCHANGED <<run, task, job, proc>>
        /\ Follow(th, <<>>)
    BY <1>3, ClientOnly DEF ExpireWrite
  <2>2. /\ Shape(t) /\ Does(th, t) /\ \A o \in Range(t) : o \in Coming(th)
    BY <2>1, WholeNext DEF Follow
  <2> HIDE DEF t
  <2>3. \A i \in DOMAIN approvals' : approvals'[i].status = "pending" =>
           i \in DOMAIN approvals /\ approvals'[i] = approvals[i]
    <3>1. approvals' = [approvals EXCEPT ![Arg(th)].status = "expired"]
      BY <1>3 DEF ExpireWrite
    <3>2. approvals \in Seq([task : Tasks, status : ApprovalStatus])
      BY DEF IInv, TypeOK
    <3>3. DOMAIN approvals' = DOMAIN approvals /\ \A i \in DOMAIN approvals :
            approvals'[i] = IF i = Arg(th) THEN [approvals[i] EXCEPT !.status = "expired"]
                            ELSE approvals[i]
      BY <3>1
    <3>4. \A i \in DOMAIN approvals : approvals[i] \in [task : Tasks, status : ApprovalStatus]
      BY <3>2, LenProperties, ElementOfSeq
    <3>. QED  BY <3>3, <3>4
  <2>4. Pending' => Pending
    BY <2>3 DEF Pending
  <2>5. \A o \in Range(t) :
          /\ ~Concludes(o) /\ o.op # "ask" /\ (o.op = "task" => o.to \in { "queued", "failed" })
          /\ Undoes(o) => task[o.arg] # "completed"
    BY <2>1, <2>2, Sides DEF WholeInv
  <2>6. \A o \in Range(t) : (Decides(o) => Deciding) /\ (Requeues(o) => Requeuing)
    BY <2>1, <2>2 DEF Deciding, Requeuing
  <2>7. Deciding \/ Requeuing => ~Pending
    BY DEF WholeInv
  <2>. QED  BY <1>0, <2>1, <2>2, <2>3, <2>4, <2>5, <2>6, <2>7, WholeClient DEF Ordinary
<1>4. CASE \/ OpenQuestion(th) \/ ResolveWrite(th) \/ Resolved(th)
           \/ CloseQuestion(th) \/ Closed(th) \/ Replied(th)
  <2>1. ~Idle(th) /\ h.op \in { "open", "resolve", "resolved", "close", "closed", "replied" }
    BY <1>4 DEF OpenQuestion, ResolveWrite, Resolved, CloseQuestion, Closed, Replied, At
  <2>2. h.op \in Passing \cup Lasting
    BY <2>1, WholeNext
  <2>. QED  BY <2>1, <2>2 DEF Passing, Lasting
<1>. QED  BY <1>1, <1>2, <1>3, <1>4 DEF AfterStep

LEMMA WholeRequestSteps ==
  ASSUME Ordinary, IInv, ExecInv, WholeInv, NEW th \in Threads, RequestStep(th)
  PROVE  WholeInv'
<1>0. /\ th \in ByClient /\ UNCHANGED <<run, task, job, proc>>
      /\ run' = "completed" => AllDone
      /\ Env \cap { "resume", "resolve", "report_failure", "propose", "ask_user", "reply", "redecide" } = {}
  BY DEF RequestStep, Pause, Resume, Cancel, Decide, ReportFailure, Propose, Expire, AskUser,
         Resolve, Reply, Request, ByClient, Ordinary, store, WholeInv
<1>1. CASE Pause(th) \/ Cancel(th)
  <2>1. ASSUME NEW to \in { "paused", "cancelled" }
        PROVE  LET a == SetRun(to, FALSE)
                   b == SetJob(to, job.runner)
               IN /\ Shape(<< a >> \o << b >>) /\ Range(<< a >> \o << b >>) = { a, b }
                  /\ Shape(<< a >> \o <<>>) /\ Range(<< a >> \o <<>>) = { a }
                  /\ \A o \in { a, b } : /\ ~Concludes(o) /\ ~Undoes(o) /\ ~Decides(o) /\ ~Requeues(o)
                                         /\ o.op \notin { "ask", "task" }
    <3> DEFINE a == SetRun(to, FALSE)
               b == SetJob(to, job.runner)
    <3>1. /\ a.op = "run" /\ a.to = to /\ b.op = "job" /\ b.to = to /\ a \in Ops /\ b \in Ops
      BY DEF SetRun, SetJob, Op, Ops, Keep, RunStatus, JobStatus, IInv, TypeOK
    <3> HIDE DEF a, b
    <3>2. /\ << a >> \in Seq(Ops) /\ << b >> \in Seq(Ops) /\ Follows(a, b)
          /\ Shape(<< a >>) /\ Range(<< a >>) = { a } /\ Shape(<< b >>) /\ Range(<< b >>) = { b }
          /\ a.op \in Passing
      BY <3>1, Tuples, ShapeShort DEF Follows, Passing, Proper, Begins
    <3>3. \A e \in { a }, f \in { b } : e.op \in Passing /\ Follows(e, f)
      BY <3>2
    <3>4. /\ Shape(<< a >> \o << b >>)
          /\ Range(<< a >> \o << b >>) = Range(<< a >>) \cup Range(<< b >>)
      BY <3>2, <3>3, ShapeJoin
    <3>5. << a >> \o <<>> = << a >>
      BY <3>2, ConcatEmptySeq
    <3>6. \A o \in { a, b } : /\ ~Concludes(o) /\ ~Undoes(o) /\ ~Decides(o) /\ ~Requeues(o)
                              /\ o.op \notin { "ask", "task" }
      BY <3>1 DEF Concludes, Undoes, Decides, Requeues
    <3>. QED  BY <3>2, <3>4, <3>5, <3>6 DEF a, b
  <2>2. PICK rest : /\ Does(th, rest) /\ Shape(rest)
                    /\ \A o \in Range(rest) :
                         /\ ~Concludes(o) /\ ~Undoes(o) /\ ~Decides(o) /\ ~Requeues(o)
                         /\ o.op \notin { "ask", "task" }
    BY <1>1, <2>1 DEF Pause, Cancel
  <2>3. UNCHANGED approvals
    BY <1>1 DEF Pause, Cancel, store
  <2>. QED  BY <1>0, <2>2, <2>3, WholeClient DEF Ordinary
<1>2. CASE Expire(th)
  <2>1. PICK i \in DOMAIN approvals : Does(th, << Then("expire", i, "") >>)
    BY <1>2 DEF Expire
  <2> DEFINE o == Then("expire", i, "")
  <2>2. o.op = "expire"
    BY DEF Then, Op
  <2>3. Does(th, << o >>)
    BY <2>1
  <2> HIDE DEF o
  <2>4. Shape(<< o >>) /\ Range(<< o >>) = { o }
    BY <2>2, ShapeShort DEF Passing, Proper, Begins
  <2>5. ~Concludes(o) /\ ~Undoes(o) /\ ~Decides(o) /\ ~Requeues(o)
    BY <2>2 DEF Concludes, Undoes, Decides, Requeues
  <2>6. UNCHANGED approvals
    BY <1>2 DEF Expire, store
  <2>. QED  BY <1>0, <2>2, <2>3, <2>4, <2>5, <2>6, WholeClient DEF Ordinary
<1>3. CASE Decide(th)
  <2>1. PICK i \in DOMAIN approvals :
          \E verdict \in { "approved", "denied" } :
            /\ Request(th, IF approvals[i].status = "pending" THEN "decide" ELSE "redecide")
            /\ approvals' = [approvals EXCEPT ![i].status = verdict]
            /\ Does(th, << Then("decided", approvals[i].task, verdict) >>)
    BY <1>3 DEF Decide
  <2>2. PICK verdict \in { "approved", "denied" } :
            /\ Request(th, IF approvals[i].status = "pending" THEN "decide" ELSE "redecide")
            /\ approvals' = [approvals EXCEPT ![i].status = verdict]
            /\ Does(th, << Then("decided", approvals[i].task, verdict) >>)
    BY <2>1
  <2>3. approvals[i].status = "pending"
    BY <1>0, <2>2 DEF Request
  <2>4. Pending /\ task[approvals[i].task] # "completed"
    BY <2>3 DEF Pending, WholeInv
  <2>5. \A k \in DOMAIN approvals : approvals[k] \in [task : Tasks, status : ApprovalStatus]
    <3>1. approvals \in Seq([task : Tasks, status : ApprovalStatus])
      BY DEF IInv, TypeOK
    <3>. QED  BY <3>1, LenProperties, ElementOfSeq
  <2>6. DOMAIN approvals' = DOMAIN approvals /\ \A k \in DOMAIN approvals :
          approvals'[k] = IF k = i THEN [approvals[i] EXCEPT !.status = verdict] ELSE approvals[k]
    BY <2>2
  <2>7. \A k \in DOMAIN approvals' : approvals'[k].status # "pending"
    <3> SUFFICES ASSUME NEW k \in DOMAIN approvals PROVE approvals'[k].status # "pending"
      BY <2>6
    <3>1. CASE k = i
      BY <2>5, <2>6, <3>1
    <3>2. CASE k # i
      BY <2>3, <2>6, <3>2 DEF WholeInv
    <3>. QED  BY <3>1, <3>2
  <2>8. ~Pending'
    BY <2>7 DEF Pending
  <2> DEFINE o == Then("decided", approvals[i].task, verdict)
  <2>9. o.op = "decided" /\ o.arg = approvals[i].task /\ Does(th, << o >>)
    BY <2>2 DEF Then, Op
  <2> HIDE DEF o
  <2>10. Shape(<< o >>) /\ Range(<< o >>) = { o } /\ ~Concludes(o) /\ ~Requeues(o)
    BY <2>9, ShapeShort DEF Lasting, Proper, Begins, Concludes, Requeues
  <2>. QED  BY <1>0, <2>4, <2>7, <2>8, <2>9, <2>10, WholeClient DEF Ordinary
<1>4. CASE Resume(th) \/ Resolve(th) \/ ReportFailure(th) \/ Propose(th) \/ AskUser(th) \/ Reply(th)
  BY <1>0, <1>4 DEF Resume, Resolve, ReportFailure, Propose, AskUser, Reply, Request
<1>. QED  BY <1>1, <1>2, <1>3, <1>4 DEF RequestStep

LEMMA WholeClaims ==
  ASSUME Attended, IInv, ExecInv, WholeInv, NEW th \in Threads, Claim(th)
  PROVE  WholeInv'
<1> DEFINE a == MustSetJob("claimed", RunnerId[Home[th]])
           b == Then("start", 0, "")
<1>1. /\ th \in ByRunner /\ job.status = "queued"
      /\ Does(th, << a, b >>) /\ UNCHANGED <<run, task, job, approvals, proc>>
  BY DEF Claim, ByRunner, store
<1>2. \A u \in ByRunner : Idle(u)
  BY RunnerFree
<1>3. a.op = "job" /\ a.to = "claimed" /\ b.op = "start"
  BY DEF MustSetJob, Then, Op
<1> HIDE DEF a, b
<1>4. Shape(<< a, b >>) /\ Range(<< a, b >>) = { a, b }
  BY <1>3, ShapePair DEF Passing, Lasting, Follows, Proper, Begins
<1>5. \A o \in { a, b } : ~Concludes(o) /\ ~Undoes(o)
  BY <1>3 DEF Concludes, Undoes
<1>6. ~Pending /\ ~Deciding /\ ~Failed /\ (run' = "completed" => AllDone)
  BY <1>1 DEF WholeInv
<1>7. \A t \in Tasks : task[t] # "running"
  BY <1>2, IdleIsEmpty, Sides DEF WholeInv
<1>. QED  BY <1>1, <1>2, <1>4, <1>5, <1>6, <1>7, WholeRunner

LEMMA WholeStepwise ==
  ASSUME Ordinary, IInv, ExecInv, WholeInv, [Next]_vars
  PROVE  /\ WholeInv'
         /\ \A t \in Tasks : task[t] = "completed" => task'[t] = "completed"
<1>0. Attended /\ Env \cap { "crash", "shutdown", "propose" } = {}
  BY DEF Ordinary
<1>1. CASE UNCHANGED vars
  <2>1. UNCHANGED <<run, task, job, approvals, script, proc>>
    BY <1>1 DEF vars
  <2>2. \A th \in Threads : Coming(th)' = Coming(th)
    BY <2>1 DEF Coming
  <2>3. /\ Deciding' = Deciding /\ Requeuing' = Requeuing
        /\ Pending' = Pending /\ Failed' = Failed /\ AllDone' = AllDone
    BY <2>1, <2>2, Sides DEF Deciding, Requeuing, Pending, Failed, AllDone
  <2>. QED  BY <2>1, <2>2, <2>3, Sides DEF WholeInv
<1>2. ASSUME NEW th \in Threads, StoreStep(th)
      PROVE  /\ WholeInv'
             /\ \A t \in Tasks : task[t] = "completed" => task'[t] = "completed"
  BY <1>0, <1>2, WholeStoreSteps
<1>3. ASSUME NEW th \in Threads, ExecStep(th) PROVE WholeInv' /\ UNCHANGED task
  <2>1. UNCHANGED task
    BY <1>3 DEF ExecStep, ExecReturn, ExecNoTaskLeft, ExecProviderInvalid, ExecProviderThrows,
                ExecHeld, ExecAsks, ExecBegins, Ask, WorkDone, WorkFails, Recheck, Synthesized,
                SynthesisThrows, Proceeding, Executing, store
  <2>. QED  BY <1>3, <2>1, WholeExecSteps
<1>4. ASSUME NEW th \in Threads, AfterStep(th) PROVE WholeInv' /\ UNCHANGED task
  <2>1. UNCHANGED task
    BY <1>4 DEF AfterStep, Start, Decided, ExpireWrite, OpenQuestion, ResolveWrite, Resolved,
                CloseQuestion, Closed, Replied, store
  <2>. QED  BY <1>4, <2>1, WholeAfterSteps
<1>5. ASSUME NEW th \in Threads, RequestStep(th) PROVE WholeInv' /\ UNCHANGED task
  <2>1. UNCHANGED task
    BY <1>5 DEF RequestStep, Pause, Resume, Cancel, Decide, ReportFailure, Propose, Expire,
                AskUser, Resolve, Reply, store
  <2>. QED  BY <1>5, <2>1, WholeRequestSteps
<1>6. ASSUME NEW th \in Threads, Claim(th) PROVE WholeInv' /\ UNCHANGED task
  <2>1. UNCHANGED task
    BY <1>6 DEF Claim, store
  <2>. QED  BY <1>0, <1>6, <2>1, WholeClaims
<1>7. ASSUME NEW th \in Threads, WorkProposes(th) PROVE FALSE
  BY <1>0, <1>7 DEF WorkProposes
<1>8. ASSUME NEW p \in Procs, ProcStep(p) PROVE FALSE
  BY <1>0, <1>8 DEF ProcStep, Crash, Shutdown, Stopped, Boot, WholeInv
<1>. QED  BY <1>1, <1>2, <1>3, <1>4, <1>5, <1>6, <1>7, <1>8 DEF Next, ThreadStep

LEMMA WholeInitially == Init => WholeInv
<1> SUFFICES ASSUME Init PROVE WholeInv
  OBVIOUS
<1>1. \A th \in Threads : script[th] = <<>> /\ Coming(th) = {}
  BY ShapeShort DEF Init, Coming
<1>2. ~Deciding /\ ~Requeuing
  BY <1>1, Sides DEF Deciding, Requeuing
<1>3. DOMAIN approvals = {} /\ ~Pending
  BY DEF Init, Pending
<1>4. \A t \in Tasks : task[t] = "queued"
  BY DEF Init
<1>. QED  BY <1>1, <1>2, <1>3, <1>4, Sides, ShapeShort DEF Init, WholeInv, Failed

\* When nobody resumes the run or reports a failure, no decision is made twice
\* and nothing goes down, a run that counts as completed has all its tasks
\* completed, however the accesses of the execution, of a decision, of an
\* expiry and of a pause or cancellation interleave: what executeRun concluded
\* from its last reading of the tasks still holds when it writes.
THEOREM CompletedIsWholeHolds ==
  ASSUME Ordinary
  PROVE  Spec => []CompletedIsWhole
<1>1. WholeInv => CompletedIsWhole
  BY DEF WholeInv, CompletedIsWhole, AllDone
<1>2. IInv /\ ExecInv /\ WholeInv /\ [Next]_vars => IInv' /\ ExecInv' /\ WholeInv'
  BY Stepwise, ExecStepwise, WholeStepwise DEF Ordinary
<1>. QED  BY Initially, ExecInitially, WholeInitially, <1>1, <1>2, PTL DEF Spec

\* Under the same conditions no handler sets back a task that was completed:
\* whoever is about to block, requeue or fail a task still finds it open.
THEOREM DoneOnceHolds ==
  ASSUME Ordinary
  PROVE  Spec => DoneOnce
<1>1. IInv /\ ExecInv /\ WholeInv /\ [Next]_vars =>
        /\ IInv' /\ ExecInv' /\ WholeInv'
        /\ [\A t \in Tasks : task[t] = "completed" => task'[t] = "completed"]_vars
  BY Stepwise, ExecStepwise, WholeStepwise DEF Ordinary
<1>. QED  BY Initially, ExecInitially, WholeInitially, <1>1, PTL DEF Spec, DoneOnce

---------------------------------------------------------------------------
(* A run that is not over moves on *)

\* Short chains run one at a time, on an attended run.  The API may cancel the
\* run or fail its job and the runner may be killed, or the provider may turn
\* out to be invalid: one or the other.
Recoverable ==
  /\ Attended /\ ~Overlap
  /\ Env \subseteq { "decide", "pause", "cancel", "expire", "report_failure",
                     "task_error", "provider_invalid", "crash" }
  /\ "provider_invalid" \in Env => Ordinary

\* Accesses by what they do.  One that gives the job a status may or may not
\* have read the job yet.
RunTo(status)  == { o \in Ops : o.op = "run" /\ o.to = status }
TaskTo(status) == { o \in Ops : o.op = "task" /\ o.to = status }
JobTo(status)  == { o \in Ops : o.op \in { "job", "save" } /\ o.to = status }
Verdict(to)    == { o \in Ops : o.op = "decided" /\ o.to = to }
Doing(kind)    == { o \in Ops : o.op = kind }
For(t, A)      == { o \in A : o.arg = t }

\* Scripts by what their accesses do.
One(s, A)           == s # <<>> /\ Head(s) \in A /\ Tail(s) = <<>>
Two(s, A, B)        == s # <<>> /\ Head(s) \in A /\ One(Tail(s), B)
Three(s, A, B, C)   == s # <<>> /\ Head(s) \in A /\ Two(Tail(s), B, C)
Four(s, A, B, C, D) == s # <<>> /\ Head(s) \in A /\ Three(Tail(s), B, C, D)

\* Statuses in which a run or a job does not go on.
Halted == { "paused" } \cup Terminal

\* The next task waits for a decision; an execution is on its way, or was when
\* the run was halted; the run is not being executed.
Held  == \E t \in Tasks : IsNext(t) /\ HasApproval(t, "pending")
OnIt  == run = "running" /\ job.status = "running"
Going == run \in { "running" } \cup Halted /\ (run = "running" => job.status = "running")
Left  == run \notin { "running", "blocked" }

\* What is left of failRun.
FailsRun(s) ==
  \/ One(s, Doing("fail"))
  \/ Three(s, TaskTo("failed"), RunTo("failed"), JobTo("failed"))
  \/ Two(s, RunTo("failed"), JobTo("failed"))

\* What a thread of the runner can have left to do, and what it relies on.
Stage(s) ==
  \/ s = <<>>
  \/ run = "queued" /\ Two(s, JobTo("claimed"), Doing("start"))
  \/ Left /\ One(s, Doing("start"))
  \/ Left /\ Three(s, RunTo("running"), JobTo("running"), Doing("exec"))
  \/ run = "running" /\ Two(s, JobTo("running"), Doing("exec"))
  \/ OnIt /\ One(s, Doing("exec"))
  \/ /\ OnIt /\ ~Pending
     /\ \E t \in NeedsApproval :
          /\ IsNext(t)
          /\ Four(s, For(t, Doing("ask")), For(t, TaskTo("blocked")),
                     RunTo("blocked"), JobTo("blocked"))
  \/ /\ OnIt /\ Held
     /\ \E t \in Tasks :
          /\ IsNext(t)
          /\ Three(s, For(t, TaskTo("blocked")), RunTo("blocked"), JobTo("blocked"))
  \/ OnIt /\ Held /\ Two(s, RunTo("blocked"), JobTo("blocked"))
  \/ run = "blocked" /\ job.status = "running" /\ Held /\ One(s, JobTo("blocked"))
  \/ /\ OnIt /\ ~Pending
     /\ \E t \in Tasks :
          /\ IsNext(t) /\ ~HasApproval(t, "denied")
          /\ \/ Three(s, RunTo("running"), For(t, TaskTo("running")), For(t, Doing("work")))
             \/ Two(s, For(t, TaskTo("running")), For(t, Doing("work")))
  \/ /\ Going /\ ~Pending
     /\ \E t \in Tasks :
          /\ ~HasApproval(t, "denied")
          /\ \/ One(s, For(t, Doing("work")))
             \/ Two(s, For(t, TaskTo("completed")), For(t, Doing("recheck")))
  \/ /\ Going /\ ~Pending
     /\ \/ One(s, Doing("recheck")) \/ One(s, Doing("synthesize"))
        \/ Two(s, JobTo("completed"), RunTo("completed")) /\ ~Head(s).must
        \/ FailsRun(s)
  \/ run # "blocked" /\ ~Pending /\ One(s, RunTo("completed"))
  \/ run = "failed" /\ ~Pending /\ One(s, JobTo("failed"))

\* What a request can have left to do.  Whatever it does, it changes the run
\* before the job.
Chain(s) ==
  \/ s = <<>>
  \/ \E i \in DOMAIN approvals :
       approvals[i].status = "approved" /\ One(s, For(i, Doing("expire")))
  \/ run \in { "queued", "running" } /\
       (One(s, RunTo("paused")) \/ Two(s, RunTo("paused"), JobTo("paused")))
  \/ run \notin Terminal /\
       (One(s, RunTo("cancelled")) \/ Two(s, RunTo("cancelled"), JobTo("cancelled")))
  \/ Left /\ (One(s, JobTo("paused")) \/ One(s, JobTo("cancelled")))
  \/ ~Pending /\ One(s, Verdict("denied"))
  \/ /\ ~Pending
     /\ \E t \in Tasks :
          /\ ~HasApproval(t, "denied")
          /\ \/ One(s, For(t, Verdict("approved")))
             \/ Two(s, RunTo("queued"), For(t, TaskTo("queued")))
             \/ Three(s, RunTo("queued"), For(t, TaskTo("queued")), JobTo("queued"))
             \/ run = "queued" /\ (\/ One(s, For(t, TaskTo("queued")))
                                   \/ Two(s, For(t, TaskTo("queued")), JobTo("queued")))
  \/ ~Pending /\ run = "queued" /\ One(s, JobTo("queued"))
  \/ (Pending => job.status # "queued") /\ (FailsRun(s) \/ (Left /\ One(s, JobTo("failed"))))

\* What an access does: it overwrites the run, fails it, fails task t, or acts
\* on a decision.
Replaces(o)  == o.op \in { "decided", "fail", "run" }
Breaks(o)    == o.op = "fail" \/ Ends(o)
Denies(o, t) == /\ o.arg = t
                /\ \/ o.op = "fail"
                   \/ o.op = "decided" /\ o.to = "denied"
                   \/ o.op = "task" /\ o.to = "failed"
ActsOn(o)    == o.op = "decided" \/ (o.op \in { "run", "task" } /\ o.to = "queued")

\* The runner is down; it is at something; a request is about to do so.
Down       == \E p \in Runners : proc[p] = "down"
Busy       == \E th \in ByRunner : ~Idle(th)
Overwrites == \E th \in ByClient : \E o \in Coming(th) : Replaces(o)
Fails      == \E th \in ByClient : \E o \in Coming(th) : Breaks(o)
Denying(t) == \E th \in ByClient : \E o \in Coming(th) : Denies(o, t)
Acts       == \E th \in ByClient : \E o \in Coming(th) : ActsOn(o)

\* Approvals are of gated tasks, one at most is pending, none for a task denied.
Apart ==
  /\ \A i \in DOMAIN approvals : approvals[i].task \in NeedsApproval
  /\ \A i, k \in DOMAIN approvals :
       approvals[i].status = "pending" /\ approvals[k].status = "pending" => i = k
  /\ \A t \in Tasks : ~HasApproval(t, "pending") \/ ~HasApproval(t, "denied")

\* A task that is running is driven by the runner, and nothing is pending then.
TaskDriven(t) ==
  task[t] = "running" =>
    /\ ~Pending /\ run # "blocked"
    /\ Down \/ \E th \in ByRunner : \E o \in Coming(th) : Drives(o, t)

\* Who moves on a run that is running, or blocked.
RunDriven ==
  /\ run = "running" => Down \/ Busy
  /\ run = "blocked" =>
       \/ Overwrites
       \/ /\ Held
          /\ \/ job.status \in { "blocked", "queued" }
             \/ job.status \in { "claimed", "running" } /\ (Down \/ Busy)

\* Between two accesses of a chain nobody else moves, so each of them still
\* finds what the chain was started for; a pending decision is about the next
\* task; and somebody is at a run that is running.
DriveInv ==
  /\ \A p \in Procs : proc[p] \in { "up", "down" }
  /\ \A th, u \in Threads : th = u \/ Parked(th) \/ Parked(u)
  /\ \A th \in ByRunner : Stage(script[th])
  /\ \A th \in ByClient : Chain(script[th])
  /\ Apart
  /\ \A t \in Tasks : HasApproval(t, "denied") => task[t] = "failed" \/ Denying(t)
  /\ Pending => Held \/ job.status \in Halted \/ Fails
  /\ \A t \in Tasks : TaskDriven(t)
  /\ Acts => \A th \in ByRunner : Idle(th) \/ One(script[th], Doing("start"))
  /\ RunDriven

\* The first access of a script and those after it.
LEMMA ScriptNext ==
  ASSUME NEW s \in Seq(Ops), s # <<>>
  PROVE  /\ Head(s) \in Ops /\ Tail(s) \in Seq(Ops) /\ <<>> \o Tail(s) = Tail(s)
         /\ Range(s) = { Head(s) } \cup Range(Tail(s))
<1> DEFINE n == Len(s)
           t == Tail(s)
           m == Len(t)
<1>1. /\ t \in Seq(Ops) /\ m = n - 1 /\ n \in Nat \ {0} /\ Head(s) \in Ops
      /\ \A i \in 1..m : t[i] = s[i + 1]
      /\ Head(s) = s[1]
  BY HeadTailProperties, EmptySeq, LenProperties
<1>2. <<>> \o t = t
  BY <1>1, ConcatEmptySeq
<1>3. Range(s) = { s[i] : i \in 1..n } /\ Range(t) = { t[i] : i \in 1..m }
  BY <1>1, RangeEquality
<1> HIDE DEF n, m, t
<1>4. /\ \A i \in 1..m : i + 1 \in 1..n
      /\ 1 \in 1..n /\ \A i \in 1..n : i # 1 => i - 1 \in 1..m /\ (i - 1) + 1 = i
  BY <1>1
<1>5. ASSUME NEW o \in Range(s) PROVE o = Head(s) \/ o \in Range(t)
  <2>1. PICK i \in 1..n : o = s[i]
    BY <1>3
  <2>2. i # 1 => t[i - 1] = s[i] /\ i - 1 \in 1..m
    BY <1>1, <1>4
  <2>. QED  BY <1>1, <1>3, <2>1, <2>2
<1>6. Head(s) \in Range(s)
  BY <1>1, <1>3, <1>4
<1>7. ASSUME NEW o \in Range(t) PROVE o \in Range(s)
  <2>1. PICK i \in 1..m : o = t[i]
    BY <1>3
  <2>. QED  BY <1>1, <1>3, <1>4, <2>1
<1>. QED  BY <1>1, <1>2, <1>5, <1>6, <1>7 DEF t

LEMMA OneNext ==
  ASSUME NEW s \in Seq(Ops), NEW A, One(s, A)
  PROVE  /\ s # <<>> /\ Head(s) \in A /\ Tail(s) = <<>> /\ <<>> \o Tail(s) = <<>>
         /\ Range(s) = { Head(s) }
  BY ScriptNext, ShapeShort DEF One

LEMMA TwoNext ==
  ASSUME NEW s \in Seq(Ops), NEW A, NEW B, Two(s, A, B)
  PROVE  /\ s # <<>> /\ Head(s) \in A /\ <<>> \o Tail(s) = Tail(s) /\ Tail(s) \in Seq(Ops)
         /\ One(Tail(s), B) /\ Range(s) = { Head(s), Head(Tail(s)) } /\ Head(Tail(s)) \in B
<1>1. s # <<>> /\ Head(s) \in A /\ One(Tail(s), B)
  BY DEF Two
<1>2. Tail(s) \in Seq(Ops) /\ <<>> \o Tail(s) = Tail(s) /\ Range(s) = { Head(s) } \cup Range(Tail(s))
  BY <1>1, ScriptNext
<1>3. Range(Tail(s)) = { Head(Tail(s)) } /\ Head(Tail(s)) \in B
  BY <1>1, <1>2, OneNext
<1>. QED  BY <1>1, <1>2, <1>3

LEMMA ThreeNext ==
  ASSUME NEW s \in Seq(Ops), NEW A, NEW B, NEW C, Three(s, A, B, C)
  PROVE  /\ s # <<>> /\ Head(s) \in A /\ <<>> \o Tail(s) = Tail(s) /\ Tail(s) \in Seq(Ops)
         /\ Two(Tail(s), B, C)
         /\ \E b \in B, c \in C : Range(s) = { Head(s), b, c }
<1>1. s # <<>> /\ Head(s) \in A /\ Two(Tail(s), B, C)
  BY DEF Three
<1>2. Tail(s) \in Seq(Ops) /\ <<>> \o Tail(s) = Tail(s) /\ Range(s) = { Head(s) } \cup Range(Tail(s))
  BY <1>1, ScriptNext
<1>3. \E b \in B, c \in C : Range(Tail(s)) = { b, c }
  <2>1. /\ Range(Tail(s)) = { Head(Tail(s)), Head(Tail(Tail(s))) }
        /\ Head(Tail(s)) \in B /\ Head(Tail(Tail(s))) \in C
    BY <1>1, <1>2, TwoNext
  <2>. QED  BY <2>1
<1>. QED  BY <1>1, <1>2, <1>3

LEMMA FourNext ==
  ASSUME NEW s \in Seq(Ops), NEW A, NEW B, NEW C, NEW D, Four(s, A, B, C, D)
  PROVE  /\ s # <<>> /\ Head(s) \in A /\ <<>> \o Tail(s) = Tail(s) /\ Tail(s) \in Seq(Ops)
         /\ Three(Tail(s), B, C, D)
         /\ \E b \in B, c \in C, d \in D : Range(s) = { Head(s), b, c, d }
<1>1. s # <<>> /\ Head(s) \in A /\ Three(Tail(s), B, C, D)
  BY DEF Four
<1>2. Tail(s) \in Seq(Ops) /\ <<>> \o Tail(s) = Tail(s) /\ Range(s) = { Head(s) } \cup Range(Tail(s))
  BY <1>1, ScriptNext
<1>3. \E b \in B, c \in C, d \in D : Range(Tail(s)) = { b, c, d }
  <2> DEFINE t == Tail(s)
  <2>1. t \in Seq(Ops) /\ Three(t, B, C, D)
    BY <1>1, <1>2
  <2> HIDE DEF t
  <2>2. Head(t) \in B /\ \E c \in C, d \in D : Range(t) = { Head(t), c, d }
    BY <2>1, ThreeNext
  <2>. QED  BY <2>2 DEF t
<1>. QED  BY <1>1, <1>2, <1>3

\* Scripts written down.
LEMMA Written ==
  /\ \A a, A : a \in A => One(<< a >>, A)
  /\ \A a, b, A, B : a \in A /\ b \in B => Two(<< a, b >>, A, B)
  /\ \A a, b, c, A, B, C : a \in A /\ b \in B /\ c \in C => Three(<< a, b, c >>, A, B, C)
  /\ \A a, b, c, d, A, B, C, D :
       a \in A /\ b \in B /\ c \in C /\ d \in D => Four(<< a, b, c, d >>, A, B, C, D)
<1>1. \A a, A : a \in A => One(<< a >>, A)
  <2>1. \A a : << a >> # <<>> /\ Head(<< a >>) = a /\ Tail(<< a >>) = <<>>
    OBVIOUS
  <2>. QED  BY <2>1 DEF One
<1>2. \A a, b, A, B : a \in A /\ b \in B => Two(<< a, b >>, A, B)
  <2>1. \A a, b : << a, b >> # <<>> /\ Head(<< a, b >>) = a /\ Tail(<< a, b >>) = << b >>
    OBVIOUS
  <2>. QED  BY <1>1, <2>1 DEF Two
<1>3. \A a, b, c, A, B, C : a \in A /\ b \in B /\ c \in C => Three(<< a, b, c >>, A, B, C)
  <2>1. \A a, b, c : /\ << a, b, c >> # <<>> /\ Head(<< a, b, c >>) = a
                     /\ Tail(<< a, b, c >>) = << b, c >>
    OBVIOUS
  <2>. QED  BY <1>2, <2>1 DEF Three
<1>4. \A a, b, c, d, A, B, C, D :
        a \in A /\ b \in B /\ c \in C /\ d \in D => Four(<< a, b, c, d >>, A, B, C, D)
  <2>1. \A a, b, c, d : /\ << a, b, c, d >> # <<>> /\ Head(<< a, b, c, d >>) = a
                        /\ Tail(<< a, b, c, d >>) = << b, c, d >>
    OBVIOUS
  <2>. QED  BY <1>3, <2>1 DEF Four
<1>. QED  BY <1>1, <1>2, <1>3, <1>4

\* DriveInv with the invariants it leans on.
Driving == IInv /\ JobInv /\ ExecInv /\ DriveInv /\ (Ordinary => WholeInv)

\* What is said about the store stays true while nobody writes to it.
LEMMA StoreKept ==
  ASSUME UNCHANGED <<run, task, job, approvals>>
  PROVE  /\ \A t \in Tasks : IsNext(t)' = IsNext(t)
         /\ \A t, status : HasApproval(t, status)' = HasApproval(t, status)
         /\ Pending' = Pending /\ Held' = Held /\ OnIt' = OnIt /\ Going' = Going /\ Left' = Left
         /\ Apart' = Apart
         /\ \A s : Stage(s)' = Stage(s)
         /\ \A s : Chain(s)' = Chain(s)
<1>1. \A t \in Tasks : IsNext(t)' = IsNext(t)
  BY DEF IsNext, Waiting
<1>2. \A t, status : HasApproval(t, status)' = HasApproval(t, status)
  BY DEF HasApproval
<1>3. Pending' = Pending /\ OnIt' = OnIt /\ Going' = Going /\ Left' = Left
  BY DEF Pending, OnIt, Going, Left
<1>4. Held' = Held
  BY <1>1, <1>2 DEF Held
<1>5. Apart' = Apart
  BY <1>2 DEF Apart
<1>6. ASSUME NEW s PROVE Stage(s)' = Stage(s)
  BY <1>1, <1>2, <1>3, <1>4, TasksAssumption DEF Stage
<1>7. ASSUME NEW s PROVE Chain(s)' = Chain(s)
  BY <1>1, <1>2, <1>3, <1>4 DEF Chain
<1>. QED  BY <1>1, <1>2, <1>3, <1>4, <1>5, <1>6, <1>7

\* A request that waits has nothing left to do; a thread of the runner waits
\* for start, or at work on a task or on the synthesis.
LEMMA ParkedChain ==
  ASSUME NEW s \in Seq(Ops), s # <<>>, Chain(s)
  PROVE  Head(s).op \notin Waits
  BY DEF Chain, FailsRun, One, Two, Three, RunTo, TaskTo, JobTo, Verdict, Doing, For, Waits

Rests(s) ==
  \/ Left /\ One(s, Doing("start"))
  \/ Going /\ ~Pending /\ One(s, Doing("synthesize"))
  \/ /\ Going /\ ~Pending
     /\ \E t \in Tasks : ~HasApproval(t, "denied") /\ One(s, For(t, Doing("work")))

LEMMA ParkedStage ==
  ASSUME NEW s \in Seq(Ops), s # <<>>, Stage(s), Head(s).op \in Waits
  PROVE  Rests(s)
  BY DEF Stage, Rests, FailsRun, One, Two, Three, Four, RunTo, TaskTo, JobTo, Doing, For, Waits

\* Whoever moves, everybody else waits or has nothing to do.
LEMMA Alone ==
  ASSUME Recoverable, Driving, NEW th \in Threads, MayRun(th)
  PROVE  /\ \A u \in Threads \ {th} : Parked(u)
         /\ ~Stopping(th)
         /\ th \in ByRunner => ~Down /\ \A u \in ByClient : Idle(u)
         /\ th \in ByClient => /\ \A u \in ByClient : u = th
                               /\ \A u \in ByRunner : Idle(u) \/ Rests(script[u])
<1>1. \A u \in Threads \ {th} : Parked(u)
  BY DEF MayRun, Recoverable
<1>2. ~Stopping(th)
  BY ProcsAssumption DEF Stopping, Driving, DriveInv
<1>3. ASSUME NEW u \in Threads, Parked(u), ~Idle(u)
      PROVE  script[u] \in Seq(Ops) /\ script[u] # <<>> /\ Head(script[u]).op \in Waits
  BY <1>3 DEF Parked, Idle, Waits, Driving, IInv, TypeOK
<1>4. ASSUME NEW u \in ByClient, u # th PROVE Idle(u)
  BY <1>1, <1>3, <1>4, ParkedChain, Sides DEF Driving, DriveInv
<1>5. ASSUME NEW u \in ByRunner, u # th PROVE Idle(u) \/ Rests(script[u])
  BY <1>1, <1>3, <1>5, ParkedStage, Sides DEF Driving, DriveInv
<1>6. th \in ByRunner => ~Down
  BY DEF MayRun, ByRunner, Down, Recoverable, Attended
<1>. QED  BY <1>1, <1>2, <1>4, <1>5, <1>6, Sides DEF Recoverable, Attended

\* With every request idle, nothing of theirs is in flight.
LEMMA NoRequest ==
  ASSUME \A u \in ByClient : Idle(u)
  PROVE  ~Overwrites /\ ~Fails /\ ~Acts /\ \A t : ~Denying(t)
<1>1. \A u \in ByClient : Coming(u) = {}
  BY IdleIsEmpty, Sides
<1>. QED  BY <1>1 DEF Overwrites, Fails, Acts, Denying

\* The next task is one.
LEMMA OneNextTask ==
  ASSUME NEW t \in Tasks, NEW u \in Tasks, IsNext(t), IsNext(u)
  PROVE  t = u
  BY DEF IsNext, Tasks

---------------------------------------------------------------------------
(* A step of one thread *)

\* The threads that do not move.
LEMMA OthersStay ==
  ASSUME Recoverable, Driving, NEW th \in Threads, MayRun(th), NEW rest, Does(th, rest),
         UNCHANGED proc
  PROVE  /\ script'[th] = rest /\ Coming(th)' = Range(rest)
         /\ \A u \in Threads \ {th} : /\ script'[u] = script[u] /\ Coming(u)' = Coming(u)
                                      /\ Idle(u)' = Idle(u)
         /\ \A u, v \in Threads : u = v \/ Parked(u)' \/ Parked(v)'
         /\ \A p \in Procs : proc'[p] \in { "up", "down" }
         /\ Down' = Down
<1>1. /\ script'[th] = rest /\ Coming(th)' = Range(rest)
      /\ \A u \in Threads \ {th} : script'[u] = script[u] /\ Coming(u)' = Coming(u)
  BY ComingAfter DEF Driving
<1>2. \A u \in Threads \ {th} : Idle(u)' = Idle(u) /\ Parked(u)' = Parked(u)
  BY <1>1 DEF Idle, Parked
<1>3. \A u, v \in Threads : u = v \/ Parked(u)' \/ Parked(v)'
  BY <1>2, Alone
<1>4. \A p \in Procs : proc'[p] \in { "up", "down" }
  BY DEF Driving, DriveInv
<1>5. Down' = Down
  BY DEF Down
<1>. QED  BY <1>1, <1>2, <1>3, <1>4, <1>5

\* A step of the runner: no request is under way.
LEMMA DriveRunner ==
  ASSUME Recoverable, Driving, NEW th \in ByRunner, MayRun(th),
         \A u \in ByRunner \ {th} : Idle(u),
         NEW rest, Does(th, rest), UNCHANGED proc,
         Stage(script[th])', Apart',
         \A t \in Tasks : HasApproval(t, "denied")' => task'[t] = "failed",
         Pending' => Held' \/ job'.status \in Halted,
         \A t \in Tasks : task'[t] = "running" =>
           ~Pending' /\ run' # "blocked" /\ \E o \in Range(rest) : Drives(o, t),
         run' = "running" => rest # <<>>,
         run' = "blocked" =>
           /\ Held'
           /\ \/ job'.status \in { "blocked", "queued" }
              \/ job'.status \in { "claimed", "running" } /\ rest # <<>>
  PROVE  DriveInv'
<1>1. th \in Threads /\ \A u \in ByClient : u # th /\ Idle(u)
  BY Alone, Sides
<1>2. /\ script'[th] = rest /\ Coming(th)' = Range(rest)
      /\ \A u \in Threads \ {th} : script'[u] = script[u] /\ Idle(u)' = Idle(u)
      /\ \A u, v \in Threads : u = v \/ Parked(u)' \/ Parked(v)'
      /\ \A p \in Procs : proc'[p] \in { "up", "down" }
  BY <1>1, OthersStay
<1>3. \A u \in ByClient : Idle(u)' /\ script'[u] = <<>> /\ Coming(u)' = {}
  <2>1. \A u \in ByClient : Idle(u)' /\ script'[u] = <<>>
    BY <1>1, <1>2, Sides DEF Idle
  <2>. QED  BY <2>1, ShapeShort DEF Coming
<1>4. ~Acts'
  BY <1>3 DEF Acts
<1>5. \A u \in ByRunner : Stage(script[u])'
  <2> SUFFICES ASSUME NEW u \in ByRunner, u # th PROVE Stage(script[u])'
    OBVIOUS
  <2>1. script'[u] = <<>>
    BY <1>2, Sides DEF Idle
  <2>. QED  BY <2>1 DEF Stage
<1>6. \A u \in ByClient : Chain(script[u])'
  BY <1>3 DEF Chain
<1>7. \A t \in Tasks : TaskDriven(t)'
  BY <1>2 DEF TaskDriven
<1>8. rest # <<>> => Busy'
  BY <1>2 DEF Busy, Idle
<1>9. RunDriven'
  BY <1>8 DEF RunDriven
<1>. QED  BY <1>2, <1>4, <1>5, <1>6, <1>7, <1>9 DEF DriveInv

\* ... that writes nothing.
LEMMA DriveReads ==
  ASSUME Recoverable, Driving, NEW th \in ByRunner, MayRun(th),
         \A u \in ByRunner \ {th} : Idle(u),
         NEW rest, Does(th, rest), UNCHANGED <<run, task, job, approvals, proc>>,
         Stage(rest),
         \A t \in Tasks : task[t] = "running" => \E o \in Range(rest) : Drives(o, t),
         run = "running" => rest # <<>>,
         run = "blocked" /\ job.status \in { "claimed", "running" } => rest # <<>>
  PROVE  DriveInv'
<1>1. th \in Threads /\ (\A u \in ByClient : Idle(u)) /\ ~Down
  BY Alone, Sides
<1>2. ~Overwrites /\ ~Fails /\ \A t : ~Denying(t)
  BY <1>1, NoRequest
<1>3. /\ Pending' = Pending /\ Held' = Held /\ Apart' = Apart
      /\ \A t : HasApproval(t, "denied")' = HasApproval(t, "denied")
      /\ \A s : Stage(s)' = Stage(s)
  BY StoreKept
<1>4. script'[th] = rest
  BY <1>1, ComingAfter DEF Driving
<1>5. Stage(script[th])'
  BY <1>3, <1>4
<1>6. /\ Apart /\ (Pending => Held \/ job.status \in Halted)
      /\ \A t \in Tasks : HasApproval(t, "denied") => task[t] = "failed"
      /\ \A t \in Tasks : task[t] = "running" => ~Pending /\ run # "blocked"
      /\ run = "blocked" => Held /\ job.status \in { "blocked", "queued", "claimed", "running" }
  BY <1>2 DEF Driving, DriveInv, TaskDriven, RunDriven
<1>7. Apart' /\ (Pending' => Held' \/ job'.status \in Halted)
  BY <1>3, <1>6
<1>8. /\ \A t \in Tasks : HasApproval(t, "denied")' => task'[t] = "failed"
      /\ \A t \in Tasks : task'[t] = "running" =>
           ~Pending' /\ run' # "blocked" /\ \E o \in Range(rest) : Drives(o, t)
  BY <1>3, <1>6
<1>9. run' = "blocked" =>
        /\ Held'
        /\ \/ job'.status \in { "blocked", "queued" }
           \/ job'.status \in { "claimed", "running" } /\ rest # <<>>
  BY <1>3, <1>6
<1>. QED  BY <1>5, <1>7, <1>8, <1>9, DriveRunner

\* A step of the request: the runner is idle or waits.
LEMMA DriveClient ==
  ASSUME Recoverable, Driving, NEW th \in ByClient, MayRun(th),
         NEW rest, Does(th, rest), UNCHANGED proc,
         Chain(script[th])', Apart',
         \A t \in Tasks : HasApproval(t, "denied")' =>
           task'[t] = "failed" \/ \E o \in Range(rest) : Denies(o, t),
         Pending' => /\ Pending
                     /\ Held' \/ job'.status \in Halted \/ \E o \in Range(rest) : Breaks(o),
         \A t \in Tasks : task'[t] = "running" => task[t] = "running",
         \A o \in Range(rest) : ActsOn(o) => Acts \/ Pending,
         \A t \in Tasks : ~HasApproval(t, "denied")' \/ HasApproval(t, "denied") \/ Pending,
         run' = "running" => run = "running" /\ job'.status = job.status,
         run' # run => run' \in Halted \/ (Acts /\ run' = "queued"),
         run' = "blocked" =>
           \/ \E o \in Range(rest) : Replaces(o)
           \/ run = "blocked" /\ ~Overwrites /\ Held' /\ job'.status = job.status
  PROVE  DriveInv'
<1>1. /\ th \in Threads /\ \A u \in ByClient : u = th
      /\ \A u \in ByRunner : u # th /\ (Idle(u) \/ Rests(script[u]))
  BY Alone, Sides
<1>2. /\ script'[th] = rest /\ Coming(th)' = Range(rest)
      /\ \A u \in Threads \ {th} : /\ script'[u] = script[u] /\ Coming(u)' = Coming(u)
                                   /\ Idle(u)' = Idle(u)
      /\ \A u, v \in Threads : u = v \/ Parked(u)' \/ Parked(v)'
      /\ \A p \in Procs : proc'[p] \in { "up", "down" }
      /\ Down' = Down
  BY <1>1, OthersStay
<1>3. \A u \in ByRunner : script'[u] = script[u] /\ Coming(u)' = Coming(u) /\ Idle(u)' = Idle(u)
  BY <1>1, <1>2, Sides
<1>4. Busy' = Busy
  BY <1>3 DEF Busy
<1>5. /\ \A s : ~One(s, Doing("start")) \/ ~One(s, Doing("synthesize"))
      /\ \A s, t : ~One(s, Doing("start")) \/ ~One(s, For(t, Doing("work")))
  BY DEF One, Doing, For
<1>6. Acts => \A u \in ByRunner : Idle(u) \/ One(script[u], Doing("start"))
  BY DEF Driving, DriveInv
<1>7. Pending => \A u \in ByRunner : Idle(u) \/ One(script[u], Doing("start"))
  BY <1>1 DEF Rests
<1>8. ASSUME NEW u \in ByRunner PROVE Stage(script[u])'
  <2>1. CASE Idle(u)
    BY <1>3, <2>1 DEF Idle, Stage
  <2>2. CASE Left /\ One(script[u], Doing("start"))
    <3>1. Left'
      BY <2>2 DEF Left, Halted, Terminal
    <3>2. Left' /\ One(script'[u], Doing("start"))
      BY <1>3, <2>2, <3>1
    <3>. QED  BY <3>2 DEF Stage
  <2>3. CASE /\ Going /\ ~Pending
             /\ \/ One(script[u], Doing("synthesize"))
                \/ \E t \in Tasks : ~HasApproval(t, "denied") /\ One(script[u], For(t, Doing("work")))
    <3>1. CASE Acts
      BY <1>3, <1>5, <1>6, <2>1, <2>3, <3>1
    <3>2. CASE ~Acts
      <4>1. Going' /\ ~Pending'
        <5>1. run' = run \/ run' \in Halted
          BY <3>2
        <5>2. run' \in { "running" } \cup Halted
          BY <2>3, <5>1 DEF Going
        <5>3. run' = "running" => job'.status = "running"
          BY <2>3 DEF Going
        <5>. QED  BY <2>3, <5>2, <5>3 DEF Going
      <4>2. \/ One(script'[u], Doing("synthesize"))
            \/ \E t \in Tasks : ~HasApproval(t, "denied")' /\ One(script'[u], For(t, Doing("work")))
        BY <1>3, <2>3
      <4>. QED  BY <4>1, <4>2 DEF Stage
    <3>. QED  BY <3>1, <3>2
  <2>. QED  BY <1>1, <2>1, <2>2, <2>3 DEF Rests
<1>9. \A u \in ByClient : Chain(script[u])'
  BY <1>1
<1>10. Acts' => \A u \in ByRunner : Idle(u)' \/ One(script'[u], Doing("start"))
  <2>1. Acts' => Acts \/ Pending
    BY <1>1, <1>2 DEF Acts
  <2>. QED  BY <1>3, <1>6, <1>7, <2>1
<1>11. \A t \in Tasks : HasApproval(t, "denied")' => task'[t] = "failed" \/ Denying(t)'
  BY <1>2 DEF Denying
<1>12. Pending' => Held' \/ job'.status \in Halted \/ Fails'
  BY <1>2 DEF Fails
<1>13. ASSUME NEW t \in Tasks PROVE TaskDriven(t)'
  <2> SUFFICES ASSUME task'[t] = "running"
               PROVE  /\ ~Pending' /\ run' # "blocked"
                      /\ Down' \/ \E u \in ByRunner : \E o \in Coming(u)' : Drives(o, t)
    BY DEF TaskDriven
  <2>1. /\ ~Pending /\ run # "blocked"
        /\ Down \/ \E u \in ByRunner : \E o \in Coming(u) : Drives(o, t)
    BY DEF Driving, DriveInv, TaskDriven
  <2>2. run' # "blocked"
    BY <2>1 DEF Halted, Terminal
  <2>. QED  BY <1>2, <1>3, <2>1, <2>2
<1>14. RunDriven'
  <2>1. run' = "running" => Down' \/ Busy'
    BY <1>2, <1>4 DEF Driving, DriveInv, RunDriven
  <2>2. ASSUME run' = "blocked", run = "blocked", ~Overwrites, Held', job'.status = job.status
        PROVE  /\ Held'
               /\ \/ job'.status \in { "blocked", "queued" }
                  \/ job'.status \in { "claimed", "running" } /\ (Down' \/ Busy')
    BY <1>2, <1>4, <2>2 DEF Driving, DriveInv, RunDriven
  <2>3. (\E o \in Range(rest) : Replaces(o)) => Overwrites'
    BY <1>2 DEF Overwrites
  <2>. QED  BY <2>1, <2>2, <2>3 DEF RunDriven
<1>. QED  BY <1>2, <1>8, <1>9, <1>10, <1>11, <1>12, <1>13, <1>14 DEF DriveInv

---------------------------------------------------------------------------
(* The runner *)

\* What a thread of the runner is in the middle of, by its next access.
LEMMA StageAt ==
  ASSUME NEW s \in Seq(Ops), s # <<>>, Stage(s)
  PROVE  /\ Head(s).op = "run" =>
              \/ Left /\ Three(s, RunTo("running"), JobTo("running"), Doing("exec"))
              \/ OnIt /\ Held /\ Two(s, RunTo("blocked"), JobTo("blocked"))
              \/ /\ OnIt /\ ~Pending
                 /\ \E t \in Tasks :
                      /\ IsNext(t) /\ ~HasApproval(t, "denied")
                      /\ Three(s, RunTo("running"), For(t, TaskTo("running")), For(t, Doing("work")))
              \/ Going /\ ~Pending /\ Two(s, RunTo("failed"), JobTo("failed"))
              \/ run # "blocked" /\ ~Pending /\ One(s, RunTo("completed"))
         /\ Head(s).op = "task" =>
              \/ /\ OnIt /\ Held
                 /\ \E t \in Tasks :
                      /\ IsNext(t)
                      /\ Three(s, For(t, TaskTo("blocked")), RunTo("blocked"), JobTo("blocked"))
              \/ /\ OnIt /\ ~Pending
                 /\ \E t \in Tasks :
                      /\ IsNext(t) /\ ~HasApproval(t, "denied")
                      /\ Two(s, For(t, TaskTo("running")), For(t, Doing("work")))
              \/ /\ Going /\ ~Pending
                 /\ \E t \in Tasks :
                      /\ ~HasApproval(t, "denied")
                      /\ Two(s, For(t, TaskTo("completed")), For(t, Doing("recheck")))
              \/ /\ Going /\ ~Pending
                 /\ Three(s, TaskTo("failed"), RunTo("failed"), JobTo("failed"))
         /\ Head(s).op \in { "job", "save" } =>
              \/ run = "queued" /\ Two(s, JobTo("claimed"), Doing("start"))
              \/ run = "running" /\ Two(s, JobTo("running"), Doing("exec"))
              \/ run = "blocked" /\ job.status = "running" /\ Held /\ One(s, JobTo("blocked"))
              \/ /\ Going /\ ~Pending /\ ~Head(s).must
                 /\ Two(s, JobTo("completed"), RunTo("completed"))
              \/ run = "failed" /\ ~Pending /\ One(s, JobTo("failed"))
         /\ Head(s).op = "start" => Left /\ One(s, Doing("start"))
         /\ Head(s).op = "exec" => OnIt /\ One(s, Doing("exec"))
         /\ Head(s).op = "ask" =>
              /\ OnIt /\ ~Pending
              /\ \E t \in NeedsApproval :
                   /\ IsNext(t)
                   /\ Four(s, For(t, Doing("ask")), For(t, TaskTo("blocked")),
                              RunTo("blocked"), JobTo("blocked"))
         /\ Head(s).op = "work" =>
              /\ Going /\ ~Pending
              /\ \E t \in Tasks : ~HasApproval(t, "denied") /\ One(s, For(t, Doing("work")))
         /\ Head(s).op = "recheck" => Going /\ ~Pending /\ One(s, Doing("recheck"))
         /\ Head(s).op = "synthesize" => Going /\ ~Pending /\ One(s, Doing("synthesize"))
         /\ Head(s).op = "fail" => Going /\ ~Pending /\ One(s, Doing("fail"))
         /\ Head(s).op \in { "run", "task", "job", "save", "start", "exec", "ask", "work",
                             "recheck", "synthesize", "fail" }
  BY DEF Stage, FailsRun, One, Two, Three, Four, RunTo, TaskTo, JobTo, Doing, For

\* What is said about the tasks and their approvals.
LEMMA DecisionsKept ==
  ASSUME UNCHANGED <<task, approvals>>
  PROVE  /\ \A t \in Tasks : IsNext(t)' = IsNext(t)
         /\ \A t, status : HasApproval(t, status)' = HasApproval(t, status)
         /\ Pending' = Pending /\ Held' = Held /\ Apart' = Apart
<1>1. \A t \in Tasks : IsNext(t)' = IsNext(t)
  BY DEF IsNext, Waiting
<1>2. \A t, status : HasApproval(t, status)' = HasApproval(t, status)
  BY DEF HasApproval
<1>. QED  BY <1>1, <1>2 DEF Pending, Held, Apart

LEMMA HeldIsPending ==
  ASSUME NEW t, HasApproval(t, "pending")
  PROVE  Pending
  BY DEF HasApproval, Pending

\* The runner at its next access.
LEMMA AtRunner ==
  ASSUME Recoverable, Driving, NEW th \in ByRunner, ~Idle(th), MayRun(th)
  PROVE  LET s == script[th] IN
         /\ th \in Threads /\ s \in Seq(Ops) /\ s # <<>> /\ Stage(s) /\ ~Stopping(th)
         /\ Head(s) \in Ops /\ Tail(s) \in Seq(Ops) /\ <<>> \o Tail(s) = Tail(s)
         /\ Range(s) = { Head(s) } \cup Range(Tail(s))
         /\ \A u \in ByRunner \ {th} : Idle(u)
         /\ Apart /\ (Pending => Held \/ job.status \in Halted)
         /\ \A t \in Tasks : HasApproval(t, "denied") => task[t] = "failed"
         /\ \A t \in Tasks : task[t] = "running" =>
              ~Pending /\ run # "blocked" /\ \E o \in Range(s) : Drives(o, t)
         /\ run = "blocked" => Held /\ job.status \in { "blocked", "queued", "claimed", "running" }
<1>1. /\ th \in Threads /\ ~Stopping(th) /\ ~Down
      /\ ~Overwrites /\ ~Fails /\ \A t : ~Denying(t)
  BY Alone, NoRequest, Sides
<1>2. /\ script[th] \in Seq(Ops) /\ script[th] # <<>> /\ Stage(script[th])
      /\ \A u \in ByRunner \ {th} : Idle(u)
  BY <1>1 DEF Driving, IInv, TypeOK, DriveInv, Idle, ExecInv
<1>3. \A u \in ByRunner \ {th} : Coming(u) = {}
  BY <1>2, IdleIsEmpty, Sides
<1>4. ASSUME NEW t \in Tasks, task[t] = "running"
      PROVE  ~Pending /\ run # "blocked" /\ \E o \in Range(script[th]) : Drives(o, t)
  <2>1. ~Pending /\ run # "blocked" /\ \E u \in ByRunner : \E o \in Coming(u) : Drives(o, t)
    BY <1>1, <1>4 DEF Driving, DriveInv, TaskDriven
  <2>. QED  BY <1>3, <2>1 DEF Coming
<1>5. /\ Apart /\ (Pending => Held \/ job.status \in Halted)
      /\ \A t \in Tasks : HasApproval(t, "denied") => task[t] = "failed"
      /\ run = "blocked" => Held /\ job.status \in { "blocked", "queued", "claimed", "running" }
  BY <1>1 DEF Driving, DriveInv, RunDriven
<1>. QED  BY <1>1, <1>2, <1>4, <1>5, ScriptNext

LEMMA RunnerSetsRun ==
  ASSUME Recoverable, Driving, NEW th \in ByRunner, RunWrite(th)
  PROVE  DriveInv'
<1> DEFINE s    == script[th]
           rest == Tail(s)
<1>1. /\ ~Idle(th) /\ MayRun(th) /\ Head(s).op = "run" /\ Follow(th, <<>>)
      /\ UNCHANGED <<task, job, approvals, proc>>
  BY DEF RunWrite, At
<1>2. /\ th \in Threads /\ s \in Seq(Ops) /\ s # <<>> /\ Stage(s) /\ ~Stopping(th)
      /\ rest \in Seq(Ops) /\ <<>> \o rest = rest /\ Range(s) = { Head(s) } \cup Range(rest)
      /\ \A u \in ByRunner \ {th} : Idle(u)
      /\ Apart /\ (Pending => Held \/ job.status \in Halted)
      /\ \A t \in Tasks : HasApproval(t, "denied") => task[t] = "failed"
      /\ \A t \in Tasks : task[t] = "running" =>
           ~Pending /\ \E o \in Range(s) : Drives(o, t)
  BY <1>1, AtRunner
<1>3. Does(th, rest) /\ run' = Head(s).to
  BY <1>1, <1>2 DEF Follow, RunWrite, To
<1>4. script'[th] = rest
  BY <1>2, <1>3, ComingAfter DEF Driving
<1>5. /\ \A t \in Tasks : IsNext(t)' = IsNext(t)
      /\ \A t, status : HasApproval(t, status)' = HasApproval(t, status)
      /\ Pending' = Pending /\ Held' = Held /\ Apart' = Apart
  BY <1>1, DecisionsKept
<1>6. \A t \in Tasks : task[t] = "running" => ~Pending /\ \E o \in Range(rest) : Drives(o, t)
  <2>1. \A t : ~Drives(Head(s), t)
    BY <1>1 DEF Drives
  <2>. QED  BY <1>2, <2>1
<1>7. /\ Stage(script[th])' /\ (run' = "running" => rest # <<>>)
      /\ run' = "blocked" => Held /\ job.status = "running" /\ rest # <<>>
  <2> HIDE DEF s, rest
  <2>1. CASE Left /\ Three(s, RunTo("running"), JobTo("running"), Doing("exec"))
    <3>1. run' = "running" /\ Two(rest, JobTo("running"), Doing("exec"))
      BY <1>3, <2>1 DEF Three, RunTo, rest
    <3>. QED  BY <1>4, <3>1 DEF Stage, Two
  <2>2. CASE OnIt /\ Held /\ Two(s, RunTo("blocked"), JobTo("blocked"))
    <3>1. run' = "blocked" /\ One(rest, JobTo("blocked")) /\ job'.status = "running" /\ Held'
      BY <1>1, <1>3, <1>5, <2>2 DEF Two, RunTo, rest, OnIt
    <3>. QED  BY <1>1, <1>4, <1>5, <3>1 DEF Stage, One
  <2>3. CASE /\ OnIt /\ ~Pending
             /\ \E t \in Tasks :
                  /\ IsNext(t) /\ ~HasApproval(t, "denied")
                  /\ Three(s, RunTo("running"), For(t, TaskTo("running")), For(t, Doing("work")))
    <3>1. PICK t \in Tasks :
            /\ IsNext(t) /\ ~HasApproval(t, "denied")
            /\ Three(s, RunTo("running"), For(t, TaskTo("running")), For(t, Doing("work")))
      BY <2>3
    <3>2. run' = "running" /\ Two(rest, For(t, TaskTo("running")), For(t, Doing("work")))
      BY <1>3, <3>1 DEF Three, RunTo, rest
    <3>3. OnIt' /\ ~Pending' /\ IsNext(t)' /\ ~HasApproval(t, "denied")'
      BY <1>1, <1>5, <2>3, <3>1, <3>2 DEF OnIt
    <3>. QED  BY <1>4, <3>2, <3>3 DEF Stage, Two
  <2>4. CASE Going /\ ~Pending /\ Two(s, RunTo("failed"), JobTo("failed"))
    <3>1. run' = "failed" /\ One(rest, JobTo("failed")) /\ ~Pending'
      BY <1>3, <1>5, <2>4 DEF Two, RunTo, rest
    <3>. QED  BY <1>4, <3>1 DEF Stage
  <2>5. CASE run # "blocked" /\ ~Pending /\ One(s, RunTo("completed"))
    <3>1. run' = "completed" /\ rest = <<>>
      BY <1>3, <2>5 DEF One, RunTo, rest
    <3>. QED  BY <1>4, <3>1 DEF Stage
  <2>. QED  BY <1>1, <1>2, <2>1, <2>2, <2>3, <2>4, <2>5, StageAt DEF s
<1>8. \A t \in Tasks : task'[t] = "running" =>
        ~Pending' /\ run' # "blocked" /\ \E o \in Range(rest) : Drives(o, t)
  BY <1>1, <1>5, <1>6, <1>7, HeldIsPending DEF Held
<1>9. /\ Apart' /\ (Pending' => Held' \/ job'.status \in Halted)
      /\ \A t \in Tasks : HasApproval(t, "denied")' => task'[t] = "failed"
      /\ run' = "blocked" =>
           /\ Held'
           /\ \/ job'.status \in { "blocked", "queued" }
              \/ job'.status \in { "claimed", "running" } /\ rest # <<>>
  BY <1>1, <1>2, <1>5, <1>7
<1> HIDE DEF rest
<1>. QED  BY <1>1, <1>2, <1>3, <1>7, <1>8, <1>9, DriveRunner

LEMMA RunnerSetsTask ==
  ASSUME Recoverable, Driving, NEW th \in ByRunner, TaskWrite(th)
  PROVE  DriveInv'
<1> DEFINE s    == script[th]
           rest == Tail(s)
           a    == Head(s).arg
<1>1. /\ ~Idle(th) /\ MayRun(th) /\ Head(s).op = "task" /\ Follow(th, <<>>)
      /\ UNCHANGED <<run, job, approvals, proc>>
  BY DEF TaskWrite, At
<1>2. /\ th \in Threads /\ s \in Seq(Ops) /\ s # <<>> /\ Stage(s) /\ ~Stopping(th)
      /\ Head(s) \in Ops
      /\ rest \in Seq(Ops) /\ <<>> \o rest = rest /\ Range(s) = { Head(s) } \cup Range(rest)
      /\ \A u \in ByRunner \ {th} : Idle(u)
      /\ Apart
      /\ \A t \in Tasks : HasApproval(t, "denied") => task[t] = "failed"
      /\ \A t \in Tasks : task[t] = "running" =>
           ~Pending /\ run # "blocked" /\ \E o \in Range(s) : Drives(o, t)
  BY <1>1, AtRunner
<1>3. Does(th, rest) /\ task' = [task EXCEPT ![a] = Head(s).to] /\ a \in Tasks
  BY <1>1, <1>2, OpShape DEF Follow, TaskWrite, To, Arg
<1>4. script'[th] = rest
  BY <1>2, <1>3, ComingAfter DEF Driving
<1>5. /\ \A t, status : HasApproval(t, status)' = HasApproval(t, status)
      /\ Pending' = Pending /\ OnIt' = OnIt /\ Going' = Going
  BY <1>1 DEF HasApproval, Pending, OnIt, Going
<1>6. Apart'
  BY <1>1, <1>2, <1>5 DEF Apart
<1>7. \A t \in Tasks : task'[t] = IF t = a THEN Head(s).to ELSE task[t]
  BY <1>3 DEF Driving, IInv, TypeOK
<1>8. \A t \in Tasks : task[t] = "running" /\ t # a =>
        ~Pending /\ run # "blocked" /\ \E o \in Range(rest) : Drives(o, t)
  BY <1>2 DEF Drives
<1>9. /\ Stage(script[th])' /\ rest # <<>>
      /\ Pending' => Held'
      /\ HasApproval(a, "denied") => Head(s).to = "failed"
      /\ OnIt \/ Going
      /\ Held => Head(s).to # "running"
      /\ Head(s).to = "running" => \E o \in Range(rest) : Drives(o, a)
  <2> HIDE DEF s, rest, a
  <2>1. CASE /\ OnIt /\ Held
             /\ \E t \in Tasks :
                  /\ IsNext(t)
                  /\ Three(s, For(t, TaskTo("blocked")), RunTo("blocked"), JobTo("blocked"))
    <3>1. PICK t \in Tasks :
            /\ IsNext(t)
            /\ Three(s, For(t, TaskTo("blocked")), RunTo("blocked"), JobTo("blocked"))
      BY <2>1
    <3>2. a = t /\ Head(s).to = "blocked" /\ Two(rest, RunTo("blocked"), JobTo("blocked"))
      BY <3>1 DEF Three, For, TaskTo, rest, a
    <3>3. task[t] \in { "queued", "blocked" }
      BY <3>1 DEF IsNext, Waiting
    <3>4. Waiting' = Waiting
      BY <1>7, <3>2, <3>3 DEF Waiting
    <3>5. Held'
      BY <1>5, <2>1, <3>4 DEF Held, IsNext
    <3>6. ~HasApproval(a, "denied")
      BY <1>2, <3>2, <3>3
    <3>. QED  BY <1>4, <1>5, <2>1, <3>2, <3>5, <3>6 DEF Stage, Two
  <2>2. CASE /\ OnIt /\ ~Pending
             /\ \E t \in Tasks :
                  /\ IsNext(t) /\ ~HasApproval(t, "denied")
                  /\ Two(s, For(t, TaskTo("running")), For(t, Doing("work")))
    <3>1. PICK t \in Tasks :
            /\ IsNext(t) /\ ~HasApproval(t, "denied")
            /\ Two(s, For(t, TaskTo("running")), For(t, Doing("work")))
      BY <2>2
    <3>2. a = t /\ Head(s).to = "running" /\ One(rest, For(t, Doing("work")))
      BY <3>1 DEF Two, For, TaskTo, rest, a
    <3>3. Going' /\ ~Pending' /\ ~HasApproval(t, "denied")'
      BY <1>5, <2>2, <3>1 DEF OnIt, Going
    <3>4. Stage(script[th])'
      BY <1>4, <3>2, <3>3 DEF Stage
    <3>5. \E o \in Range(rest) : Drives(o, a)
      <4>1. Range(rest) = { Head(rest) } /\ Head(rest) \in For(t, Doing("work"))
        BY <1>2, <3>2, OneNext
      <4>. QED  BY <3>2, <4>1 DEF Drives, For, Doing
    <3>6. rest # <<>> /\ ~Held
      BY <2>2, <3>2, HeldIsPending DEF One, Held
    <3>. QED  BY <2>2, <3>1, <3>2, <3>3, <3>4, <3>5, <3>6
  <2>3. CASE /\ Going /\ ~Pending
             /\ \E t \in Tasks :
                  /\ ~HasApproval(t, "denied")
                  /\ Two(s, For(t, TaskTo("completed")), For(t, Doing("recheck")))
    <3>1. PICK t \in Tasks :
            /\ ~HasApproval(t, "denied")
            /\ Two(s, For(t, TaskTo("completed")), For(t, Doing("recheck")))
      BY <2>3
    <3>2. a = t /\ Head(s).to = "completed" /\ One(rest, Doing("recheck"))
      BY <3>1 DEF Two, For, TaskTo, rest, a, One
    <3>3. Going' /\ ~Pending'
      BY <1>5, <2>3
    <3>. QED  BY <1>4, <2>3, <3>1, <3>2, <3>3 DEF Stage, One
  <2>4. CASE /\ Going /\ ~Pending
             /\ Three(s, TaskTo("failed"), RunTo("failed"), JobTo("failed"))
    <3>1. Head(s).to = "failed" /\ Two(rest, RunTo("failed"), JobTo("failed"))
      BY <2>4 DEF Three, TaskTo, rest
    <3>2. Going' /\ ~Pending'
      BY <1>5, <2>4
    <3>. QED  BY <1>4, <2>4, <3>1, <3>2 DEF Stage, FailsRun, Two
  <2>. QED  BY <1>1, <1>2, <2>1, <2>2, <2>3, <2>4, StageAt DEF s
<1>10. \A t \in Tasks : task'[t] = "running" =>
         ~Pending' /\ run' # "blocked" /\ \E o \in Range(rest) : Drives(o, t)
  <2> SUFFICES ASSUME NEW t \in Tasks, task'[t] = "running"
               PROVE  ~Pending' /\ run' # "blocked" /\ \E o \in Range(rest) : Drives(o, t)
    OBVIOUS
  <2>1. CASE t # a
    BY <1>1, <1>5, <1>7, <1>8, <2>1
  <2>2. CASE t = a
    <3>1. Head(s).to = "running"
      BY <1>7, <2>2
    <3>2. OnIt /\ ~Pending
      BY <1>1, <1>2, <3>1, StageAt DEF Two, Three, For, TaskTo
    <3>3. run' # "blocked"
      BY <1>1, <3>2 DEF OnIt
    <3>. QED  BY <1>5, <1>9, <2>2, <3>1, <3>2, <3>3
  <2>. QED  BY <2>1, <2>2
<1>11. run' = "blocked" => FALSE
  BY <1>1, <1>9 DEF OnIt, Going, Halted, Terminal
<1>12. \A t \in Tasks : HasApproval(t, "denied")' => task'[t] = "failed"
  BY <1>2, <1>5, <1>7, <1>9
<1> HIDE DEF rest
<1>. QED  BY <1>1, <1>2, <1>3, <1>6, <1>9, <1>10, <1>11, <1>12, DriveRunner

\* A script with one access put before it.
LEMMA PutFirst ==
  ASSUME NEW o \in Ops, NEW t \in Seq(Ops)
  PROVE  LET r == << o >> \o t
         IN r \in Seq(Ops) /\ r # <<>> /\ Head(r) = o /\ Tail(r) = t /\ Range(r) = { o } \cup Range(t)
<1> DEFINE w == << o >>
           r == w \o t
<1>1. w \in Seq(Ops) /\ Len(w) = 1 /\ w[1] = o /\ Range(w) = { o }
  BY ShapeShort
<1> HIDE DEF w
<1>2. /\ r \in Seq(Ops) /\ Len(r) = 1 + Len(t) /\ Len(t) \in Nat
      /\ \A i \in 1..(1 + Len(t)) : r[i] = IF i <= 1 THEN w[i] ELSE t[i - 1]
      /\ Range(r) = { o } \cup Range(t)
  <2>1. /\ r \in Seq(Ops) /\ Len(r) = Len(w) + Len(t)
        /\ \A i \in 1..(Len(w) + Len(t)) : r[i] = IF i <= Len(w) THEN w[i] ELSE t[i - Len(w)]
    BY <1>1, ConcatProperties
  <2>2. Range(r) = Range(w) \cup Range(t)
    BY <1>1, RangeConcatenation
  <2>. QED  BY <1>1, <2>1, <2>2, LenProperties
<1> HIDE DEF r
<1>3. r # <<>>
  BY <1>2, EmptySeq
<1>4. Head(r) = o
  <2>1. Head(r) = r[1] /\ 1 \in 1..(1 + Len(t))
    BY <1>2, <1>3
  <2>. QED  BY <1>1, <1>2, <2>1
<1>5. /\ Tail(r) \in Seq(Ops) /\ Len(Tail(r)) = Len(t)
      /\ \A i \in 1..Len(t) : Tail(r)[i] = r[i + 1]
  BY <1>2, <1>3, HeadTailProperties
<1>6. \A i \in 1..Len(t) : Tail(r)[i] = t[i]
  <2> SUFFICES ASSUME NEW i \in 1..Len(t) PROVE r[i + 1] = t[i]
    BY <1>5
  <2>1. i + 1 \in 1..(1 + Len(t)) /\ ~(i + 1 <= 1) /\ (i + 1) - 1 = i
    BY <1>2
  <2>. QED  BY <1>2, <2>1
<1>7. Tail(r) = t
  BY <1>5, <1>6, SeqEqual
<1>. QED  BY <1>2, <1>3, <1>4, <1>7 DEF r, w

LEMMA RunnerReadsJob ==
  ASSUME Recoverable, Driving, NEW th \in ByRunner, JobRead(th)
  PROVE  DriveInv'
<1> DEFINE s    == script[th]
           o    == Head(s)
           t    == Tail(s)
           next == NextJob(o.to, o.runner)
           save == Op("save", 0, next.status, next.runner, FALSE, FALSE)
           more == << save >> \o t
<1>1. /\ ~Idle(th) /\ MayRun(th) /\ At(th, "job") /\ o.op = "job"
      /\ UNCHANGED <<run, task, job, approvals, proc>>
  BY DEF JobRead, At, store
<1>2. /\ th \in Threads /\ s \in Seq(Ops) /\ s # <<>> /\ Stage(s)
      /\ t \in Seq(Ops) /\ <<>> \o t = t /\ Range(s) = { o } \cup Range(t)
      /\ \A u \in ByRunner \ {th} : Idle(u)
      /\ \A x \in Tasks : task[x] = "running" => \E a \in Range(s) : Drives(a, x)
  BY <1>1, AtRunner
<1>3. save \in Ops /\ save.op = "save" /\ save.to = o.to /\ Named(o.to, RunnerOf(o, job), job)
  BY <1>1, <1>2, SaveMade, JobNext DEF Driving
<1> HIDE DEF save
<1>4. /\ more # <<>> /\ Head(more) = save /\ Tail(more) = t
      /\ Range(more) = { save } \cup Range(t)
  BY <1>2, <1>3, PutFirst
<1>5. \A x \in Tasks : task[x] = "running" => \E a \in Range(t) : Drives(a, x)
  BY <1>1, <1>2 DEF Drives
<1> HIDE DEF t, more, o
<1>6. \/ (o.to = job.status \/ CanTransition(job.status, o.to)) /\ Does(th, more)
      \/ /\ ~(o.to = job.status \/ CanTransition(job.status, o.to))
         /\ Does(th, IF o.must THEN <<>> ELSE t)
  BY <1>1, <1>2 DEF JobRead, Follow, o, t, more, save, next
<1>7. ASSUME NEW r, Does(th, r), Stage(r),
             \A x \in Tasks : task[x] = "running" => \E a \in Range(r) : Drives(a, x),
             run \in { "running", "blocked" } => r # <<>>
      PROVE  DriveInv'
  BY <1>1, <1>2, <1>7, DriveReads
<1>8. \A x \in Tasks : task[x] = "running" => \E a \in Range(more) : Drives(a, x)
  BY <1>4, <1>5
<1>9. \A to : o \in JobTo(to) => save \in JobTo(to) /\ o.to = to /\ save.to = to
  BY <1>3 DEF JobTo
<1>10. Stage(<<>>)
  BY DEF Stage
<1>11. CASE run = "queued" /\ Two(s, JobTo("claimed"), Doing("start"))
  <2>1. o \in JobTo("claimed") /\ One(t, Doing("start"))
    BY <1>11 DEF Two, o, t
  <2>2. Two(more, JobTo("claimed"), Doing("start"))
    BY <1>4, <1>9, <2>1 DEF Two
  <2>3. Stage(more)
    BY <1>11, <2>2 DEF Stage
  <2>4. Stage(t)
    BY <1>11, <2>1 DEF Stage, Left
  <2>5. \A x \in Tasks : task[x] # "running"
    <3>1. Range(t) = { Head(t) } /\ Head(t) \in Doing("start")
      BY <1>2, <2>1, OneNext
    <3>. QED  BY <1>5, <3>1 DEF Drives, Doing
  <2>. QED  BY <1>6, <1>7, <1>8, <1>10, <1>11, <2>3, <2>4, <2>5
<1>12. CASE run = "running" /\ Two(s, JobTo("running"), Doing("exec"))
  <2>1. o \in JobTo("running") /\ One(t, Doing("exec"))
    BY <1>12 DEF Two, o, t
  <2>2. Stage(more)
    BY <1>4, <1>9, <1>12, <2>1 DEF Two, Stage
  <2>3. job.status = "claimed"
    BY <1>3, <1>9, <2>1 DEF Named
  <2>4. CanTransition(job.status, o.to)
    BY <1>9, <2>1, <2>3 DEF CanTransition, JobMoves
  <2>. QED  BY <1>4, <1>6, <1>7, <1>8, <2>2, <2>4
<1>13. CASE run = "blocked" /\ job.status = "running" /\ Held /\ One(s, JobTo("blocked"))
  <2>1. o \in JobTo("blocked") /\ t = <<>>
    BY <1>13 DEF One, o, t
  <2>2. One(more, JobTo("blocked"))
    BY <1>4, <1>9, <2>1 DEF One
  <2>3. Stage(more)
    BY <1>13, <2>2 DEF Stage
  <2>4. CanTransition(job.status, o.to)
    BY <1>9, <1>13, <2>1 DEF CanTransition, JobMoves
  <2>. QED  BY <1>4, <1>6, <1>7, <1>8, <2>3, <2>4
<1>14. CASE Going /\ ~Pending /\ ~o.must /\ Two(s, JobTo("completed"), RunTo("completed"))
  <2>1. o \in JobTo("completed") /\ One(t, RunTo("completed")) /\ t # <<>>
    BY <1>14 DEF Two, One, o, t
  <2>2. ~save.must
    BY DEF save, Op
  <2>3. Two(more, JobTo("completed"), RunTo("completed")) /\ ~Head(more).must
    BY <1>4, <1>9, <2>1, <2>2 DEF Two
  <2>4. Stage(more)
    BY <1>14, <2>3 DEF Stage
  <2>5. Stage(t)
    BY <1>14, <2>1 DEF Stage, Going, Halted, Terminal
  <2>. QED  BY <1>4, <1>5, <1>6, <1>7, <1>8, <1>14, <2>1, <2>4, <2>5
<1>15. CASE run = "failed" /\ ~Pending /\ One(s, JobTo("failed"))
  <2>1. o \in JobTo("failed") /\ t = <<>>
    BY <1>15 DEF One, o, t
  <2>2. One(more, JobTo("failed"))
    BY <1>4, <1>9, <2>1 DEF One
  <2>3. Stage(more)
    BY <1>15, <2>2 DEF Stage
  <2>4. \A x \in Tasks : task[x] # "running"
    BY <1>5, <2>1, ShapeShort
  <2>. QED  BY <1>6, <1>7, <1>8, <1>10, <1>15, <2>1, <2>3, <2>4
<1>. QED  BY <1>1, <1>2, <1>11, <1>12, <1>13, <1>14, <1>15, StageAt DEF s, o

LEMMA RunnerSetsJob ==
  ASSUME Recoverable, Driving, NEW th \in ByRunner, JobWrite(th)
  PROVE  DriveInv'
<1> DEFINE s    == script[th]
           o    == Head(s)
           rest == Tail(s)
<1>1. /\ ~Idle(th) /\ MayRun(th) /\ o.op = "save" /\ Follow(th, <<>>)
      /\ UNCHANGED <<run, task, approvals, proc>>
      /\ job' = [status |-> o.to, runner |-> o.runner]
  BY DEF JobWrite, At, To
<1>2. /\ th \in Threads /\ s \in Seq(Ops) /\ s # <<>> /\ Stage(s)
      /\ rest \in Seq(Ops) /\ <<>> \o rest = rest /\ Range(s) = { o } \cup Range(rest)
      /\ \A u \in ByRunner \ {th} : Idle(u)
      /\ Apart /\ (Pending => Held \/ job.status \in Halted)
      /\ \A t \in Tasks : HasApproval(t, "denied") => task[t] = "failed"
      /\ \A t \in Tasks : task[t] = "running" =>
           ~Pending /\ run # "blocked" /\ \E a \in Range(s) : Drives(a, t)
  BY <1>1, AtRunner
<1>3. Does(th, rest) /\ Allowed(job, job')
  BY <1>1, <1>2, JobNext DEF Follow, Driving
<1>4. script'[th] = rest
  BY <1>2, <1>3, ComingAfter DEF Driving
<1>5. /\ \A t, status : HasApproval(t, status)' = HasApproval(t, status)
      /\ Pending' = Pending /\ Held' = Held /\ Apart' = Apart
  BY <1>1, DecisionsKept
<1>6. \A t \in Tasks : task[t] = "running" =>
        ~Pending /\ run # "blocked" /\ \E a \in Range(rest) : Drives(a, t)
  BY <1>1, <1>2 DEF Drives
<1>7. /\ Stage(script[th])' /\ (run' = "running" => rest # <<>>)
      /\ run' = "blocked" => Held /\ job'.status = "blocked"
      /\ Pending => Held \/ job'.status \in Halted
  <2> HIDE DEF s, rest, o
  <2>1. CASE run = "queued" /\ Two(s, JobTo("claimed"), Doing("start"))
    <3>1. One(rest, Doing("start")) /\ job'.status = "claimed"
      BY <1>1, <2>1 DEF Two, JobTo, rest, o
    <3>2. job.status \in { "queued", "claimed" }
      BY <1>3, <3>1 DEF Allowed, Named
    <3>3. Left'
      BY <1>1, <2>1 DEF Left
    <3>. QED  BY <1>1, <1>2, <1>4, <2>1, <3>1, <3>2, <3>3 DEF Stage, Halted, Terminal
  <2>2. CASE run = "running" /\ Two(s, JobTo("running"), Doing("exec"))
    <3>1. One(rest, Doing("exec")) /\ job'.status = "running"
      BY <1>1, <2>2 DEF Two, JobTo, rest, o
    <3>2. job.status \in { "claimed", "running" }
      BY <1>3, <3>1 DEF Allowed, Named
    <3>3. OnIt'
      BY <1>1, <2>2, <3>1 DEF OnIt
    <3>. QED  BY <1>1, <1>2, <1>4, <2>2, <3>1, <3>2, <3>3 DEF Stage, One, Halted, Terminal
  <2>3. CASE run = "blocked" /\ job.status = "running" /\ Held /\ One(s, JobTo("blocked"))
    <3>1. rest = <<>> /\ job'.status = "blocked"
      BY <1>1, <2>3 DEF One, JobTo, rest, o
    <3>. QED  BY <1>1, <1>4, <2>3, <3>1 DEF Stage
  <2>4. CASE Going /\ ~Pending /\ ~o.must /\ Two(s, JobTo("completed"), RunTo("completed"))
    <3>1. One(rest, RunTo("completed")) /\ rest # <<>>
      BY <2>4 DEF Two, One, rest
    <3>2. run' # "blocked" /\ ~Pending'
      BY <1>1, <1>5, <2>4 DEF Going, Halted, Terminal
    <3>. QED  BY <1>4, <2>4, <3>1, <3>2 DEF Stage
  <2>5. CASE run = "failed" /\ ~Pending /\ One(s, JobTo("failed"))
    <3>1. rest = <<>>
      BY <2>5 DEF One, rest
    <3>. QED  BY <1>1, <1>4, <2>5, <3>1 DEF Stage
  <2>. QED  BY <1>1, <1>2, <2>1, <2>2, <2>3, <2>4, <2>5, StageAt DEF s, o
<1>8. /\ Apart' /\ (Pending' => Held' \/ job'.status \in Halted)
      /\ \A t \in Tasks : HasApproval(t, "denied")' => task'[t] = "failed"
      /\ \A t \in Tasks : task'[t] = "running" =>
           ~Pending' /\ run' # "blocked" /\ \E a \in Range(rest) : Drives(a, t)
      /\ run' = "blocked" =>
           /\ Held'
           /\ \/ job'.status \in { "blocked", "queued" }
              \/ job'.status \in { "claimed", "running" } /\ rest # <<>>
  BY <1>1, <1>2, <1>5, <1>6, <1>7
<1> HIDE DEF rest
<1>. QED  BY <1>1, <1>2, <1>3, <1>7, <1>8, DriveRunner

\* The accesses the handlers are made of.
LEMMA AccessMade ==
  ASSUME NEW bail \in BOOLEAN
  PROVE  /\ \A to \in RunStatus : SetRun(to, bail) \in RunTo(to)
         /\ \A t \in Tasks, to \in TaskStatus :
              SetTask(t, to, bail) \in For(t, TaskTo(to)) /\ SetTask(t, to, bail) \in TaskTo(to)
         /\ \A to \in JobStatus, r \in RunnerIds \cup {NoRunner, Keep} :
              /\ SetJob(to, r) \in JobTo(to) /\ MustSetJob(to, r) \in JobTo(to)
              /\ Op("job", 0, to, r, TRUE, FALSE) \in JobTo(to)
         /\ \A t \in Tasks :
              /\ Then("ask", t, "pending") \in For(t, Doing("ask"))
              /\ Op("work", t, "", Keep, bail, FALSE) \in For(t, Doing("work"))
              /\ Op("recheck", t, "", Keep, bail, FALSE) \in For(t, Doing("recheck"))
              /\ Op("recheck", t, "", Keep, bail, FALSE) \in Doing("recheck")
              /\ \A to \in { "approved", "denied" } :
                   Then("decided", t, to) \in For(t, Verdict(to)) /\ Then("decided", t, to) \in Verdict(to)
         /\ \A t \in Tasks \cup {0} :
              /\ Execute(t) \in Doing("exec")
              /\ FailRun(t) \in For(t, Doing("fail")) /\ FailRun(t) \in Doing("fail")
              /\ \A r \in RunnerIds \cup {NoRunner} :
                   Op("synthesize", t, "", r, TRUE, FALSE) \in Doing("synthesize")
         /\ Then("start", 0, "") \in Doing("start")
         /\ \A n \in Nat : Then("expire", n, "") \in For(n, Doing("expire"))
<1>1. \A to \in RunStatus : SetRun(to, bail) \in RunTo(to)
  BY DEF RunTo, Ops, SetRun, Op
<1>2. \A t \in Tasks, to \in TaskStatus :
        SetTask(t, to, bail) \in For(t, TaskTo(to)) /\ SetTask(t, to, bail) \in TaskTo(to)
  BY DEF For, TaskTo, Ops, SetTask, Op
<1>3. \A to \in JobStatus, r \in RunnerIds \cup {NoRunner, Keep} :
        /\ SetJob(to, r) \in JobTo(to) /\ MustSetJob(to, r) \in JobTo(to)
        /\ Op("job", 0, to, r, TRUE, FALSE) \in JobTo(to)
  BY DEF JobTo, Ops, SetJob, MustSetJob, Op
<1>4. \A t \in Tasks :
        /\ Then("ask", t, "pending") \in For(t, Doing("ask"))
        /\ Op("work", t, "", Keep, bail, FALSE) \in For(t, Doing("work"))
        /\ Op("recheck", t, "", Keep, bail, FALSE) \in For(t, Doing("recheck"))
        /\ Op("recheck", t, "", Keep, bail, FALSE) \in Doing("recheck")
        /\ \A to \in { "approved", "denied" } :
             Then("decided", t, to) \in For(t, Verdict(to)) /\ Then("decided", t, to) \in Verdict(to)
  BY DEF For, Doing, Verdict, Ops, Then, Op, ApprovalStatus
<1>5. \A t \in Tasks \cup {0} :
        /\ Execute(t) \in Doing("exec")
        /\ FailRun(t) \in For(t, Doing("fail")) /\ FailRun(t) \in Doing("fail")
        /\ \A r \in RunnerIds \cup {NoRunner} :
             Op("synthesize", t, "", r, TRUE, FALSE) \in Doing("synthesize")
  BY DEF For, Doing, Ops, Execute, FailRun, Op
<1>6. /\ Then("start", 0, "") \in Doing("start")
      /\ \A n \in Nat : Then("expire", n, "") \in For(n, Doing("expire"))
  BY DEF For, Doing, Ops, Then, Op
<1>. QED  BY <1>1, <1>2, <1>3, <1>4, <1>5, <1>6

\* failRun goes on with the task, the run and the job.
LEMMA FailsMade ==
  ASSUME Driving, NEW th \in Threads, Failing(th), Tail(script[th]) = <<>>
  PROVE  \E r \in Seq(Ops) :
           /\ Does(th, r)
           /\ \/ /\ Three(r, TaskTo("failed"), RunTo("failed"), JobTo("failed"))
                 /\ Arg(th) # 0 => Head(r).arg = Arg(th)
              \/ Arg(th) = 0 /\ Two(r, RunTo("failed"), JobTo("failed"))
<1> DEFINE rest   == << SetRun("failed", FALSE), SetJob("failed", Keep) >>
           one(t) == << SetTask(t, "failed", FALSE) >>
<1>1. /\ SetRun("failed", FALSE) \in RunTo("failed") /\ SetJob("failed", Keep) \in JobTo("failed")
      /\ \A t \in Tasks : SetTask(t, "failed", FALSE) \in For(t, TaskTo("failed"))
  BY AccessMade DEF RunStatus, TaskStatus, JobStatus
<1>2. Two(rest, RunTo("failed"), JobTo("failed"))
  BY <1>1, Written
<1>3. rest \in Seq(Ops)
  <2>1. SetRun("failed", FALSE) \in Ops /\ SetJob("failed", Keep) \in Ops
    BY <1>1 DEF RunTo, JobTo
  <2>. QED  BY <2>1, Tuples
<1> HIDE DEF rest
<1>4. ASSUME NEW t \in Tasks
      PROVE  /\ one(t) \o rest \in Seq(Ops) /\ Head(one(t) \o rest).arg = t
             /\ Three(one(t) \o rest, TaskTo("failed"), RunTo("failed"), JobTo("failed"))
  <2> DEFINE o == SetTask(t, "failed", FALSE)
  <2>1. o \in Ops /\ o \in TaskTo("failed") /\ o.arg = t
    BY <1>1 DEF For, TaskTo
  <2> HIDE DEF o
  <2> DEFINE r == << o >> \o rest
  <2>2. r \in Seq(Ops) /\ r # <<>> /\ Head(r) = o /\ Tail(r) = rest
    BY <1>3, <2>1, PutFirst
  <2> HIDE DEF r
  <2>3. Three(r, TaskTo("failed"), RunTo("failed"), JobTo("failed"))
    BY <1>2, <2>1, <2>2 DEF Three
  <2>. QED  BY <2>1, <2>2, <2>3 DEF r, o
<1> HIDE DEF one
<1>5. Arg(th) \in Tasks \cup {0}
  BY NextAccess, OpShape DEF Failing, At, Arg, Driving
<1>6. \/ \E t \in Tasks : Follow(th, one(t) \o rest) /\ (Arg(th) # 0 => Arg(th) = t)
      \/ Arg(th) = 0 /\ Follow(th, rest)
  BY <1>5 DEF Failing, rest, one
<1>7. \A r \in Seq(Ops) : Follow(th, r) => Does(th, r)
  <2>1. \A r \in Seq(Ops) : r \o <<>> = r
    BY ConcatEmptySeq
  <2>. QED  BY <2>1 DEF Follow
<1>8. CASE Arg(th) = 0 /\ Follow(th, rest)
  BY <1>2, <1>3, <1>7, <1>8
<1>9. ASSUME NEW t \in Tasks, Follow(th, one(t) \o rest), Arg(th) # 0 => Arg(th) = t
      PROVE  \E r \in Seq(Ops) :
               /\ Does(th, r)
               /\ Three(r, TaskTo("failed"), RunTo("failed"), JobTo("failed"))
               /\ Arg(th) # 0 => Head(r).arg = Arg(th)
  <2>1. one(t) \o rest \in Seq(Ops) /\ Does(th, one(t) \o rest)
    BY <1>4, <1>7, <1>9
  <2>. QED  BY <1>4, <1>9, <2>1
<1>. QED  BY <1>6, <1>8, <1>9

LEMMA RunnerFails ==
  ASSUME Recoverable, Driving, NEW th \in ByRunner, Failing(th)
  PROVE  DriveInv'
<1> DEFINE s == script[th]
<1>1. /\ ~Idle(th) /\ MayRun(th) /\ Head(s).op = "fail"
      /\ UNCHANGED <<run, task, job, approvals, proc>>
  BY DEF Failing, At, store
<1>2. /\ th \in Threads /\ s \in Seq(Ops) /\ s # <<>> /\ Stage(s)
      /\ \A u \in ByRunner \ {th} : Idle(u)
      /\ \A x \in Tasks : task[x] = "running" => \E a \in Range(s) : Drives(a, x)
  BY <1>1, AtRunner
<1>3. Going /\ ~Pending /\ One(s, Doing("fail"))
  BY <1>1, <1>2, StageAt
<1>4. Tail(s) = <<>> /\ Range(s) = { Head(s) }
  BY <1>2, <1>3, OneNext
<1>5. PICK r \in Seq(Ops) :
        /\ Does(th, r)
        /\ \/ /\ Three(r, TaskTo("failed"), RunTo("failed"), JobTo("failed"))
              /\ Arg(th) # 0 => Head(r).arg = Arg(th)
           \/ Arg(th) = 0 /\ Two(r, RunTo("failed"), JobTo("failed"))
  BY <1>2, <1>4, FailsMade
<1>6. Stage(r) /\ r # <<>>
  BY <1>3, <1>5 DEF Stage, FailsRun, Two, Three
<1>7. ASSUME NEW x \in Tasks, task[x] = "running"
      PROVE  \E a \in Range(r) : Drives(a, x)
  <2>1. Arg(th) = x /\ x # 0
    BY <1>2, <1>4, <1>7 DEF Drives, Arg, Tasks
  <2>2. Three(r, TaskTo("failed"), RunTo("failed"), JobTo("failed")) /\ Head(r).arg = x
    BY <1>5, <2>1
  <2>3. Head(r) \in Range(r) /\ Head(r) \in TaskTo("failed")
    BY <1>6, <2>2, ScriptNext DEF Three
  <2>. QED  BY <2>2, <2>3 DEF Drives, TaskTo
<1>. QED  BY <1>1, <1>2, <1>5, <1>6, <1>7, DriveReads

\* Nobody returns because the process shuts down: it is killed.
LEMMA NobodyBails ==
  ASSUME Recoverable, Driving, NEW th \in Threads, Bail(th)
  PROVE  FALSE
  BY Alone DEF Bail

\* executeRun about to look for the next task: the run is running, and so far
\* no task is.
LEMMA AtExec ==
  ASSUME Recoverable, Driving, NEW th \in Threads, Executing(th)
  PROVE  /\ th \in ByRunner /\ MayRun(th) /\ ~Idle(th) /\ OnIt
         /\ \A u \in ByRunner \ {th} : Idle(u)
         /\ \A x \in Tasks : task[x] # "running" /\ (HasApproval(x, "denied") => task[x] = "failed")
         /\ Apart /\ (Pending => Held)
         /\ UNCHANGED <<run, task, job, approvals, proc>>
<1> DEFINE s == script[th]
<1>1. MayRun(th) /\ ~Idle(th) /\ Head(s).op = "exec" /\ UNCHANGED <<run, task, job, approvals, proc>>
  BY DEF Executing, At, store
<1>2. th \in ByRunner
  BY RunnerOnly DEF Executing, Driving
<1>3. /\ s \in Seq(Ops) /\ s # <<>> /\ Stage(s)
      /\ \A u \in ByRunner \ {th} : Idle(u)
      /\ Apart /\ (Pending => Held \/ job.status \in Halted)
      /\ \A x \in Tasks : HasApproval(x, "denied") => task[x] = "failed"
      /\ \A x \in Tasks : task[x] = "running" => \E a \in Range(s) : Drives(a, x)
  BY <1>1, <1>2, AtRunner
<1>4. OnIt /\ One(s, Doing("exec"))
  BY <1>1, <1>3, StageAt
<1>5. Range(s) = { Head(s) }
  BY <1>3, <1>4, OneNext
<1>6. \A x \in Tasks : task[x] # "running"
  BY <1>1, <1>3, <1>5 DEF Drives
<1>7. Pending => Held
  BY <1>3, <1>4 DEF OnIt, Halted, Terminal
<1>. QED  BY <1>1, <1>2, <1>3, <1>4, <1>6, <1>7

\* A step of executeRun that only decides how to go on.
LEMMA ExecGoesOn ==
  ASSUME Recoverable, Driving, NEW th \in Threads, Executing(th),
         NEW rest, Does(th, rest), Stage(rest), rest # <<>>
  PROVE  DriveInv'
  BY AtExec, DriveReads

LEMMA DriveExecutes ==
  ASSUME Recoverable, Driving, NEW th \in Threads,
         \/ ExecReturn(th) \/ ExecNoTaskLeft(th) \/ ExecProviderInvalid(th)
         \/ ExecProviderThrows(th) \/ ExecHeld(th) \/ ExecAsks(th) \/ ExecBegins(th)
  PROVE  DriveInv'
<1>1. Executing(th)
  BY DEF ExecReturn, ExecNoTaskLeft, ExecProviderInvalid, ExecProviderThrows, ExecHeld, ExecAsks,
         ExecBegins, Proceeding
<1>2. /\ th \in ByRunner /\ OnIt /\ Apart /\ (Pending => Held)
      /\ \A x \in Tasks : HasApproval(x, "denied") => task[x] = "failed"
  BY <1>1, AtExec
<1>3. Going
  BY <1>2 DEF OnIt, Going
<1>4. job.runner \in RunnerIds \cup {NoRunner} /\ Arg(th) \in Tasks \cup {0}
  BY <1>1, NextAccess, OpShape DEF Driving, IInv, TypeOK, Executing, At, Arg
<1>5. \A t \in Tasks : IsNext(t) => task[t] # "failed" /\ ~HasApproval(t, "denied")
  BY <1>2 DEF IsNext, Waiting
<1>6. \A t \in Tasks : IsNext(t) /\ Pending => HasApproval(t, "pending") /\ t \in NeedsApproval
  <2> SUFFICES ASSUME NEW t \in Tasks, IsNext(t), Pending
               PROVE  HasApproval(t, "pending") /\ t \in NeedsApproval
    OBVIOUS
  <2>1. HasApproval(t, "pending")
    BY <1>2, OneNextTask DEF Held
  <2>. QED  BY <1>2, <2>1 DEF Apart, HasApproval
<1>7. CASE ExecReturn(th)
  BY <1>2, <1>7 DEF ExecReturn, OnIt, Terminal
<1>8. CASE ExecNoTaskLeft(th)
  <2> DEFINE o == Op("synthesize", Arg(th), "", job.runner, TRUE, FALSE)
  <2>1. Does(th, << o >>) /\ Waiting = {}
    BY <1>8 DEF ExecNoTaskLeft
  <2>2. ~Pending
    BY <1>2, <2>1 DEF Held, IsNext
  <2>3. One(<< o >>, Doing("synthesize"))
    BY <1>4, AccessMade, Written
  <2> HIDE DEF o
  <2>4. Stage(<< o >>) /\ << o >> # <<>>
    BY <1>3, <2>2, <2>3 DEF Stage, One
  <2>. QED  BY <1>1, <2>1, <2>4, ExecGoesOn
<1>9. CASE ExecProviderInvalid(th)
  <2>1. PICK t \in Tasks : Does(th, << FailRun(t) >>)
    BY <1>9 DEF ExecProviderInvalid
  <2>2. ~Pending
    <3>1. Ordinary /\ WholeInv
      BY <1>9 DEF ExecProviderInvalid, Recoverable, Driving
    <3>2. ~Idle(th) /\ Head(script[th]).op = "exec"
      BY <1>1 DEF Executing, At
    <3>. QED  BY <1>2, <3>1, <3>2, NothingPending DEF Driving, Holds, Ends
  <2>3. One(<< FailRun(t) >>, Doing("fail"))
    BY AccessMade, Written
  <2>4. Stage(<< FailRun(t) >>) /\ << FailRun(t) >> # <<>>
    BY <1>3, <2>2, <2>3 DEF Stage, FailsRun, One
  <2>. QED  BY <1>1, <2>1, <2>4, ExecGoesOn
<1>10. CASE ExecProviderThrows(th)
  BY <1>10 DEF ExecProviderThrows, Recoverable
<1>11. CASE ExecHeld(th)
  <2>1. PICK t \in NeedsApproval :
          IsNext(t) /\ HasApproval(t, "pending") /\ Does(th, Hold(t, TRUE))
    BY <1>5, <1>11, TasksAssumption DEF ExecHeld
  <2>2. t \in Tasks
    BY TasksAssumption
  <2>3. Three(Hold(t, TRUE), For(t, TaskTo("blocked")), RunTo("blocked"), JobTo("blocked"))
    BY <1>4, <2>2, AccessMade, Written DEF Hold, TaskStatus, RunStatus, JobStatus
  <2>4. Held
    BY <2>1, <2>2 DEF Held
  <2>5. Stage(Hold(t, TRUE)) /\ Hold(t, TRUE) # <<>>
    BY <1>2, <2>1, <2>2, <2>3, <2>4 DEF Stage, Three
  <2>. QED  BY <1>1, <2>1, <2>5, ExecGoesOn
<1>12. CASE ExecAsks(th)
  <2>1. PICK t \in NeedsApproval :
          /\ IsNext(t) /\ ~HasApproval(t, "pending")
          /\ Does(th, << Then("ask", t, "pending") >> \o Hold(t, TRUE))
    BY <1>12 DEF ExecAsks
  <2>2. t \in Tasks
    BY TasksAssumption
  <2> DEFINE o == Then("ask", t, "pending")
             r == << o >> \o Hold(t, TRUE)
  <2>3. Three(Hold(t, TRUE), For(t, TaskTo("blocked")), RunTo("blocked"), JobTo("blocked"))
    BY <1>4, <2>2, AccessMade, Written DEF Hold, TaskStatus, RunStatus, JobStatus
  <2>4. o \in For(t, Doing("ask"))
    BY <2>2, AccessMade
  <2>5. Hold(t, TRUE) \in Seq(Ops)
    <3>1. Hold(t, TRUE) \in Seq(Safe(granted)) /\ Safe(granted) \subseteq Ops
      BY <2>2, HoldIsSafe DEF Driving, Safe
    <3>. QED  BY <3>1, SeqMonotonic
  <2> HIDE DEF o
  <2>6. r # <<>> /\ Head(r) = o /\ Tail(r) = Hold(t, TRUE)
    BY <2>4, <2>5, PutFirst DEF For, Doing
  <2> HIDE DEF r
  <2>7. Four(r, For(t, Doing("ask")), For(t, TaskTo("blocked")), RunTo("blocked"), JobTo("blocked"))
    BY <2>3, <2>4, <2>6 DEF Four
  <2>8. ~Pending
    BY <1>6, <2>1, <2>2
  <2>9. Stage(r)
    BY <1>2, <2>1, <2>7, <2>8 DEF Stage
  <2>. QED  BY <1>1, <2>1, <2>6, <2>9, ExecGoesOn DEF r, o
<1>13. CASE ExecBegins(th)
  <2> DEFINE begin(t) == << SetRun("running", TRUE), SetTask(t, "running", TRUE),
                            Op("work", t, "", Keep, TRUE, FALSE) >>
  <2>1. PICK t \in Tasks : IsNext(t) /\ GateOpen(t) /\ Does(th, begin(t))
    BY <1>13 DEF ExecBegins
  <2>2. Three(begin(t), RunTo("running"), For(t, TaskTo("running")), For(t, Doing("work")))
    BY AccessMade, Written DEF TaskStatus, RunStatus
  <2>3. ~Pending /\ ~HasApproval(t, "denied")
    BY <1>5, <1>6, <2>1 DEF GateOpen
  <2> HIDE DEF begin
  <2>4. Stage(begin(t)) /\ begin(t) # <<>>
    BY <1>2, <2>1, <2>2, <2>3 DEF Stage, Three
  <2>. QED  BY <1>1, <2>1, <2>4, ExecGoesOn
<1>. QED  BY <1>7, <1>8, <1>9, <1>10, <1>11, <1>12, <1>13

\* What a request is in the middle of, by its next access.
LEMMA ChainAt ==
  ASSUME NEW s \in Seq(Ops), s # <<>>, Chain(s)
  PROVE  /\ Head(s).op = "run" =>
              \/ /\ run \in { "queued", "running" }
                 /\ One(s, RunTo("paused")) \/ Two(s, RunTo("paused"), JobTo("paused"))
              \/ /\ run \notin Terminal
                 /\ One(s, RunTo("cancelled")) \/ Two(s, RunTo("cancelled"), JobTo("cancelled"))
              \/ /\ ~Pending
                 /\ \E t \in Tasks :
                      /\ ~HasApproval(t, "denied")
                      /\ \/ Two(s, RunTo("queued"), For(t, TaskTo("queued")))
                         \/ Three(s, RunTo("queued"), For(t, TaskTo("queued")), JobTo("queued"))
              \/ (Pending => job.status # "queued") /\ Two(s, RunTo("failed"), JobTo("failed"))
         /\ Head(s).op = "task" =>
              \/ /\ ~Pending /\ run = "queued"
                 /\ \E t \in Tasks :
                      /\ ~HasApproval(t, "denied")
                      /\ \/ One(s, For(t, TaskTo("queued")))
                         \/ Two(s, For(t, TaskTo("queued")), JobTo("queued"))
              \/ /\ Pending => job.status # "queued"
                 /\ Three(s, TaskTo("failed"), RunTo("failed"), JobTo("failed"))
         /\ Head(s).op \in { "job", "save" } =>
              \/ Left /\ (One(s, JobTo("paused")) \/ One(s, JobTo("cancelled")))
              \/ ~Pending /\ run = "queued" /\ One(s, JobTo("queued"))
              \/ Left /\ (Pending => job.status # "queued") /\ One(s, JobTo("failed"))
         /\ Head(s).op = "expire" =>
              \E i \in DOMAIN approvals :
                approvals[i].status = "approved" /\ One(s, For(i, Doing("expire")))
         /\ Head(s).op = "decided" =>
              /\ ~Pending
              /\ \/ One(s, Verdict("denied"))
                 \/ \E t \in Tasks : ~HasApproval(t, "denied") /\ One(s, For(t, Verdict("approved")))
         /\ Head(s).op = "fail" =>
              (Pending => job.status # "queued") /\ One(s, Doing("fail"))
         /\ Head(s).op \in { "run", "task", "job", "save", "expire", "decided", "fail" }
  BY DEF Chain, FailsRun, One, Two, Three, RunTo, TaskTo, JobTo, Verdict, Doing, For

\* Whose access it is, by its kind.
LEMMA OnOneSide ==
  ASSUME Recoverable, Driving, NEW th \in Threads, ~Idle(th)
  PROVE  /\ Head(script[th]).op \in { "start", "exec", "ask", "work", "recheck", "synthesize" }
              => th \in ByRunner
         /\ Head(script[th]).op \in { "expire", "decided" } => th \in ByClient
         /\ Head(script[th]).op \notin { "open", "resolve", "resolved", "close", "closed", "replied" }
<1>1. script[th] \in Seq(Ops) /\ script[th] # <<>>
  BY DEF Driving, IInv, TypeOK, Idle
<1>2. CASE th \in ByRunner
  <2>1. Stage(script[th])
    BY <1>2 DEF Driving, DriveInv
  <2>. QED  BY <1>1, <1>2, <2>1, StageAt
<1>3. CASE th \in ByClient
  <2>1. Chain(script[th])
    BY <1>3 DEF Driving, DriveInv
  <2>. QED  BY <1>1, <1>3, <2>1, ChainAt
<1>. QED  BY <1>2, <1>3, Sides

\* One more approval is stored.
LEMMA ApprovalAdded ==
  ASSUME IInv, NEW t \in Tasks, NEW status,
         approvals' = Append(approvals, [task |-> t, status |-> status])
  PROVE  /\ DOMAIN approvals' = DOMAIN approvals \cup { Len(approvals) + 1 }
         /\ Len(approvals) + 1 \notin DOMAIN approvals
         /\ \A i \in DOMAIN approvals : approvals'[i] = approvals[i]
         /\ approvals'[Len(approvals) + 1] = [task |-> t, status |-> status]
         /\ \A x, y : HasApproval(x, y)' <=> (HasApproval(x, y) \/ (x = t /\ y = status))
<1> DEFINE record == [task |-> t, status |-> status]
<1>1. approvals \in Seq([task : Tasks, status : ApprovalStatus])
  BY DEF IInv, TypeOK
<1>2. /\ Len(approvals') = Len(approvals) + 1 /\ Len(approvals) \in Nat
      /\ approvals'[Len(approvals) + 1] = record
      /\ \A i \in 1..Len(approvals) : approvals'[i] = approvals[i]
      /\ approvals' \in Seq([task : Tasks, status : ApprovalStatus] \cup { record })
  <2>1. approvals' = Append(approvals, record)
    OBVIOUS
  <2> HIDE DEF record
  <2>2. approvals \in Seq([task : Tasks, status : ApprovalStatus] \cup { record })
    BY <1>1, SeqMonotonic
  <2>. QED  BY <2>1, <2>2, AppendProperties, LenProperties
<1>3. DOMAIN approvals = 1..Len(approvals) /\ DOMAIN approvals' = 1..(Len(approvals) + 1)
  BY <1>1, <1>2, LenProperties
<1>4. /\ DOMAIN approvals' = DOMAIN approvals \cup { Len(approvals) + 1 }
      /\ Len(approvals) + 1 \notin DOMAIN approvals
  BY <1>2, <1>3
<1>5. \A i \in DOMAIN approvals : approvals'[i] = approvals[i]
  BY <1>2, <1>3
<1>6. ASSUME NEW x, NEW y
      PROVE  HasApproval(x, y)' <=> (HasApproval(x, y) \/ (x = t /\ y = status))
  <2>1. HasApproval(x, y)' <=> \E i \in DOMAIN approvals' : approvals'[i] = [task |-> x, status |-> y]
    BY DEF HasApproval
  <2>2. record = [task |-> x, status |-> y] <=> (x = t /\ y = status)
    OBVIOUS
  <2>. QED  BY <1>2, <1>4, <1>5, <2>1, <2>2 DEF HasApproval
<1>. QED  BY <1>2, <1>4, <1>5, <1>6

LEMMA DriveAsks ==
  ASSUME Recoverable, Driving, NEW th \in Threads, Ask(th)
  PROVE  DriveInv'
<1> DEFINE s    == script[th]
           rest == Tail(s)
<1>1. /\ ~Idle(th) /\ MayRun(th) /\ Head(s).op = "ask" /\ Follow(th, <<>>)
      /\ UNCHANGED <<run, task, job, proc>>
      /\ approvals' = Append(approvals, [task |-> Head(s).arg, status |-> "pending"])
  BY DEF Ask, At, Arg
<1>2. th \in ByRunner
  BY <1>1, OnOneSide
<1>3. /\ th \in Threads /\ s \in Seq(Ops) /\ s # <<>> /\ Stage(s)
      /\ rest \in Seq(Ops) /\ <<>> \o rest = rest
      /\ \A u \in ByRunner \ {th} : Idle(u)
      /\ Apart
      /\ \A x \in Tasks : HasApproval(x, "denied") => task[x] = "failed"
      /\ \A x \in Tasks : task[x] = "running" => \E o \in Range(s) : Drives(o, x)
  BY <1>1, <1>2, AtRunner
<1> HIDE DEF s
<1>4. OnIt /\ ~Pending
  BY <1>1, <1>3, StageAt
<1>5. PICK t \in NeedsApproval :
        /\ IsNext(t)
        /\ Four(s, For(t, Doing("ask")), For(t, TaskTo("blocked")), RunTo("blocked"), JobTo("blocked"))
  BY <1>1, <1>3, StageAt
<1>6. t \in Tasks /\ Head(s).arg = t
  BY <1>5, TasksAssumption DEF Four, For
<1>7. Three(rest, For(t, TaskTo("blocked")), RunTo("blocked"), JobTo("blocked")) /\ rest # <<>>
  BY <1>5 DEF Four, Three
<1>8. \A x \in Tasks : task[x] # "running"
  <2>1. \E b \in For(t, TaskTo("blocked")), c \in RunTo("blocked"), d \in JobTo("blocked") :
          Range(s) = { Head(s), b, c, d }
    BY <1>3, <1>5, FourNext
  <2>. QED  BY <1>1, <1>3, <2>1 DEF Drives, For, TaskTo, RunTo, JobTo
<1> HIDE DEF rest
<1>9. Does(th, rest)
  BY <1>1, <1>3 DEF Follow, rest, s
<1>10. script'[th] = rest
  BY <1>3, <1>9, ComingAfter DEF Driving
<1>11. /\ DOMAIN approvals' = DOMAIN approvals \cup { Len(approvals) + 1 }
       /\ \A i \in DOMAIN approvals : approvals'[i] = approvals[i]
       /\ approvals'[Len(approvals) + 1] = [task |-> t, status |-> "pending"]
       /\ \A x, y : HasApproval(x, y)' <=> (HasApproval(x, y) \/ (x = t /\ y = "pending"))
  BY <1>1, <1>6, ApprovalAdded DEF Driving
<1>12. \A x \in Tasks : ~HasApproval(x, "pending")
  BY <1>4, HeldIsPending
<1>13. ~HasApproval(t, "denied")
  BY <1>3, <1>5, <1>6 DEF IsNext, Waiting
<1>14. Apart'
  <2>1. \A i \in DOMAIN approvals' : approvals'[i].task \in NeedsApproval
    BY <1>3, <1>5, <1>11 DEF Apart
  <2>2. \A i \in DOMAIN approvals' : approvals'[i].status = "pending" => i = Len(approvals) + 1
    BY <1>4, <1>11 DEF Pending
  <2>3. \A x \in Tasks : ~HasApproval(x, "pending")' \/ ~HasApproval(x, "denied")'
    BY <1>11, <1>12, <1>13
  <2>. QED  BY <2>1, <2>2, <2>3 DEF Apart
<1>15. IsNext(t)' /\ HasApproval(t, "pending")' /\ OnIt'
  BY <1>1, <1>4, <1>5, <1>11 DEF IsNext, Waiting, OnIt
<1>16. Held'
  BY <1>6, <1>15 DEF Held
<1>17. Stage(script[th])'
  BY <1>6, <1>7, <1>10, <1>15, <1>16 DEF Stage
<1>18. \A x \in Tasks : HasApproval(x, "denied")' => task'[x] = "failed"
  BY <1>1, <1>3, <1>11
<1>19. run' # "blocked" /\ \A x \in Tasks : task'[x] # "running"
  BY <1>1, <1>4, <1>8 DEF OnIt
<1>. QED  BY <1>1, <1>2, <1>3, <1>7, <1>9, <1>14, <1>16, <1>17, <1>18, <1>19, DriveRunner

\* Between the tasks of an execution, and when the last of them is done.
LEMMA DriveWorks ==
  ASSUME Recoverable, Driving, NEW th \in Threads,
         WorkDone(th) \/ WorkFails(th) \/ Recheck(th) \/ Synthesized(th) \/ SynthesisThrows(th)
  PROVE  DriveInv'
<1> DEFINE s == script[th]
           h == Head(s)
<1>1. /\ ~Idle(th) /\ MayRun(th) /\ h.op \in { "work", "recheck", "synthesize" }
      /\ UNCHANGED <<run, task, job, approvals, proc>>
  BY DEF WorkDone, WorkFails, Recheck, Synthesized, SynthesisThrows, At, store
<1>2. th \in ByRunner
  BY <1>1, OnOneSide
<1>3. /\ s \in Seq(Ops) /\ s # <<>> /\ Stage(s) /\ h \in Ops
      /\ \A u \in ByRunner \ {th} : Idle(u)
      /\ \A x \in Tasks : task[x] = "running" => \E o \in Range(s) : Drives(o, x)
  BY <1>1, <1>2, AtRunner
<1>4. Going /\ ~Pending /\ Range(s) = { h }
  <2>1. Going /\ ~Pending /\ \E A : One(s, A)
    BY <1>1, <1>3, StageAt
  <2>. QED  BY <1>3, <2>1, OneNext
<1>5. ASSUME NEW r, Does(th, r), Stage(r),
             \A x \in Tasks : task[x] = "running" => \E o \in Range(r) : Drives(o, x),
             run = "running" => r # <<>>
      PROVE  DriveInv'
  BY <1>1, <1>2, <1>3, <1>4, <1>5, DriveReads DEF Going, Halted, Terminal
<1>6. h.op # "work" => \A x \in Tasks : task[x] # "running"
  BY <1>1, <1>3, <1>4 DEF Drives
<1>7. ASSUME h.op = "work"
      PROVE  /\ h.arg \in Tasks /\ ~HasApproval(h.arg, "denied")
             /\ \A x \in Tasks : task[x] = "running" => x = h.arg
  <2>1. PICK t \in Tasks : ~HasApproval(t, "denied") /\ One(s, For(t, Doing("work")))
    BY <1>3, <1>7, StageAt
  <2>2. h.arg = t
    BY <2>1 DEF One, For
  <2>3. \A x \in Tasks : task[x] = "running" => x = h.arg
    BY <1>3, <1>4 DEF Drives
  <2>. QED  BY <2>1, <2>2, <2>3
<1> HIDE DEF s, h
<1>8. CASE WorkDone(th)
  <2> DEFINE a == SetTask(h.arg, "completed", FALSE)
             b == Op("recheck", h.arg, "", Keep, TRUE, FALSE)
  <2>1. h.op = "work" /\ Does(th, << a, b >>)
    BY <1>8 DEF WorkDone, At, Arg, h, s
  <2>2. /\ h.arg \in Tasks /\ ~HasApproval(h.arg, "denied")
        /\ \A x \in Tasks : task[x] = "running" => x = h.arg
    BY <1>7, <2>1
  <2>3. a \in For(h.arg, TaskTo("completed")) /\ b \in For(h.arg, Doing("recheck"))
    BY <2>2, AccessMade DEF TaskStatus
  <2> HIDE DEF a, b
  <2> DEFINE r == << a, b >>
  <2>4. Two(r, For(h.arg, TaskTo("completed")), For(h.arg, Doing("recheck")))
    BY <2>3, Written
  <2>5. a \in Range(r) /\ r # <<>>
    BY DEF Range
  <2> HIDE DEF r
  <2>6. Stage(r) /\ r # <<>>
    BY <1>4, <2>2, <2>4, <2>5 DEF Stage
  <2>7. \A x \in Tasks : task[x] = "running" => \E o \in Range(r) : Drives(o, x)
    BY <2>2, <2>3, <2>5 DEF Drives, For, TaskTo
  <2>8. Does(th, r)
    BY <2>1 DEF r
  <2>. QED  BY <1>5, <2>6, <2>7, <2>8
<1>9. CASE WorkFails(th)
  <2> DEFINE a == FailRun(h.arg)
             r == << a >>
  <2>1. h.op = "work" /\ Does(th, r)
    BY <1>9 DEF WorkFails, At, Arg, h, s
  <2>2. h.arg \in Tasks /\ \A x \in Tasks : task[x] = "running" => x = h.arg
    BY <1>7, <2>1
  <2>3. a \in Doing("fail") /\ a.arg = h.arg /\ a.op = "fail"
    BY <2>2, AccessMade DEF Doing, For
  <2> HIDE DEF a
  <2>4. One(r, Doing("fail")) /\ Range(r) = { a } /\ r # <<>>
    BY <2>3, Written, ShapeShort DEF One
  <2> HIDE DEF r
  <2>5. Stage(r)
    BY <1>4, <2>4 DEF Stage, FailsRun
  <2>6. \A x \in Tasks : task[x] = "running" => \E o \in Range(r) : Drives(o, x)
    BY <2>2, <2>3, <2>4 DEF Drives
  <2>. QED  BY <1>5, <2>1, <2>4, <2>5, <2>6
<1>10. CASE Recheck(th)
  <2> DEFINE r == << Execute(h.arg) >>
  <2>1. h.op = "recheck" /\ Does(th, IF run \in Terminal \cup { "paused" } THEN <<>> ELSE r)
    BY <1>10 DEF Recheck, At, Arg, h, s
  <2>2. h.arg \in Tasks
    BY <1>3, <2>1, OpShape
  <2>3. One(r, Doing("exec")) /\ r # <<>>
    BY <2>2, AccessMade, Written DEF One
  <2> HIDE DEF r
  <2>4. \A x \in Tasks : task[x] # "running"
    BY <1>6, <2>1
  <2>5. CASE run \in Terminal \cup { "paused" }
    <3>1. Stage(<<>>) /\ Does(th, <<>>) /\ run # "running"
      BY <2>1, <2>5 DEF Stage, Terminal
    <3>. QED  BY <1>5, <2>4, <3>1
  <2>6. CASE run \notin Terminal \cup { "paused" }
    <3>1. OnIt
      BY <1>4, <2>6 DEF Going, OnIt, Halted
    <3>2. Stage(r) /\ Does(th, r)
      BY <2>1, <2>3, <2>6, <3>1 DEF Stage
    <3>. QED  BY <1>5, <2>3, <2>4, <3>2
  <2>. QED  BY <2>5, <2>6
<1>11. CASE Synthesized(th)
  <2> DEFINE a == Op("job", 0, "completed", h.runner, TRUE, FALSE)
             b == SetRun("completed", TRUE)
             r == << a, b >>
  <2>1. h.op = "synthesize" /\ Does(th, r)
    BY <1>11 DEF Synthesized, At, h, s
  <2>2. h.runner \in RunnerIds \cup { NoRunner }
    BY <1>3, <2>1, OpShape
  <2>3. a \in JobTo("completed") /\ b \in RunTo("completed") /\ ~a.must
    BY <2>2, AccessMade DEF JobStatus, RunStatus, Op
  <2> HIDE DEF a, b
  <2>4. Two(r, JobTo("completed"), RunTo("completed")) /\ Head(r) = a /\ r # <<>>
    BY <2>3, Written DEF Two
  <2> HIDE DEF r
  <2>5. Stage(r)
    BY <1>4, <2>3, <2>4 DEF Stage
  <2>6. \A x \in Tasks : task[x] # "running"
    BY <1>6, <2>1
  <2>. QED  BY <1>5, <2>1, <2>4, <2>5, <2>6
<1>12. CASE SynthesisThrows(th)
  BY <1>12 DEF SynthesisThrows, Recoverable
<1>. QED  BY <1>8, <1>9, <1>10, <1>11, <1>12

\* runner.start, and the claim before it.
LEMMA DriveStarts ==
  ASSUME Recoverable, Driving, NEW th \in Threads, Start(th)
  PROVE  DriveInv'
<1> DEFINE s == script[th]
           a == SetRun("running", FALSE)
           b == MustSetJob("running", RunnerId[Home[th]])
           r == << a, b, Execute(0) >>
<1>1. /\ ~Idle(th) /\ MayRun(th) /\ Head(s).op = "start"
      /\ UNCHANGED <<run, task, job, approvals, proc>>
      /\ Does(th, r) \/ Does(th, <<>>)
  BY DEF Start, At, store
<1>2. th \in ByRunner /\ RunnerId[Home[th]] \in RunnerIds
  BY <1>1, OnOneSide DEF ByRunner, RunnerIds
<1>3. /\ s \in Seq(Ops) /\ s # <<>> /\ Stage(s)
      /\ \A u \in ByRunner \ {th} : Idle(u)
      /\ \A x \in Tasks : task[x] = "running" => \E o \in Range(s) : Drives(o, x)
  BY <1>1, <1>2, AtRunner
<1>4. Left /\ One(s, Doing("start"))
  BY <1>1, <1>3, StageAt
<1>5. \A x \in Tasks : task[x] # "running"
  BY <1>1, <1>3, <1>4, OneNext DEF Drives
<1>6. Three(r, RunTo("running"), JobTo("running"), Doing("exec"))
  BY <1>2, AccessMade, Written DEF RunStatus, JobStatus
<1> HIDE DEF r, s
<1>7. Stage(r) /\ Stage(<<>>)
  BY <1>4, <1>6 DEF Stage
<1>8. run \notin { "running", "blocked" }
  BY <1>4 DEF Left
<1>9. ASSUME NEW w, Does(th, w), Stage(w) PROVE DriveInv'
  BY <1>1, <1>2, <1>3, <1>5, <1>8, <1>9, DriveReads
<1>. QED  BY <1>1, <1>7, <1>9

LEMMA DriveClaims ==
  ASSUME Recoverable, Driving, NEW th \in Threads, Claim(th)
  PROVE  DriveInv'
<1> DEFINE a == MustSetJob("claimed", RunnerId[Home[th]])
           b == Then("start", 0, "")
           r == << a, b >>
<1>1. /\ th \in ByRunner /\ RunnerId[Home[th]] \in RunnerIds /\ MayRun(th)
      /\ run = "queued" /\ Does(th, r) /\ UNCHANGED <<run, task, job, approvals, proc>>
  BY DEF Claim, ByRunner, RunnerIds, store
<1>2. \A u \in ByRunner : Idle(u)
  BY RunnerFree DEF Driving, Recoverable
<1>3. ~Down
  BY <1>1, Alone, Sides
<1>4. \A x \in Tasks : task[x] # "running"
  <2>1. \A u \in ByRunner : Coming(u) = {}
    BY <1>2, IdleIsEmpty, Sides
  <2>. QED  BY <1>3, <2>1 DEF Driving, DriveInv, TaskDriven
<1>5. Two(r, JobTo("claimed"), Doing("start"))
  BY <1>1, AccessMade, Written DEF JobStatus
<1> HIDE DEF r
<1>6. Stage(r)
  BY <1>1, <1>5 DEF Stage
<1>. QED  BY <1>1, <1>2, <1>4, <1>6, DriveReads

---------------------------------------------------------------------------
(* The requests *)

\* A request at its next access.
LEMMA AtClient ==
  ASSUME Recoverable, Driving, NEW th \in ByClient, MayRun(th)
  PROVE  LET s == script[th] IN
         /\ th \in Threads /\ s \in Seq(Ops) /\ Chain(s) /\ ~Stopping(th) /\ Apart
         /\ \A t \in Tasks : HasApproval(t, "denied") =>
              task[t] = "failed" \/ \E o \in Range(s) : Denies(o, t)
         /\ Pending => Held \/ job.status \in Halted \/ \E o \in Range(s) : Breaks(o)
         /\ \A o \in Range(s) : ActsOn(o) => Acts
         /\ run = "blocked" => Held \/ \E o \in Range(s) : Replaces(o)
         /\ Overwrites <=> \E o \in Range(s) : Replaces(o)
<1>1. /\ th \in Threads /\ ~Stopping(th) /\ (\A u \in ByClient : u = th)
      /\ script[th] \in Seq(Ops) /\ Chain(script[th]) /\ Coming(th) = Range(script[th])
  BY Alone, Sides DEF Driving, DriveInv, IInv, TypeOK, Coming
<1>2. /\ \A t : Denying(t) <=> \E o \in Range(script[th]) : Denies(o, t)
      /\ Fails <=> \E o \in Range(script[th]) : Breaks(o)
      /\ Acts <=> \E o \in Range(script[th]) : ActsOn(o)
      /\ Overwrites <=> \E o \in Range(script[th]) : Replaces(o)
  BY <1>1 DEF Denying, Fails, Acts, Overwrites
<1>. QED  BY <1>1, <1>2 DEF Driving, DriveInv, RunDriven

\* A step of a request that writes nothing.
LEMMA ClientReads ==
  ASSUME Recoverable, Driving, NEW th \in ByClient, MayRun(th),
         NEW rest, Does(th, rest), UNCHANGED <<run, task, job, approvals, proc>>,
         Chain(rest),
         \A t \in Tasks : HasApproval(t, "denied") =>
           task[t] = "failed" \/ \E o \in Range(rest) : Denies(o, t),
         Pending => Held \/ job.status \in Halted \/ \E o \in Range(rest) : Breaks(o),
         \A o \in Range(rest) : ActsOn(o) => Acts \/ Pending,
         run = "blocked" => ~Overwrites \/ \E o \in Range(rest) : Replaces(o)
  PROVE  DriveInv'
<1>1. /\ th \in Threads /\ Apart
      /\ run = "blocked" => Held \/ Overwrites
  BY AtClient
<1>2. /\ Pending' = Pending /\ Held' = Held /\ Apart' = Apart
      /\ \A t : HasApproval(t, "denied")' = HasApproval(t, "denied")
      /\ \A s : Chain(s)' = Chain(s)
  BY StoreKept
<1>3. script'[th] = rest
  BY <1>1, ComingAfter DEF Driving
<1>4. Chain(script[th])' /\ Apart'
  BY <1>1, <1>2, <1>3
<1>5. \A t \in Tasks : HasApproval(t, "denied")' =>
        task'[t] = "failed" \/ \E o \in Range(rest) : Denies(o, t)
  BY <1>2
<1>6. Pending' => /\ Pending
                  /\ Held' \/ job'.status \in Halted \/ \E o \in Range(rest) : Breaks(o)
  BY <1>2
<1>7. run' = "blocked" =>
        \/ \E o \in Range(rest) : Replaces(o)
        \/ run = "blocked" /\ ~Overwrites /\ Held' /\ job'.status = job.status
  BY <1>1, <1>2
<1>8. \A t \in Tasks : ~HasApproval(t, "denied")' \/ HasApproval(t, "denied") \/ Pending
  BY <1>2
<1>. QED  BY <1>4, <1>5, <1>6, <1>7, <1>8, DriveClient

LEMMA ClientSetsRun ==
  ASSUME Recoverable, Driving, NEW th \in ByClient, RunWrite(th)
  PROVE  DriveInv'
<1> DEFINE s    == script[th]
           o    == Head(s)
           rest == Tail(s)
<1>1. /\ s # <<>> /\ MayRun(th) /\ o.op = "run" /\ Follow(th, <<>>)
      /\ UNCHANGED <<task, job, approvals, proc>>
  BY DEF RunWrite, At, Idle
<1>2. /\ th \in Threads /\ s \in Seq(Ops) /\ Chain(s) /\ ~Stopping(th) /\ Apart
      /\ \A t \in Tasks : HasApproval(t, "denied") =>
           task[t] = "failed" \/ \E a \in Range(s) : Denies(a, t)
      /\ Pending => Held \/ job.status \in Halted \/ \E a \in Range(s) : Breaks(a)
      /\ \A a \in Range(s) : ActsOn(a) => Acts
  BY <1>1, AtClient
<1>3. rest \in Seq(Ops) /\ <<>> \o rest = rest /\ Range(s) = { o } \cup Range(rest)
  BY <1>1, <1>2, ScriptNext
<1>4. Does(th, rest) /\ run' = o.to
  BY <1>1, <1>2, <1>3 DEF Follow, RunWrite, To
<1>5. script'[th] = rest
  BY <1>2, <1>4, ComingAfter DEF Driving
<1>6. /\ \A t \in Tasks : IsNext(t)' = IsNext(t)
      /\ \A t, status : HasApproval(t, status)' = HasApproval(t, status)
      /\ Pending' = Pending /\ Held' = Held /\ Apart' = Apart
  BY <1>1, DecisionsKept
<1> HIDE DEF s, rest, o
<1>7. /\ Chain(script[th])' /\ run' \in { "paused", "cancelled", "queued", "failed" }
      /\ Breaks(o) => \E a \in Range(rest) : Breaks(a)
  <2>1. ASSUME NEW to \in { "paused", "cancelled" },
               One(s, RunTo(to)) \/ Two(s, RunTo(to), JobTo(to))
        PROVE  Chain(script[th])' /\ run' = to /\ ~Breaks(o)
    <3>1. run' = to /\ o.to = to /\ Left'
      BY <1>4, <2>1 DEF One, Two, RunTo, o, Left
    <3>2. ~Breaks(o)
      BY <1>1, <3>1 DEF Breaks, Ends
    <3>3. rest = <<>> \/ One(rest, JobTo(to))
      BY <2>1 DEF One, Two, rest
    <3>4. Chain(script[th])'
      BY <1>5, <3>1, <3>3 DEF Chain
    <3>. QED  BY <3>1, <3>2, <3>4
  <2>2. ASSUME ~Pending, NEW t \in Tasks, ~HasApproval(t, "denied"),
               \/ Two(s, RunTo("queued"), For(t, TaskTo("queued")))
               \/ Three(s, RunTo("queued"), For(t, TaskTo("queued")), JobTo("queued"))
        PROVE  Chain(script[th])' /\ run' = "queued" /\ ~Breaks(o)
    <3>1. run' = "queued" /\ o.to = "queued"
      BY <1>4, <2>2 DEF Two, Three, RunTo, o
    <3>2. ~Breaks(o)
      BY <1>1, <3>1 DEF Breaks, Ends
    <3>3. \/ One(rest, For(t, TaskTo("queued")))
          \/ Two(rest, For(t, TaskTo("queued")), JobTo("queued"))
      BY <2>2 DEF Two, Three, rest
    <3>4. Chain(script[th])'
      BY <1>5, <1>6, <2>2, <3>1, <3>3 DEF Chain
    <3>. QED  BY <3>1, <3>2, <3>4
  <2>3. ASSUME Pending => job.status # "queued", Two(s, RunTo("failed"), JobTo("failed"))
        PROVE  Chain(script[th])' /\ run' = "failed" /\ \E a \in Range(rest) : Breaks(a)
    <3>1. run' = "failed" /\ One(rest, JobTo("failed"))
      BY <1>4, <2>3 DEF Two, RunTo, o, rest
    <3>2. Left'
      BY <3>1 DEF Left
    <3>3. Chain(script[th])'
      BY <1>1, <1>5, <1>6, <2>3, <3>1, <3>2 DEF Chain
    <3>4. Range(rest) = { Head(rest) } /\ Head(rest) \in JobTo("failed")
      BY <1>3, <3>1, OneNext
    <3>. QED  BY <3>1, <3>3, <3>4 DEF Breaks, Ends, JobTo
  <2>. QED  BY <1>1, <1>2, <2>1, <2>2, <2>3, ChainAt DEF o
<1>8. \A t \in Tasks : HasApproval(t, "denied")' =>
         task'[t] = "failed" \/ \E a \in Range(rest) : Denies(a, t)
  BY <1>1, <1>2, <1>3, <1>6 DEF Denies
<1>9. Pending' => /\ Pending
                  /\ Held' \/ job'.status \in Halted \/ \E a \in Range(rest) : Breaks(a)
  BY <1>1, <1>2, <1>3, <1>6, <1>7
<1>10. run' # run => run' \in Halted \/ (Acts /\ run' = "queued")
  <2>1. run' = "queued" => ActsOn(o)
    BY <1>1, <1>4 DEF ActsOn
  <2>. QED  BY <1>2, <1>3, <1>7, <2>1 DEF Halted, Terminal
<1>11. run' # "running" /\ run' # "blocked"
  BY <1>7
<1>12. /\ Apart' /\ (\A t \in Tasks : task'[t] = "running" => task[t] = "running")
       /\ \A a \in Range(rest) : ActsOn(a) => Acts \/ Pending
       /\ \A t \in Tasks : ~HasApproval(t, "denied")' \/ HasApproval(t, "denied") \/ Pending
  BY <1>1, <1>2, <1>3, <1>6
<1>. QED  BY <1>1, <1>4, <1>7, <1>8, <1>9, <1>10, <1>11, <1>12, DriveClient

LEMMA ClientSetsTask ==
  ASSUME Recoverable, Driving, NEW th \in ByClient, TaskWrite(th)
  PROVE  DriveInv'
<1> DEFINE s    == script[th]
           o    == Head(s)
           rest == Tail(s)
<1>1. /\ s # <<>> /\ MayRun(th) /\ o.op = "task" /\ Follow(th, <<>>)
      /\ UNCHANGED <<run, job, approvals, proc>>
  BY DEF TaskWrite, At, Idle
<1>2. /\ th \in Threads /\ s \in Seq(Ops) /\ Chain(s) /\ ~Stopping(th) /\ Apart
      /\ \A t \in Tasks : HasApproval(t, "denied") =>
           task[t] = "failed" \/ \E a \in Range(s) : Denies(a, t)
      /\ \A a \in Range(s) : ActsOn(a) => Acts
  BY <1>1, AtClient
<1>3. /\ o \in Ops /\ rest \in Seq(Ops) /\ <<>> \o rest = rest
      /\ Range(s) = { o } \cup Range(rest)
  BY <1>1, <1>2, ScriptNext
<1>4. Does(th, rest) /\ task' = [task EXCEPT ![o.arg] = o.to] /\ o.arg \in Tasks
  BY <1>1, <1>2, <1>3, OpShape DEF Follow, TaskWrite, To, Arg
<1>5. script'[th] = rest
  BY <1>2, <1>4, ComingAfter DEF Driving
<1>6. /\ \A t, status : HasApproval(t, status)' = HasApproval(t, status)
      /\ Pending' = Pending
  BY <1>1 DEF HasApproval, Pending
<1>7. Apart'
  BY <1>1, <1>2, <1>6 DEF Apart
<1>8. \A t \in Tasks : task'[t] = IF t = o.arg THEN o.to ELSE task[t]
  BY <1>4 DEF Driving, IInv, TypeOK
<1> HIDE DEF s, rest, o
<1>9. /\ Chain(script[th])'
      /\ \/ o.to = "queued" /\ ~Pending /\ run = "queued" /\ ~HasApproval(o.arg, "denied")
         \/ /\ o.to = "failed"
            /\ \E a \in Range(rest) : Breaks(a)
            /\ \E a \in Range(rest) : Replaces(a)
  <2>1. ASSUME ~Pending, run = "queued", NEW t \in Tasks, ~HasApproval(t, "denied"),
               \/ One(s, For(t, TaskTo("queued")))
               \/ Two(s, For(t, TaskTo("queued")), JobTo("queued"))
        PROVE  Chain(script[th])' /\ o.to = "queued" /\ o.arg = t
    <3>1. o.to = "queued" /\ o.arg = t
      BY <2>1 DEF One, Two, For, TaskTo, o
    <3>2. rest = <<>> \/ One(rest, JobTo("queued"))
      BY <2>1 DEF One, Two, rest
    <3>3. Chain(script[th])'
      BY <1>1, <1>5, <1>6, <2>1, <3>2 DEF Chain
    <3>. QED  BY <3>1, <3>3
  <2>2. ASSUME Pending => job.status # "queued",
               Three(s, TaskTo("failed"), RunTo("failed"), JobTo("failed"))
        PROVE  /\ Chain(script[th])' /\ o.to = "failed"
               /\ \E a \in Range(rest) : Breaks(a)
               /\ \E a \in Range(rest) : Replaces(a)
    <3>1. o.to = "failed" /\ Two(rest, RunTo("failed"), JobTo("failed"))
      BY <2>2 DEF Three, TaskTo, o, rest
    <3>2. Chain(script[th])'
      BY <1>1, <1>5, <1>6, <2>2, <3>1 DEF Chain, FailsRun
    <3>3. Head(rest) \in Range(rest) /\ Head(rest) \in RunTo("failed")
      BY <1>3, <3>1, ScriptNext DEF Two
    <3>4. Breaks(Head(rest)) /\ Replaces(Head(rest))
      BY <3>3 DEF Breaks, Ends, Replaces, RunTo
    <3>. QED  BY <3>1, <3>2, <3>3, <3>4
  <2>. QED  BY <1>1, <1>2, <2>1, <2>2, ChainAt DEF o
<1>10. \A t \in Tasks : HasApproval(t, "denied")' =>
         task'[t] = "failed" \/ \E a \in Range(rest) : Denies(a, t)
  BY <1>2, <1>3, <1>6, <1>8, <1>9 DEF Denies
<1>11. Pending' => Pending /\ \E a \in Range(rest) : Breaks(a)
  BY <1>6, <1>9
<1>12. \A t \in Tasks : task'[t] = "running" => task[t] = "running"
  BY <1>8, <1>9
<1>13. run' = "blocked" => \E a \in Range(rest) : Replaces(a)
  BY <1>1, <1>9
<1>14. /\ \A a \in Range(rest) : ActsOn(a) => Acts \/ Pending
       /\ \A t \in Tasks : ~HasApproval(t, "denied")' \/ HasApproval(t, "denied") \/ Pending
  BY <1>2, <1>3, <1>6
<1>. QED  BY <1>1, <1>4, <1>7, <1>9, <1>10, <1>11, <1>12, <1>13, <1>14, DriveClient

LEMMA ClientReadsJob ==
  ASSUME Recoverable, Driving, NEW th \in ByClient, JobRead(th)
  PROVE  DriveInv'
<1> DEFINE s    == script[th]
           o    == Head(s)
           next == NextJob(o.to, o.runner)
           save == Op("save", 0, next.status, next.runner, FALSE, FALSE)
<1>1. /\ s # <<>> /\ MayRun(th) /\ At(th, "job") /\ o.op = "job"
      /\ UNCHANGED <<run, task, job, approvals, proc>>
  BY DEF JobRead, At, store, Idle
<1>2. /\ th \in Threads /\ s \in Seq(Ops) /\ Chain(s)
      /\ \A t \in Tasks : HasApproval(t, "denied") =>
           task[t] = "failed" \/ \E a \in Range(s) : Denies(a, t)
      /\ Pending => Held \/ job.status \in Halted \/ \E a \in Range(s) : Breaks(a)
  BY <1>1, AtClient
<1>3. /\ run # "blocked" /\ \E to \in { "paused", "cancelled", "queued", "failed" } : One(s, JobTo(to))
      /\ One(s, JobTo("failed")) => (Pending => job.status # "queued")
      /\ One(s, JobTo("paused")) \/ One(s, JobTo("cancelled")) \/ One(s, JobTo("failed")) => Left
      /\ One(s, JobTo("queued")) => ~Pending /\ run = "queued"
  <2>1. \A x, y : One(s, JobTo(x)) /\ One(s, JobTo(y)) => x = y
    BY DEF One, JobTo
  <2>2. \/ Left /\ (One(s, JobTo("paused")) \/ One(s, JobTo("cancelled")))
        \/ ~Pending /\ run = "queued" /\ One(s, JobTo("queued"))
        \/ Left /\ (Pending => job.status # "queued") /\ One(s, JobTo("failed"))
    BY <1>1, <1>2, ChainAt
  <2>3. run # "blocked"
    BY <2>2 DEF Left
  <2>. QED  BY <2>1, <2>2, <2>3
<1>4. PICK to \in { "paused", "cancelled", "queued", "failed" } : One(s, JobTo(to))
  BY <1>3
<1>5. /\ Tail(s) = <<>> /\ <<>> \o Tail(s) = <<>> /\ Range(s) = { o }
      /\ o \in JobTo(to)
  BY <1>2, <1>4, OneNext
<1>6. save \in Ops /\ save.op = "save" /\ save.to = o.to
  BY <1>1, <1>2, SaveMade DEF Driving
<1> HIDE DEF save
<1>7. << save >> \in Seq(Ops)
  BY <1>6, Tuples
<1>8. << save >> \o Tail(s) = << save >>
  BY <1>5, <1>7, ConcatEmptySeq
<1>9. \/ Does(th, << save >>)
      \/ /\ ~(o.to = job.status \/ CanTransition(job.status, o.to))
         /\ Does(th, <<>>)
  BY <1>5, <1>8 DEF JobRead, Follow, save, next, o, s
<1> HIDE DEF s, o
<1>10. Range(<< save >>) = { save } /\ save \in JobTo(to)
  BY <1>5, <1>6, ShapeShort DEF JobTo
<1>11. One(<< save >>, JobTo(to)) /\ One(s, JobTo(to))
  BY <1>4, <1>10, Written
<1>12. Chain(<< save >>) /\ Chain(<<>>)
  <2>1. Chain(<<>>)
    BY DEF Chain
  <2>2. CASE to \in { "paused", "cancelled" }
    BY <1>3, <1>11, <2>1, <2>2 DEF Chain
  <2>3. CASE to = "queued"
    BY <1>3, <1>11, <2>1, <2>3 DEF Chain
  <2>4. CASE to = "failed"
    BY <1>3, <1>11, <2>1, <2>4 DEF Chain
  <2>. QED  BY <2>2, <2>3, <2>4
<1>13. \A t \in Tasks : HasApproval(t, "denied") => task[t] = "failed"
  BY <1>2, <1>5 DEF Denies, JobTo
<1>14. to = "failed" <=> Breaks(o)
  BY <1>5 DEF Breaks, Ends, JobTo
<1>15. CASE Does(th, << save >>)
  <2>1. to = "failed" => Breaks(save)
    BY <1>10 DEF Breaks, Ends, JobTo
  <2>2. Pending => Held \/ job.status \in Halted \/ \E a \in Range(<< save >>) : Breaks(a)
    BY <1>2, <1>5, <1>10, <1>14, <2>1
  <2>3. ~ActsOn(save)
    BY <1>6 DEF ActsOn
  <2>. QED  BY <1>1, <1>3, <1>10, <1>12, <1>13, <1>15, <2>2, <2>3, ClientReads
<1>16. CASE Does(th, <<>>) /\ ~(o.to = job.status \/ CanTransition(job.status, o.to))
  <2>1. Range(<<>>) = {}
    BY ShapeShort
  <2>2. Pending /\ to = "failed" => job.status \in Halted
    <3>1. to = "failed" => o.to = "failed"
      BY <1>5 DEF JobTo
    <3>2. job.status \in JobStatus
      BY DEF Driving, IInv, TypeOK
    <3>3. to = "failed" => job.status \notin { "claimed", "running", "blocked" }
      BY <1>16, <3>1 DEF CanTransition, JobMoves
    <3>4. to = "failed" /\ Pending => job.status # "queued"
      BY <1>3, <1>11
    <3>. QED  BY <3>2, <3>3, <3>4 DEF JobStatus, Halted, Terminal
  <2>3. Pending => Held \/ job.status \in Halted
    BY <1>2, <1>5, <1>14, <2>2
  <2>. QED  BY <1>1, <1>3, <1>12, <1>13, <1>16, <2>1, <2>3, ClientReads
<1>. QED  BY <1>9, <1>15, <1>16

LEMMA ClientSetsJob ==
  ASSUME Recoverable, Driving, NEW th \in ByClient, JobWrite(th)
  PROVE  DriveInv'
<1> DEFINE s == script[th]
           o == Head(s)
<1>1. /\ s # <<>> /\ MayRun(th) /\ o.op = "save" /\ Follow(th, <<>>)
      /\ UNCHANGED <<run, task, approvals, proc>> /\ job'.status = o.to
  BY DEF JobWrite, At, Idle, To
<1>2. /\ th \in Threads /\ s \in Seq(Ops) /\ Chain(s) /\ Apart
      /\ \A t \in Tasks : HasApproval(t, "denied") =>
           task[t] = "failed" \/ \E a \in Range(s) : Denies(a, t)
  BY <1>1, AtClient
<1>3. PICK to \in { "paused", "cancelled", "queued", "failed" } :
        /\ One(s, JobTo(to))
        /\ run \notin { "running", "blocked" } /\ (to = "queued" => ~Pending)
  <2>1. \/ Left /\ (One(s, JobTo("paused")) \/ One(s, JobTo("cancelled")))
        \/ ~Pending /\ run = "queued" /\ One(s, JobTo("queued"))
        \/ Left /\ (Pending => job.status # "queued") /\ One(s, JobTo("failed"))
    BY <1>1, <1>2, ChainAt
  <2>2. run \notin { "running", "blocked" }
    BY <2>1 DEF Left
  <2>. QED  BY <2>1, <2>2
<1>4. <<>> \o Tail(s) = <<>> /\ Range(s) = { o } /\ o \in JobTo(to)
  BY <1>2, <1>3, OneNext
<1>5. Does(th, <<>>) /\ Range(<<>>) = {}
  BY <1>1, <1>4, ShapeShort DEF Follow
<1>6. Chain(script[th])'
  <2>1. script'[th] = <<>>
    BY <1>2, <1>5, ComingAfter DEF Driving
  <2>. QED  BY <2>1 DEF Chain
<1>7. /\ Pending' = Pending /\ Held' = Held /\ Apart' = Apart
      /\ \A t : HasApproval(t, "denied")' = HasApproval(t, "denied")
  BY <1>1, DecisionsKept
<1>8. \A t \in Tasks : HasApproval(t, "denied")' => task'[t] = "failed"
  BY <1>1, <1>2, <1>4, <1>7 DEF Denies
<1>9. Pending' => Pending /\ job'.status \in Halted
  BY <1>1, <1>3, <1>4, <1>7 DEF JobTo, Halted, Terminal
<1> HIDE DEF s, o
<1>. QED  BY <1>1, <1>2, <1>3, <1>5, <1>6, <1>7, <1>8, <1>9, DriveClient

LEMMA ClientFails ==
  ASSUME Recoverable, Driving, NEW th \in ByClient, Failing(th)
  PROVE  DriveInv'
<1> DEFINE s == script[th]
<1>1. /\ s # <<>> /\ MayRun(th) /\ Head(s).op = "fail"
      /\ UNCHANGED <<run, task, job, approvals, proc>>
  BY DEF Failing, At, store, Idle
<1>2. /\ th \in Threads /\ s \in Seq(Ops) /\ Chain(s)
      /\ \A t \in Tasks : HasApproval(t, "denied") =>
           task[t] = "failed" \/ \E a \in Range(s) : Denies(a, t)
  BY <1>1, AtClient
<1>3. (Pending => job.status # "queued") /\ One(s, Doing("fail"))
  BY <1>1, <1>2, ChainAt
<1>4. Tail(s) = <<>> /\ Range(s) = { Head(s) }
  BY <1>2, <1>3, OneNext
<1>5. PICK r \in Seq(Ops) :
        /\ Does(th, r)
        /\ \/ /\ Three(r, TaskTo("failed"), RunTo("failed"), JobTo("failed"))
              /\ Arg(th) # 0 => Head(r).arg = Arg(th)
           \/ Arg(th) = 0 /\ Two(r, RunTo("failed"), JobTo("failed"))
  BY <1>2, <1>4, FailsMade DEF Driving
<1>6. Chain(r) /\ r # <<>>
  BY <1>3, <1>5 DEF Chain, FailsRun, Two, Three
<1>7. /\ \A o \in Range(r) : o.to = "failed" /\ o.op # "decided"
      /\ \E o \in Range(r) : Breaks(o)
      /\ \E o \in Range(r) : Replaces(o)
  <2>1. CASE Three(r, TaskTo("failed"), RunTo("failed"), JobTo("failed"))
    <3>1. Head(r) \in TaskTo("failed")
      BY <2>1 DEF Three
    <3>2. PICK b \in RunTo("failed"), c \in JobTo("failed") : Range(r) = { Head(r), b, c }
      BY <2>1, ThreeNext
    <3>. QED  BY <3>1, <3>2 DEF Breaks, Ends, Replaces, TaskTo, RunTo, JobTo
  <2>2. CASE Two(r, RunTo("failed"), JobTo("failed"))
    <3>1. /\ Head(r) \in RunTo("failed") /\ Head(Tail(r)) \in JobTo("failed")
          /\ Range(r) = { Head(r), Head(Tail(r)) }
      BY <2>2, TwoNext
    <3>. QED  BY <3>1 DEF Breaks, Ends, Replaces, RunTo, JobTo
  <2>. QED  BY <1>5, <2>1, <2>2
<1>8. \A o \in Range(r) : ~ActsOn(o)
  BY <1>7 DEF ActsOn
<1>9. ASSUME NEW t \in Tasks, HasApproval(t, "denied")
      PROVE  task[t] = "failed" \/ \E o \in Range(r) : Denies(o, t)
  <2> SUFFICES ASSUME Denies(Head(s), t) PROVE \E o \in Range(r) : Denies(o, t)
    BY <1>2, <1>4, <1>9
  <2>1. Arg(th) = t /\ t # 0
    BY DEF Denies, Arg, Tasks
  <2>2. Three(r, TaskTo("failed"), RunTo("failed"), JobTo("failed")) /\ Head(r).arg = t
    BY <1>5, <2>1
  <2>3. Head(r) \in Range(r) /\ Head(r) \in TaskTo("failed")
    BY <1>6, <2>2, ScriptNext DEF Three
  <2>. QED  BY <2>2, <2>3 DEF Denies, TaskTo
<1>. QED  BY <1>1, <1>5, <1>6, <1>7, <1>8, <1>9, ClientReads

\* Two short scripts, one after the other.
LEMMA Joined ==
  ASSUME NEW a \in Ops, NEW b \in Ops, NEW c \in Ops
  PROVE  /\ << a >> \o << b >> = << a, b >> /\ << a, b >> \o << c >> = << a, b, c >>
         /\ << a >> \o <<>> = << a >> /\ << a, b >> \o <<>> = << a, b >>
<1>1. << a >> \in Seq(Ops) /\ << a, b >> \in Seq(Ops)
  BY Tuples
<1>2. << a >> \o << b >> = << a, b >>
  <2> DEFINE s == << a >>
             t == << b >>
             r == << a, b >>
  <2>1. /\ s \in Seq(Ops) /\ t \in Seq(Ops) /\ r \in Seq(Ops)
        /\ Len(s) = 1 /\ Len(t) = 1 /\ Len(r) = 2
        /\ s[1] = a /\ t[1] = b /\ r[1] = a /\ r[2] = b
    BY Tuples
  <2> HIDE DEF s, t, r
  <2>2. s \o t = r
    BY <2>1, ConcatProperties, SeqEqual
  <2>. QED  BY <2>2 DEF s, t, r
<1>3. << a, b >> \o << c >> = << a, b, c >>
  <2> DEFINE s == << a, b >>
             t == << c >>
             r == << a, b, c >>
  <2>1. /\ s \in Seq(Ops) /\ t \in Seq(Ops) /\ r \in Seq(Ops)
        /\ Len(s) = 2 /\ Len(t) = 1 /\ Len(r) = 3
        /\ s[1] = a /\ s[2] = b /\ t[1] = c /\ r[1] = a /\ r[2] = b /\ r[3] = c
    BY Tuples
  <2> HIDE DEF s, t, r
  <2> DEFINE w == s \o t
  <2>2. /\ w \in Seq(Ops) /\ Len(w) = Len(s) + Len(t)
        /\ \A i \in 1..(Len(s) + Len(t)) : w[i] = IF i <= Len(s) THEN s[i] ELSE t[i - Len(s)]
    BY <2>1, ConcatProperties
  <2> HIDE DEF w
  <2>3. /\ w \in Seq(Ops) /\ Len(w) = 3
        /\ \A i \in 1..3 : w[i] = IF i <= 2 THEN s[i] ELSE t[i - 2]
    BY <2>1, <2>2
  <2>4. w = r
    BY <2>1, <2>3, SeqEqual
  <2>. QED  BY <2>4 DEF w, s, t, r
<1>. QED  BY <1>1, <1>2, <1>3, ConcatEmptySeq

\* approvals.decide goes on after its write.
LEMMA ClientDecided ==
  ASSUME Recoverable, Driving, NEW th \in Threads, Decided(th)
  PROVE  DriveInv'
<1> DEFINE s == script[th]
           o == Head(s)
           t == o.arg
           a == SetRun("queued", FALSE)
           b == SetTask(t, "queued", FALSE)
           c == SetJob("queued", Keep)
           f == FailRun(t)
<1>1. /\ ~Idle(th) /\ s # <<>> /\ MayRun(th) /\ o.op = "decided"
      /\ UNCHANGED <<run, task, job, approvals, proc>>
  BY DEF Decided, At, store, Idle
<1>2. th \in ByClient
  BY <1>1, OnOneSide
<1>3. /\ s \in Seq(Ops) /\ Chain(s)
      /\ \A x \in Tasks : HasApproval(x, "denied") =>
           task[x] = "failed" \/ \E e \in Range(s) : Denies(e, x)
      /\ \A e \in Range(s) : ActsOn(e) => Acts
  BY <1>1, <1>2, AtClient
<1>4. ~Pending /\ \/ One(s, Verdict("denied"))
                  \/ \E x \in Tasks : ~HasApproval(x, "denied") /\ One(s, For(x, Verdict("approved")))
  BY <1>1, <1>3, ChainAt
<1>5. Range(s) = { o } /\ Acts
  <2>1. \E A : One(s, A)
    BY <1>4
  <2>2. Range(s) = { o }
    BY <1>3, <2>1, OneNext
  <2>. QED  BY <1>1, <1>3, <2>2 DEF ActsOn
<1>6. t \in Tasks
  BY <1>1, <1>3, ScriptNext, OpShape
<1>7. /\ a \in RunTo("queued") /\ b \in For(t, TaskTo("queued")) /\ c \in JobTo("queued")
      /\ f \in Doing("fail") /\ f.arg = t
  BY <1>6, AccessMade DEF RunStatus, TaskStatus, JobStatus, For
<1>8. \/ o.to = "approved" /\ (Does(th, << a, b >> \o << c >>) \/ Does(th, << a, b >> \o <<>>))
      \/ o.to = "denied" /\ Does(th, << f >>)
  BY DEF Decided, To, Arg
<1> HIDE DEF s, o, t, a, b, c, f
<1>9. CASE o.to = "denied" /\ Does(th, << f >>)
  <2>1. One(<< f >>, Doing("fail")) /\ Range(<< f >>) = { f }
    BY <1>7, Written, ShapeShort
  <2>2. Chain(<< f >>)
    BY <1>4, <2>1 DEF Chain, FailsRun
  <2>3. \A x \in Tasks : HasApproval(x, "denied") => task[x] = "failed" \/ Denies(f, x)
    BY <1>1, <1>3, <1>5, <1>7 DEF Denies, Doing, t
  <2>4. Replaces(f) /\ ~ActsOn(f)
    BY <1>7 DEF Replaces, ActsOn, Doing
  <2> DEFINE r == << f >>
  <2>5. Does(th, r) /\ Chain(r) /\ Range(r) = { f }
    BY <1>9, <2>1, <2>2
  <2> HIDE DEF r
  <2>. QED  BY <1>1, <1>2, <1>4, <2>3, <2>4, <2>5, ClientReads
<1>10. CASE o.to = "approved" /\ (Does(th, << a, b >> \o << c >>) \/ Does(th, << a, b >> \o <<>>))
  <2>1. ~HasApproval(t, "denied")
    <3>1. ~One(s, Verdict("denied"))
      BY <1>10 DEF One, Verdict, o
    <3>2. PICK x \in Tasks : ~HasApproval(x, "denied") /\ One(s, For(x, Verdict("approved")))
      BY <1>4, <3>1
    <3>3. x = t
      BY <3>2 DEF One, For, o, t
    <3>. QED  BY <3>2, <3>3
  <2>2. << a, b >> \o << c >> = << a, b, c >> /\ << a, b >> \o <<>> = << a, b >>
    BY <1>7, Joined DEF RunTo, TaskTo, JobTo, For
  <2>3. /\ Two(<< a, b >>, RunTo("queued"), For(t, TaskTo("queued")))
        /\ Three(<< a, b, c >>, RunTo("queued"), For(t, TaskTo("queued")), JobTo("queued"))
    BY <1>7, Written
  <2>4. Chain(<< a, b >>) /\ Chain(<< a, b, c >>)
    BY <1>4, <1>6, <2>1, <2>3 DEF Chain
  <2>5. Range(<< a, b >>) = { a, b } /\ Range(<< a, b, c >>) = { a, b, c }
    BY DEF Range
  <2>6. PICK r : Does(th, r) /\ Chain(r) /\ a \in Range(r)
    BY <1>10, <2>2, <2>4, <2>5
  <2>7. \A x \in Tasks : HasApproval(x, "denied") => task[x] = "failed"
    BY <1>1, <1>3, <1>5, <1>10 DEF Denies
  <2>8. Replaces(a)
    BY <1>7 DEF Replaces, RunTo
  <2>. QED  BY <1>1, <1>2, <1>4, <1>5, <2>6, <2>7, <2>8, ClientReads
<1>. QED  BY <1>8, <1>9, <1>10

\* An approved approval that expires was not pending and is not denied.
LEMMA ClientExpires ==
  ASSUME Recoverable, Driving, NEW th \in Threads, ExpireWrite(th)
  PROVE  DriveInv'
<1> DEFINE s == script[th]
           i == Head(s).arg
<1>1. /\ ~Idle(th) /\ s # <<>> /\ MayRun(th) /\ Head(s).op = "expire" /\ Follow(th, <<>>)
      /\ UNCHANGED <<run, task, job, proc>>
      /\ approvals' = [approvals EXCEPT ![i].status = "expired"]
  BY DEF ExpireWrite, At, Idle, Arg
<1>2. th \in ByClient
  BY <1>1, OnOneSide
<1>3. /\ th \in Threads /\ s \in Seq(Ops) /\ Chain(s) /\ Apart
      /\ \A x \in Tasks : HasApproval(x, "denied") =>
           task[x] = "failed" \/ \E e \in Range(s) : Denies(e, x)
      /\ Pending => Held \/ job.status \in Halted \/ \E e \in Range(s) : Breaks(e)
      /\ run = "blocked" => Held \/ \E e \in Range(s) : Replaces(e)
      /\ Overwrites <=> \E e \in Range(s) : Replaces(e)
  BY <1>1, <1>2, AtClient
<1>4. /\ i \in DOMAIN approvals /\ approvals[i].status = "approved"
      /\ Range(s) = { Head(s) } /\ <<>> \o Tail(s) = <<>>
  <2>1. PICK k \in DOMAIN approvals :
          approvals[k].status = "approved" /\ One(s, For(k, Doing("expire")))
    BY <1>1, <1>3, ChainAt
  <2>2. k = i
    BY <2>1 DEF One, For
  <2>. QED  BY <1>3, <2>1, <2>2, OneNext
<1>5. ~Breaks(Head(s)) /\ ~Replaces(Head(s)) /\ \A x : ~Denies(Head(s), x)
  BY <1>1 DEF Breaks, Ends, Replaces, Denies
<1>6. Does(th, <<>>) /\ Range(<<>>) = {}
  BY <1>1, <1>4, ShapeShort DEF Follow
<1>7. Chain(script[th])'
  <2>1. script'[th] = <<>>
    BY <1>3, <1>6, ComingAfter DEF Driving
  <2>. QED  BY <2>1 DEF Chain
<1> HIDE DEF s, i
<1>8. \A k \in DOMAIN approvals : approvals[k] \in [task : Tasks, status : ApprovalStatus]
  <2>1. approvals \in Seq([task : Tasks, status : ApprovalStatus])
    BY DEF Driving, IInv, TypeOK
  <2>. QED  BY <2>1, LenProperties, ElementOfSeq
<1>9. /\ DOMAIN approvals' = DOMAIN approvals
      /\ \A k \in DOMAIN approvals : k # i => approvals'[k] = approvals[k]
      /\ approvals'[i].status = "expired" /\ approvals'[i].task = approvals[i].task
  <2>1. approvals[i] \in [task : Tasks, status : ApprovalStatus]
    BY <1>4, <1>8
  <2>. QED  BY <1>1, <1>4, <2>1
<1>10. ASSUME NEW x, NEW status \in { "pending", "denied" }
       PROVE  HasApproval(x, status)' = HasApproval(x, status)
  <2>1. approvals[i] # [task |-> x, status |-> status] /\ approvals'[i] # [task |-> x, status |-> status]
    BY <1>4, <1>9
  <2>. QED  BY <1>9, <2>1 DEF HasApproval
<1>11. Pending' = Pending
  BY <1>4, <1>9 DEF Pending
<1>12. Held' = Held
  <2>1. \A t \in Tasks : IsNext(t)' = IsNext(t)
    BY <1>1 DEF IsNext, Waiting
  <2>. QED  BY <1>10, <2>1 DEF Held
<1>13. Apart'
  <2>1. \A k \in DOMAIN approvals' :
          /\ approvals'[k].task = approvals[k].task
          /\ approvals'[k].status = "pending" => approvals[k].status = "pending"
    BY <1>9
  <2>2. \A t \in Tasks : ~HasApproval(t, "pending")' \/ ~HasApproval(t, "denied")'
    BY <1>3, <1>10 DEF Apart
  <2>. QED  BY <1>3, <1>9, <2>1, <2>2 DEF Apart
<1>14. \A x \in Tasks : HasApproval(x, "denied")' => task'[x] = "failed"
  BY <1>1, <1>3, <1>4, <1>5, <1>10
<1>15. Pending' => Pending /\ (Held' \/ job'.status \in Halted)
  BY <1>1, <1>3, <1>4, <1>5, <1>11, <1>12
<1>16. run' = "blocked" => run = "blocked" /\ ~Overwrites /\ Held' /\ job'.status = job.status
  BY <1>1, <1>3, <1>4, <1>5, <1>12
<1>17. \A x \in Tasks : ~HasApproval(x, "denied")' \/ HasApproval(x, "denied") \/ Pending
  BY <1>10
<1>. QED  BY <1>1, <1>2, <1>6, <1>7, <1>13, <1>14, <1>15, <1>16, <1>17, DriveClient

\* A new request.
LEMMA ClientAsks ==
  ASSUME Recoverable, Driving, NEW th \in Threads,
         Pause(th) \/ Cancel(th) \/ Expire(th) \/ ReportFailure(th)
  PROVE  DriveInv'
<1>1. /\ th \in ByClient /\ MayRun(th) /\ script[th] = <<>>
      /\ UNCHANGED <<run, task, job, approvals, proc>>
  BY DEF Pause, Cancel, Expire, ReportFailure, Request, ByClient, Idle, store
<1>2. Range(script[th]) = {}
  BY <1>1, ShapeShort
<1>3. /\ \A x \in Tasks : HasApproval(x, "denied") => task[x] = "failed"
      /\ Pending => Held \/ job.status \in Halted
      /\ ~Overwrites
  BY <1>1, <1>2, AtClient
<1>4. ASSUME NEW r, Does(th, r), Chain(r), \A o \in Range(r) : ~ActsOn(o),
             run = "blocked" => ~Overwrites \/ \E o \in Range(r) : Replaces(o)
      PROVE  DriveInv'
  BY <1>1, <1>3, <1>4, ClientReads
<1>5. job.runner \in RunnerIds \cup { NoRunner }
  BY DEF Driving, IInv, TypeOK
<1>6. CASE Pause(th) \/ Cancel(th)
  <2>1. PICK to \in { "paused", "cancelled" } :
          /\ to = "paused" => run \in { "queued", "running" }
          /\ to = "cancelled" => run \notin Terminal
          /\ \/ Does(th, << SetRun(to, FALSE) >> \o << SetJob(to, job.runner) >>)
             \/ Does(th, << SetRun(to, FALSE) >> \o <<>>)
    BY <1>6 DEF Pause, Cancel
  <2> DEFINE a == SetRun(to, FALSE)
             b == SetJob(to, job.runner)
  <2>2. a \in RunTo(to) /\ b \in JobTo(to)
    BY <1>5, AccessMade DEF RunStatus, JobStatus
  <2>3. /\ to = "paused" => run \in { "queued", "running" }
        /\ to = "cancelled" => run \notin Terminal
        /\ Does(th, << a >> \o << b >>) \/ Does(th, << a >> \o <<>>)
    BY <2>1
  <2> HIDE DEF a, b
  <2>4. << a >> \o << b >> = << a, b >> /\ << a >> \o <<>> = << a >>
    BY <2>2, Joined DEF RunTo, JobTo
  <2>5. One(<< a >>, RunTo(to)) /\ Two(<< a, b >>, RunTo(to), JobTo(to))
    BY <2>2, Written
  <2>6. Chain(<< a >>) /\ Chain(<< a, b >>)
    <3>1. CASE to = "paused"
      BY <2>3, <2>5, <3>1 DEF Chain
    <3>2. CASE to = "cancelled"
      BY <2>3, <2>5, <3>2 DEF Chain
    <3>. QED  BY <3>1, <3>2
  <2>7. Range(<< a >>) = { a } /\ Range(<< a, b >>) = { a, b }
    BY DEF Range
  <2>8. ~ActsOn(a) /\ ~ActsOn(b)
    BY <2>2 DEF ActsOn, RunTo, JobTo
  <2>9. PICK r : Does(th, r) /\ Chain(r) /\ \A o \in Range(r) : ~ActsOn(o)
    BY <2>3, <2>4, <2>6, <2>7, <2>8
  <2>. QED  BY <1>3, <1>4, <2>9
<1>7. CASE Expire(th)
  <2>1. PICK i \in DOMAIN approvals :
          approvals[i].status = "approved" /\ Does(th, << Then("expire", i, "") >>)
    BY <1>7 DEF Expire
  <2>2. i \in Nat
    <3>1. approvals \in Seq([task : Tasks, status : ApprovalStatus])
      BY DEF Driving, IInv, TypeOK
    <3>2. i \in 1..Len(approvals)
      BY <2>1, <3>1, LenProperties
    <3>. QED  BY <3>2
  <2> DEFINE o == Then("expire", i, "")
             r == << o >>
  <2>3. o \in For(i, Doing("expire")) /\ Does(th, r)
    BY <2>1, <2>2, AccessMade
  <2> HIDE DEF o
  <2>4. One(r, For(i, Doing("expire"))) /\ Range(r) = { o }
    BY <2>3, Written, ShapeShort
  <2> HIDE DEF r
  <2>5. Chain(r)
    BY <2>1, <2>4 DEF Chain
  <2>6. ~ActsOn(o)
    BY <2>3 DEF ActsOn, For, Doing
  <2>. QED  BY <1>3, <1>4, <2>3, <2>4, <2>5, <2>6
<1>8. CASE ReportFailure(th)
  <2> DEFINE o == FailRun(0)
             r == << o >>
  <2>1. o \in Doing("fail") /\ Does(th, r) /\ job.status # "queued"
    BY <1>8, AccessMade DEF ReportFailure
  <2> HIDE DEF o
  <2>2. One(r, Doing("fail")) /\ Range(r) = { o }
    BY <2>1, Written, ShapeShort
  <2> HIDE DEF r
  <2>3. Chain(r)
    BY <2>1, <2>2 DEF Chain, FailsRun
  <2>4. ~ActsOn(o)
    BY <2>1 DEF ActsOn, Doing
  <2>. QED  BY <1>3, <1>4, <2>1, <2>2, <2>3, <2>4
<1>. QED  BY <1>6, <1>7, <1>8

\* A decision of the pending approval: none is pending any more.
LEMMA ClientDecides ==
  ASSUME Recoverable, Driving, NEW th \in Threads, Decide(th)
  PROVE  DriveInv'
<1>1. /\ th \in ByClient /\ MayRun(th) /\ script[th] = <<>>
      /\ UNCHANGED <<run, task, job, proc>>
  BY DEF Decide, Request, ByClient, Idle
<1>2. PICK i \in DOMAIN approvals :
        \E verdict \in { "approved", "denied" } :
          /\ Request(th, IF approvals[i].status = "pending" THEN "decide" ELSE "redecide")
          /\ approvals' = [approvals EXCEPT ![i].status = verdict]
          /\ Does(th, << Then("decided", approvals[i].task, verdict) >>)
  BY DEF Decide
<1>3. PICK verdict \in { "approved", "denied" } :
          /\ Request(th, IF approvals[i].status = "pending" THEN "decide" ELSE "redecide")
          /\ approvals' = [approvals EXCEPT ![i].status = verdict]
          /\ Does(th, << Then("decided", approvals[i].task, verdict) >>)
  BY <1>2
<1>4. approvals[i].status = "pending"
  BY <1>3 DEF Request, Recoverable
<1>5. \A k \in DOMAIN approvals : approvals[k] \in [task : Tasks, status : ApprovalStatus]
  <2>1. approvals \in Seq([task : Tasks, status : ApprovalStatus])
    BY DEF Driving, IInv, TypeOK
  <2>. QED  BY <2>1, LenProperties, ElementOfSeq
<1>6. PICK t \in Tasks : approvals[i] = [task |-> t, status |-> "pending"]
  BY <1>4, <1>5
<1> DEFINE o == Then("decided", t, verdict)
           r == << o >>
<1>7. /\ DOMAIN approvals' = DOMAIN approvals
      /\ \A k \in DOMAIN approvals : k # i => approvals'[k] = approvals[k]
      /\ approvals'[i] = [task |-> t, status |-> verdict]
  BY <1>3, <1>6
<1>8. Range(script[th]) = {} /\ th \in Threads
  BY <1>1, ShapeShort, Sides
<1>9. /\ Apart /\ \A x \in Tasks : HasApproval(x, "denied") => task[x] = "failed"
  BY <1>1, <1>8, AtClient
<1>10. Pending /\ HasApproval(t, "pending") /\ ~HasApproval(t, "denied")
  <2>1. HasApproval(t, "pending")
    BY <1>6 DEF HasApproval
  <2>. QED  BY <1>4, <1>9, <2>1 DEF Pending, Apart
<1>11. o \in For(t, Verdict(verdict)) /\ o \in Verdict(verdict) /\ Does(th, r)
  <2>1. approvals[i].task = t
    BY <1>6
  <2>. QED  BY <1>3, <2>1, AccessMade
<1> HIDE DEF o
<1>12. One(r, For(t, Verdict(verdict))) /\ One(r, Verdict(verdict)) /\ Range(r) = { o }
  BY <1>11, Written, ShapeShort
<1> HIDE DEF r
<1>13. ~Pending' /\ \A x : ~HasApproval(x, "pending")'
  <2>1. \A k \in DOMAIN approvals' : approvals'[k].status # "pending"
    <3>1. \A k \in DOMAIN approvals : k # i => approvals[k].status # "pending"
      BY <1>4, <1>9 DEF Apart
    <3>. QED  BY <1>7, <3>1
  <2>. QED  BY <2>1 DEF Pending, HasApproval
<1>14. \A x : HasApproval(x, "denied")' => HasApproval(x, "denied") \/ (x = t /\ verdict = "denied")
  <2> SUFFICES ASSUME NEW x, NEW k \in DOMAIN approvals,
                      approvals'[k] = [task |-> x, status |-> "denied"]
               PROVE  HasApproval(x, "denied") \/ (x = t /\ verdict = "denied")
    BY <1>7 DEF HasApproval
  <2>1. CASE k = i
    <3>1. [task |-> t, status |-> verdict] = [task |-> x, status |-> "denied"]
      BY <1>7, <2>1
    <3>. QED  BY <3>1
  <2>2. CASE k # i
    BY <1>7, <2>2 DEF HasApproval
  <2>. QED  BY <2>1, <2>2
<1>15. Apart'
  <2>1. \A k \in DOMAIN approvals' : approvals'[k].task \in NeedsApproval
    BY <1>6, <1>7, <1>9 DEF Apart
  <2>2. \A k \in DOMAIN approvals' : approvals'[k].status # "pending"
    BY <1>13 DEF Pending
  <2>. QED  BY <1>13, <2>1, <2>2 DEF Apart
<1>16. script'[th] = r
  BY <1>8, <1>11, ComingAfter DEF Driving
<1>17. Chain(script[th])'
  <2>1. CASE verdict = "denied"
    BY <1>12, <1>13, <1>16, <2>1 DEF Chain
  <2>2. CASE verdict = "approved"
    <3>1. ~HasApproval(t, "denied")'
      BY <1>10, <1>14, <2>2
    <3>. QED  BY <1>6, <1>12, <1>13, <1>16, <2>2, <3>1 DEF Chain
  <2>. QED  BY <2>1, <2>2
<1>18. \A x \in Tasks : HasApproval(x, "denied")' =>
         task'[x] = "failed" \/ \E e \in Range(r) : Denies(e, x)
  <2>1. verdict = "denied" => Denies(o, t)
    BY <1>11 DEF Denies, For, Verdict
  <2>. QED  BY <1>1, <1>9, <1>12, <1>14, <2>1
<1>19. Replaces(o)
  BY <1>11 DEF Replaces, For, Verdict
<1>. QED  BY <1>1, <1>10, <1>11, <1>12, <1>13, <1>15, <1>17, <1>18, <1>19, DriveClient

---------------------------------------------------------------------------
(* The processes, and every step *)

\* Everything of the runner stops; the store and the requests stay.
LEMMA DriveCrashes ==
  ASSUME Recoverable, Driving, NEW p \in Procs, Crash(p)
  PROVE  DriveInv'
<1>1. /\ p \in Runners /\ (\A th \in ByRunner : Home[th] = p) /\ (\A th \in ByClient : Home[th] # p)
      /\ UNCHANGED <<run, task, job, approvals>> /\ proc' = [proc EXCEPT ![p] = "down"]
      /\ script' = [th \in Threads |-> IF Home[th] = p THEN <<>> ELSE script[th]]
  BY DEF Crash, Recoverable, Attended, ByRunner, ByClient, Clients, store
<1>2. /\ \A th \in ByRunner : script'[th] = <<>> /\ Idle(th)'
      /\ \A th \in ByClient : script'[th] = script[th] /\ Coming(th)' = Coming(th)
  BY <1>1, Sides DEF Idle, Coming
<1>3. Down' /\ \A q \in Procs : proc'[q] \in { "up", "down" }
  BY <1>1 DEF Down, Driving, DriveInv, IInv, TypeOK
<1>4. \A th, u \in Threads : th = u \/ Parked(th)' \/ Parked(u)'
  <2>1. \A th \in ByRunner : Parked(th)'
    BY <1>2 DEF Parked
  <2>2. \A th \in ByClient : Parked(th)' = Parked(th)
    BY <1>2 DEF Parked, Idle
  <2>. QED  BY <2>1, <2>2, Sides DEF Driving, DriveInv
<1>5. /\ Pending' = Pending /\ Held' = Held /\ Apart' = Apart
      /\ \A t : HasApproval(t, "denied")' = HasApproval(t, "denied")
      /\ \A s : Chain(s)' = Chain(s)
  BY <1>1, StoreKept
<1>6. (\A th \in ByRunner : Stage(script[th])') /\ \A th \in ByClient : Chain(script[th])'
  <2>1. \A th \in ByRunner : Stage(script[th])'
    BY <1>2 DEF Stage
  <2>2. \A th \in ByClient : Chain(script[th])'
    BY <1>2, <1>5 DEF Driving, DriveInv
  <2>. QED  BY <2>1, <2>2
<1>7. /\ Overwrites' = Overwrites /\ Fails' = Fails /\ Acts' = Acts
      /\ \A t : Denying(t)' = Denying(t)
  BY <1>2 DEF Overwrites, Fails, Acts, Denying
<1>8. \A t \in Tasks : TaskDriven(t)'
  BY <1>1, <1>3, <1>5 DEF Driving, DriveInv, TaskDriven
<1>9. RunDriven'
  BY <1>1, <1>3, <1>5, <1>7 DEF Driving, DriveInv, RunDriven
<1>10. /\ Apart' /\ (Pending' => Held' \/ job'.status \in Halted \/ Fails')
       /\ \A t \in Tasks : HasApproval(t, "denied")' => task'[t] = "failed" \/ Denying(t)'
  BY <1>1, <1>5, <1>7 DEF Driving, DriveInv
<1>. QED  BY <1>2, <1>3, <1>4, <1>6, <1>8, <1>9, <1>10 DEF DriveInv

\* restoreActiveRuns finds nobody in the middle of anything.
LEMMA DriveBoots ==
  ASSUME Recoverable, Driving, NEW p \in Procs, Boot(p)
  PROVE  DriveInv'
<1>1. /\ proc[p] = "down" /\ (\A th \in Threads : Parked(th))
      /\ UNCHANGED <<approvals, script>> /\ proc' = [proc EXCEPT ![p] = "up"]
      /\ run' = IF run = "running" THEN "queued" ELSE run
      /\ task' = [t \in Tasks |-> IF task[t] = "running" THEN "queued" ELSE task[t]]
      /\ job' = IF job.status \in { "claimed", "running" }
                THEN [status |-> "queued", runner |-> NoRunner] ELSE job
  BY DEF Boot, Recoverable
<1>2. \A th \in ByRunner : Idle(th)
  <2>1. p \in Runners /\ \A th \in ByRunner : Home[th] = p
    BY <1>1 DEF Driving, ExecInv, Recoverable, Attended, ByRunner
  <2>. QED  BY <1>1, <2>1, Sides DEF Driving, ExecInv
<1>3. \A th \in ByClient : Idle(th)
  <2> SUFFICES ASSUME NEW th \in ByClient, ~Idle(th) PROVE FALSE
    OBVIOUS
  <2>1. /\ script[th] \in Seq(Ops) /\ script[th] # <<>> /\ Chain(script[th])
        /\ Head(script[th]).op \in Waits
    BY <1>1, Sides DEF Parked, Idle, Waits, Driving, DriveInv, IInv, TypeOK
  <2>. QED  BY <2>1, ParkedChain
<1>4. \A th \in Threads : script'[th] = <<>> /\ Idle(th)' /\ Coming(th)' = {}
  BY <1>1, <1>2, <1>3, Sides, ShapeShort DEF Idle, Coming
<1>5. ~Overwrites /\ ~Fails /\ ~Acts /\ \A t : ~Denying(t)
  BY <1>3, NoRequest
<1>6. /\ \A t, status : HasApproval(t, status)' = HasApproval(t, status)
      /\ Pending' = Pending /\ Apart' = Apart
  BY <1>1 DEF HasApproval, Pending, Apart
<1>7. \A t \in Tasks : task'[t] = IF task[t] = "running" THEN "queued" ELSE task[t]
  BY <1>1
<1>8. ASSUME Pending \/ run = "blocked" PROVE Held' = Held
  <2>1. \A t \in Tasks : task'[t] = task[t]
    BY <1>7, <1>8 DEF Driving, DriveInv, TaskDriven
  <2>2. \A t \in Tasks : IsNext(t)' = IsNext(t)
    BY <2>1 DEF IsNext, Waiting
  <2>. QED  BY <1>6, <2>2 DEF Held
<1>9. Pending' => Held' \/ job'.status \in Halted
  <2>1. Pending => Held \/ job.status \in Halted
    BY <1>5 DEF Driving, DriveInv
  <2>2. job.status \in Halted => job' = job
    BY <1>1 DEF Halted, Terminal
  <2>. QED  BY <1>6, <1>8, <2>1, <2>2
<1>10. \A t \in Tasks : HasApproval(t, "denied")' => task'[t] = "failed"
  BY <1>5, <1>6, <1>7 DEF Driving, DriveInv
<1>11. RunDriven'
  <2>1. run' # "running"
    BY <1>1
  <2>2. run' = "blocked" => run = "blocked"
    BY <1>1
  <2>3. run = "blocked" => Held' /\ job.status \in { "blocked", "queued", "claimed", "running" }
    BY <1>5, <1>8 DEF Driving, DriveInv, RunDriven
  <2>4. run' = "blocked" => Held' /\ job'.status \in { "blocked", "queued" }
    BY <1>1, <2>2, <2>3
  <2>. QED  BY <2>1, <2>4 DEF RunDriven
<1>12. \A t \in Tasks : TaskDriven(t)'
  BY <1>7 DEF TaskDriven
<1>13. Stage(<<>>) /\ Chain(<<>>)
  BY DEF Stage, Chain
<1>14. (\A th \in ByRunner : Stage(script[th])') /\ \A th \in ByClient : Chain(script[th])'
  BY <1>4, Sides DEF Stage, Chain
<1>15. /\ \A q \in Procs : proc'[q] \in { "up", "down" }
       /\ \A th, u \in Threads : th = u \/ Parked(th)' \/ Parked(u)'
  BY <1>1, <1>4 DEF Driving, DriveInv, Parked
<1>. QED  BY <1>4, <1>6, <1>9, <1>10, <1>11, <1>12, <1>14, <1>15, Sides
          DEF DriveInv, Driving

LEMMA DriveThreads ==
  ASSUME Recoverable, Driving, NEW th \in Threads,
         ThreadStep(th) \/ Claim(th) \/ WorkProposes(th) \/ RequestStep(th)
  PROVE  DriveInv'
<1>1. Env \cap { "propose", "ask_user", "resolve", "reply", "resume", "provider_throw" } = {}
  BY DEF Recoverable
<1>2. CASE StoreStep(th)
  <2>1. ~Bail(th)
    BY NobodyBails
  <2>2. CASE th \in ByRunner
    BY <1>2, <2>1, <2>2, RunnerSetsRun, RunnerSetsTask, RunnerReadsJob, RunnerSetsJob, RunnerFails
       DEF StoreStep
  <2>3. CASE th \in ByClient
    BY <1>2, <2>1, <2>3, ClientSetsRun, ClientSetsTask, ClientReadsJob, ClientSetsJob, ClientFails
       DEF StoreStep
  <2>. QED  BY <2>2, <2>3, Sides
<1>3. CASE ExecStep(th)
  BY <1>3, DriveExecutes, DriveAsks, DriveWorks DEF ExecStep
<1>4. CASE AfterStep(th)
  <2>1. ~(OpenQuestion(th) \/ ResolveWrite(th) \/ Resolved(th)
          \/ CloseQuestion(th) \/ Closed(th) \/ Replied(th))
    BY OnOneSide DEF OpenQuestion, ResolveWrite, Resolved, CloseQuestion, Closed, Replied, At
  <2>. QED  BY <1>4, <2>1, DriveStarts, ClientDecided, ClientExpires DEF AfterStep
<1>5. CASE RequestStep(th)
  <2>1. ~(Resume(th) \/ Propose(th) \/ AskUser(th) \/ Resolve(th) \/ Reply(th))
    BY <1>1 DEF Resume, Propose, AskUser, Resolve, Reply, Request
  <2>. QED  BY <1>5, <2>1, ClientAsks, ClientDecides DEF RequestStep
<1>6. CASE Claim(th)
  BY <1>6, DriveClaims
<1>7. CASE WorkProposes(th)
  BY <1>1, <1>7 DEF WorkProposes
<1>. QED  BY <1>2, <1>3, <1>4, <1>5, <1>6, <1>7 DEF ThreadStep

LEMMA DriveStepwise ==
  ASSUME Recoverable, Driving, [Next]_vars
  PROVE  Driving'
<1>1. CASE UNCHANGED vars
  <2>1. UNCHANGED <<run, task, job, approvals, script, proc>>
    BY <1>1 DEF vars
  <2>2. /\ Pending' = Pending /\ Held' = Held /\ Apart' = Apart
        /\ \A t : HasApproval(t, "denied")' = HasApproval(t, "denied")
        /\ \A s : Chain(s)' = Chain(s)
        /\ \A s : Stage(s)' = Stage(s)
    BY <2>1, StoreKept
  <2>3. \A th \in Threads : /\ Coming(th)' = Coming(th) /\ Idle(th)' = Idle(th)
                            /\ Parked(th)' = Parked(th)
    BY <2>1 DEF Coming, Idle, Parked
  <2>4. /\ Overwrites' = Overwrites /\ Fails' = Fails /\ Acts' = Acts /\ Down' = Down /\ Busy' = Busy
        /\ \A t : Denying(t)' = Denying(t)
    BY <2>1, <2>3, Sides DEF Overwrites, Fails, Acts, Denying, Down, Busy
  <2>5. \A t \in Tasks : TaskDriven(t)'
    BY <2>1, <2>2, <2>3, <2>4, Sides DEF TaskDriven, Driving, DriveInv
  <2>6. RunDriven'
    BY <2>1, <2>2, <2>4 DEF RunDriven, Driving, DriveInv
  <2>7. (\A th \in ByRunner : Stage(script[th])') /\ \A th \in ByClient : Chain(script[th])'
    BY <2>1, <2>2 DEF Driving, DriveInv
  <2>8. DriveInv'
    BY <2>1, <2>2, <2>3, <2>4, <2>5, <2>6, <2>7, Sides DEF DriveInv, Driving
  <2>. QED  BY <1>1, <2>8, Stepwise, JobStepwise, ExecStepwise, WholeStepwise
            DEF Driving, Recoverable
<1>2. CASE Next
  <2>1. ASSUME NEW p \in Procs, ProcStep(p) PROVE DriveInv'
    <3>1. ~Shutdown(p) /\ ~Stopped(p)
      BY DEF Shutdown, Stopped, Recoverable, Driving, DriveInv
    <3>. QED  BY <2>1, <3>1, DriveCrashes, DriveBoots DEF ProcStep
  <2>2. DriveInv'
    BY <1>2, <2>1, DriveThreads DEF Next
  <2>. QED  BY <1>2, <2>2, Stepwise, JobStepwise, ExecStepwise, WholeStepwise
            DEF Driving, Recoverable
<1>. QED  BY <1>1, <1>2

LEMMA DriveInitially == Init => DriveInv
<1> SUFFICES ASSUME Init PROVE DriveInv
  OBVIOUS
<1>1. \A th \in Threads : script[th] = <<>> /\ Idle(th) /\ Coming(th) = {}
  BY ShapeShort DEF Init, Idle, Coming
<1>2. Stage(<<>>) /\ Chain(<<>>)
  BY DEF Stage, Chain
<1>3. DOMAIN approvals = {} /\ ~Pending /\ \A t, status : ~HasApproval(t, status)
  BY DEF Init, Pending, HasApproval
<1>4. Apart
  BY <1>3 DEF Apart
<1>5. \A t \in Tasks : TaskDriven(t)
  BY DEF Init, TaskDriven
<1>6. RunDriven
  BY DEF Init, RunDriven
<1>7. \A p \in Procs : proc[p] \in { "up", "down" }
  BY DEF Init
<1>. QED  BY <1>1, <1>2, <1>3, <1>4, <1>5, <1>6, <1>7, Sides DEF DriveInv, Parked

\* When nobody is at anything, whoever moves a run on is a decision.
LEMMA QuietIsDriven == DriveInv => StillDriven
<1> SUFFICES ASSUME DriveInv, Quiet PROVE StillDriven
  BY DEF StillDriven, RunningIsDriven, BlockedAwaitsDecision
<1>1. (\A th \in Threads : Idle(th)) /\ \A p \in Procs : proc[p] = "up"
  BY DEF Quiet
<1>2. ~Down /\ ~Busy /\ ~Overwrites
  BY <1>1, IdleIsEmpty, Sides, ProcsAssumption DEF Down, Busy, Overwrites
<1>3. /\ run # "running"
      /\ run = "blocked" => Held /\ job.status \in { "blocked", "queued" }
  BY <1>2 DEF DriveInv, RunDriven
<1>. QED  BY <1>3 DEF StillDriven, RunningIsDriven, BlockedAwaitsDecision, Held

\* Nothing that is marked running or blocked is left to itself: when nobody is
\* at anything and no process is down, no run is running, and a blocked one has
\* a pending approval of its next task and a job the decision requeues (or one
\* that is queued already).  Neither a killed runner, nor a failure reported
\* for the job, nor a request between two steps of the execution leaves another
\* picture behind.
THEOREM StillDrivenHolds ==
  ASSUME Recoverable
  PROVE  Spec => []StillDriven
<1>1. Driving /\ [Next]_vars => Driving'
  BY DriveStepwise
<1>2. Init => Driving
  BY Initially, JobInitially, ExecInitially, WholeInitially, DriveInitially DEF Driving
<1>3. Driving => StillDriven
  BY QuietIsDriven DEF Driving
<1>. QED  BY <1>1, <1>2, <1>3, PTL DEF Spec

---------------------------------------------------------------------------
(* Run and job say the same *)

\* Short chains run one at a time; nobody cancels the run or fails its job, and
\* nothing goes down.
Orderly ==
  /\ Attended /\ ~Overlap
  /\ Env \subseteq { "decide", "pause", "expire", "task_error", "provider_invalid" }

Both(r, j) == run = r /\ job.status = j

\* The run and its job say the same ...
Agreed ==
  \/ run = "queued" /\ job.status \in { "queued", "claimed" }
  \/ Both("running", "running") \/ Both("blocked", "blocked") \/ Both("paused", "paused")
  \/ run \in { "completed", "failed" } /\ job.status \in { run, "paused" }

\* ... but in the middle of a chain that changes one and then the other.
Amid(s) ==
  \/ Both("running", "claimed") /\ Two(s, JobTo("running"), Doing("exec"))
  \/ Both("blocked", "running") /\ One(s, JobTo("blocked"))
  \/ Both("running", "completed") /\ One(s, RunTo("completed"))
  \/ run = "failed" /\ job.status \in { "running", "blocked" } /\ One(s, JobTo("failed"))
  \/ run = "paused" /\ job.status \in { "queued", "claimed", "running" } /\ One(s, JobTo("paused"))
  \/ Both("queued", "blocked") /\ (One(s, JobTo("queued")) \/ Two(s, TaskTo("queued"), JobTo("queued")))

\* An access that decides the run: it acts on a decision, fails the run or
\* puts it back in the queue.
Rules(o) == o.op \in { "decided", "fail" } \/ (o.op = "run" /\ o.to \in { "queued", "failed" })

\* What a request may have left: it rules only over a run that waits for it,
\* and what it makes of the run it makes of the job next.
Just(s) ==
  /\ \A o \in Range(s) :
       /\ o.to # "cancelled"
       /\ Rules(o) => Both("blocked", "blocked") /\ ~Pending
       /\ o.op = "run" => \E a \in Range(s) : a \in JobTo(o.to)
  /\ \A status \in JobStatus : One(s, JobTo(status)) => run = status

\* What the runner may have left once the run is over, and before it begins or
\* completes it.
Due(s) ==
  /\ run \in Terminal => s = <<>> \/ One(s, JobTo("failed"))
  /\ Three(s, RunTo("running"), JobTo("running"), Doing("exec")) => Both("queued", "claimed")
  /\ One(s, RunTo("completed")) => Both("running", "completed") \/ Both("paused", "paused")

\* Run and job agree but for the chain under way; a claimed job has its runner,
\* and a pending approval a run that waits for it, or will.
QueueInv ==
  /\ Agreed \/ \E th \in Threads : Amid(script[th])
  /\ job.status = "claimed" => Busy /\ job.runner \in RunnerIds
  /\ Pending => Busy \/ Both("blocked", "blocked")
  /\ \A th \in ByRunner : Due(script[th])
  /\ \A th \in ByClient : Just(script[th])

Steady == Driving /\ QueueInv

LEMMA OrderlyIsBoth ==
  ASSUME Orderly
  PROVE  Recoverable /\ Ordinary
  BY DEF Orderly, Recoverable, Ordinary

\* What is said about run and job stays true while nobody writes to them.
LEMMA TallyKept ==
  ASSUME UNCHANGED <<run, job, approvals>>
  PROVE  /\ Pending' = Pending /\ Agreed' = Agreed /\ \A r, j : Both(r, j)' = Both(r, j)
         /\ \A s : Amid(s)' = Amid(s) /\ Due(s)' = Due(s) /\ Just(s)' = Just(s)
<1>1. Pending' = Pending /\ Agreed' = Agreed /\ \A r, j : Both(r, j)' = Both(r, j)
  BY DEF Pending, Agreed, Both
<1>2. \A s : Amid(s)' = Amid(s)
  BY <1>1 DEF Amid
<1>3. \A s : Due(s)' = Due(s)
  BY <1>1 DEF Due
<1>4. \A s : Just(s)' = Just(s)
  BY <1>1 DEF Just
<1>. QED  BY <1>1, <1>2, <1>3, <1>4

\* Nobody who waits is in the middle of such a chain.
LEMMA AmidMoves ==
  ASSUME NEW s, Amid(s)
  PROVE  s # <<>> /\ Head(s).op \notin Waits
  BY DEF Amid, One, Two, RunTo, TaskTo, JobTo, Waits

LEMMA AgreedButFor ==
  ASSUME Orderly, Steady, NEW th \in Threads, MayRun(th)
  PROVE  /\ Agreed \/ Amid(script[th])
         /\ WholeInv
<1>1. Recoverable /\ Ordinary /\ Driving
  BY OrderlyIsBoth DEF Steady
<1>2. \A u \in Threads \ {th} : ~Amid(script[u])
  BY <1>1, Alone, AmidMoves DEF Parked, Idle, Waits
<1>. QED  BY <1>1, <1>2 DEF Steady, QueueInv, Driving

\* A step of the runner.
LEMMA QueueRunner ==
  ASSUME Orderly, Steady, NEW th \in ByRunner, MayRun(th),
         \A u \in ByRunner \ {th} : Idle(u),
         NEW rest, Does(th, rest), UNCHANGED proc,
         Agreed' \/ Amid(script[th])',
         job'.status = "claimed" => rest # <<>> /\ job'.runner \in RunnerIds,
         Pending' => rest # <<>> \/ Both("blocked", "blocked")',
         Due(script[th])'
  PROVE  QueueInv'
<1>1. Recoverable /\ Driving /\ th \in Threads
  BY OrderlyIsBoth, Sides DEF Steady
<1>2. \A u \in ByClient : u # th /\ Idle(u)
  BY <1>1, Alone, Sides
<1>3. /\ script'[th] = rest
      /\ \A u \in Threads \ {th} : script'[u] = script[u] /\ Idle(u)' = Idle(u)
  BY <1>1, OthersStay
<1>4. rest # <<>> => Busy'
  BY <1>3 DEF Busy, Idle
<1>5. \A u \in ByClient : Just(script[u])'
  <2> SUFFICES ASSUME NEW u \in ByClient PROVE Just(script[u])'
    OBVIOUS
  <2>1. script'[u] = <<>>
    BY <1>2, <1>3, Sides DEF Idle
  <2>2. Range(<<>>) = {} /\ \A A : ~One(<<>>, A)
    BY ShapeShort DEF One
  <2>. QED  BY <2>1, <2>2 DEF Just
<1>6. \A u \in ByRunner : Due(script[u])'
  <2> SUFFICES ASSUME NEW u \in ByRunner, u # th PROVE Due(script[u])'
    OBVIOUS
  <2>1. script'[u] = <<>>
    BY <1>3, Sides DEF Idle
  <2>. QED  BY <2>1 DEF Due, One, Three
<1>. QED  BY <1>1, <1>4, <1>5, <1>6 DEF QueueInv

\* ... that writes neither.
LEMMA QueueReads ==
  ASSUME Orderly, Steady, NEW th \in ByRunner, MayRun(th),
         \A u \in ByRunner \ {th} : Idle(u),
         NEW rest, Does(th, rest), UNCHANGED <<run, job, approvals, proc>>,
         Agreed \/ Amid(rest), Due(rest),
         rest = <<>> => job.status # "claimed" /\ ~Pending
  PROVE  QueueInv'
<1>1. th \in Threads /\ Driving
  BY Sides DEF Steady
<1>2. script'[th] = rest
  BY <1>1, ComingAfter DEF Driving
<1>3. /\ Pending' = Pending /\ Agreed' = Agreed
      /\ \A s : Amid(s)' = Amid(s) /\ Due(s)' = Due(s)
  BY TallyKept
<1>4. Agreed' \/ Amid(script[th])'
  BY <1>2, <1>3
<1>5. Due(script[th])'
  BY <1>2, <1>3
<1>6. job'.status = "claimed" => rest # <<>> /\ job'.runner \in RunnerIds
  BY DEF Steady, QueueInv
<1>7. Pending' => rest # <<>>
  BY <1>3
<1>. QED  BY <1>4, <1>5, <1>6, <1>7, QueueRunner

\* A request finds the run of a pending approval waiting.
LEMMA ClientFinds ==
  ASSUME Orderly, Steady, NEW th \in ByClient, MayRun(th)
  PROVE  Pending => Both("blocked", "blocked")
<1>1. Recoverable /\ Driving /\ WholeInv /\ th \in Threads
  BY OrderlyIsBoth, AgreedButFor, Sides DEF Steady
<1>2. ASSUME Pending, NEW u \in ByRunner, ~Idle(u) PROVE FALSE
  <2>1. Rests(script[u])
    BY <1>1, <1>2, Alone
  <2>2. One(script[u], Doing("start"))
    BY <1>2, <2>1 DEF Rests
  <2>3. script[u] \in Seq(Ops)
    BY <1>1, Sides DEF Driving, IInv, TypeOK
  <2>4. Range(script[u]) = { Head(script[u]) } /\ Head(script[u]) \in Doing("start")
    BY <2>2, <2>3, OneNext
  <2>5. \A o \in Range(script[u]) : Holds(o)
    BY <1>1, <1>2 DEF WholeInv, Coming
  <2>. QED  BY <2>4, <2>5 DEF Holds, Doing
<1>. QED  BY <1>2 DEF Steady, QueueInv, Busy

\* A step of the request.
LEMMA QueueClient ==
  ASSUME Orderly, Steady, NEW th \in ByClient, MayRun(th),
         NEW rest, Does(th, rest), UNCHANGED proc,
         Agreed' \/ Amid(script[th])',
         job'.status = "claimed" => job' = job,
         Pending' => Pending /\ UNCHANGED <<run, job>>,
         run' \in Terminal => run \in Terminal \/ \A u \in ByRunner : Idle(u),
         Just(script[th])'
  PROVE  QueueInv'
<1>1. Recoverable /\ Driving /\ th \in Threads
  BY OrderlyIsBoth, Sides DEF Steady
<1>2. /\ \A u \in ByClient : u = th
      /\ \A u \in ByRunner : u # th /\ (Idle(u) \/ Rests(script[u]))
  BY <1>1, Alone, Sides
<1>3. \A u \in ByRunner : script'[u] = script[u] /\ Idle(u)' = Idle(u)
  BY <1>1, <1>2, OthersStay, Sides
<1>4. Busy' = Busy
  BY <1>3 DEF Busy
<1>5. Pending' => Both("blocked", "blocked")'
  BY ClientFinds DEF Both
<1>6. job'.status = "claimed" => Busy' /\ job'.runner \in RunnerIds
  BY <1>4 DEF Steady, QueueInv
<1>7. ASSUME NEW u \in ByRunner PROVE Due(script[u])'
  <2>1. ~One(script[u], JobTo("failed")) \/ Idle(u)
    BY <1>2 DEF Rests, One, JobTo, Doing, For
  <2>2. /\ ~Three(script[u], RunTo("running"), JobTo("running"), Doing("exec"))
        /\ ~One(script[u], RunTo("completed"))
    BY <1>2 DEF Rests, One, Three, RunTo, Doing, For, Idle
  <2>3. run' \in Terminal => Idle(u)
    BY <2>1 DEF Steady, QueueInv, Due, Idle
  <2>4. run' \in Terminal => script'[u] = <<>>
    BY <1>3, <2>3 DEF Idle
  <2>. QED  BY <1>3, <2>2, <2>4 DEF Due
<1>. QED  BY <1>1, <1>2, <1>5, <1>6, <1>7 DEF QueueInv

---------------------------------------------------------------------------
(* ... at every access of the runner *)

\* The runner at its next access.
LEMMA QueueAtRunner ==
  ASSUME Orderly, Steady, NEW th \in ByRunner, ~Idle(th), MayRun(th)
  PROVE  LET s == script[th] IN
         /\ th \in Threads /\ s \in Seq(Ops) /\ s # <<>> /\ Stage(s) /\ ~Stopping(th)
         /\ Head(s) \in Ops /\ Tail(s) \in Seq(Ops) /\ <<>> \o Tail(s) = Tail(s)
         /\ \A u \in ByRunner \ {th} : Idle(u)
         /\ Agreed \/ Amid(s)
         /\ Due(s)
         /\ Pending => \A o \in Range(s) : Holds(o)
         /\ Pending => Holds(Head(s))
         /\ job.status = "claimed" => job.runner \in RunnerIds
<1>1. Recoverable /\ Driving /\ th \in Threads
  BY OrderlyIsBoth, Sides DEF Steady
<1>2. Agreed \/ Amid(script[th])
  BY <1>1, AgreedButFor
<1>3. Pending => \A o \in Range(script[th]) : Holds(o)
  BY AgreedButFor, <1>1 DEF WholeInv, Coming
<1>4. Due(script[th]) /\ (job.status = "claimed" => job.runner \in RunnerIds)
  BY DEF Steady, QueueInv
<1>. QED  BY <1>1, <1>2, <1>3, <1>4, AtRunner

LEMMA QueueRunnerRun ==
  ASSUME Orderly, Steady, NEW th \in ByRunner, RunWrite(th)
  PROVE  QueueInv'
<1> DEFINE s    == script[th]
           rest == Tail(s)
<1>1. /\ ~Idle(th) /\ MayRun(th) /\ Head(s).op = "run" /\ Follow(th, <<>>)
      /\ UNCHANGED <<task, job, approvals, proc>>
  BY DEF RunWrite, At
<1>2. /\ th \in Threads /\ s \in Seq(Ops) /\ s # <<>> /\ Stage(s) /\ ~Stopping(th)
      /\ rest \in Seq(Ops) /\ <<>> \o rest = rest
      /\ \A u \in ByRunner \ {th} : Idle(u)
      /\ Agreed \/ Amid(s)
      /\ Due(s)
      /\ Pending => Holds(Head(s))
      /\ job.status = "claimed" => job.runner \in RunnerIds
  BY <1>1, QueueAtRunner
<1>3. Does(th, rest) /\ run' = Head(s).to
  BY <1>1, <1>2 DEF Follow, RunWrite, To
<1>4. script'[th] = rest
  BY <1>2, <1>3, ComingAfter DEF Steady, Driving
<1>5. Pending' = Pending
  BY <1>1 DEF Pending
<1>6. run \notin Terminal
  BY <1>1, <1>2 DEF Due, One, JobTo
<1>7. /\ Agreed' \/ Amid(script[th])'
      /\ Due(script[th])'
      /\ rest # <<>> \/ (job.status # "claimed" /\ ~Pending)
  <2> HIDE DEF s, rest
  <2>1. CASE Left /\ Three(s, RunTo("running"), JobTo("running"), Doing("exec"))
    <3>1. run' = "running" /\ Two(rest, JobTo("running"), Doing("exec")) /\ Both("queued", "claimed")
      BY <1>2, <1>3, <2>1 DEF Three, RunTo, rest, Due
    <3>2. Both("running", "claimed")'
      BY <1>1, <3>1 DEF Both
    <3>3. rest # <<>> /\ ~One(rest, RunTo("completed")) /\ run' \notin Terminal
          /\ ~Three(rest, RunTo("running"), JobTo("running"), Doing("exec"))
      BY <3>1 DEF Two, One, Three, RunTo, JobTo, Terminal
    <3>. QED  BY <1>4, <3>1, <3>2, <3>3 DEF Amid, Due
  <2>2. CASE OnIt /\ Held /\ Two(s, RunTo("blocked"), JobTo("blocked"))
    <3>1. run' = "blocked" /\ One(rest, JobTo("blocked")) /\ job'.status = "running"
      BY <1>1, <1>3, <2>2 DEF Two, RunTo, rest, OnIt
    <3>2. rest # <<>> /\ ~One(rest, RunTo("completed")) /\ run' \notin Terminal
          /\ ~Three(rest, RunTo("running"), JobTo("running"), Doing("exec"))
      BY <3>1 DEF One, Three, RunTo, JobTo, Terminal
    <3>. QED  BY <1>4, <3>1, <3>2 DEF Amid, Due, Both
  <2>3. CASE /\ OnIt /\ ~Pending
             /\ \E t \in Tasks :
                  /\ IsNext(t) /\ ~HasApproval(t, "denied")
                  /\ Three(s, RunTo("running"), For(t, TaskTo("running")), For(t, Doing("work")))
    <3>1. PICK t \in Tasks :
            Three(s, RunTo("running"), For(t, TaskTo("running")), For(t, Doing("work")))
      BY <2>3
    <3>2. run' = "running" /\ Two(rest, For(t, TaskTo("running")), For(t, Doing("work")))
      BY <1>3, <3>1 DEF Three, RunTo, rest
    <3>3. Agreed'
      BY <1>1, <2>3, <3>2 DEF OnIt, Agreed, Both
    <3>4. rest # <<>> /\ ~One(rest, RunTo("completed")) /\ run' \notin Terminal
          /\ ~Three(rest, RunTo("running"), JobTo("running"), Doing("exec"))
      BY <3>2 DEF Two, One, Three, RunTo, TaskTo, For, Terminal
    <3>. QED  BY <1>4, <3>3, <3>4 DEF Due
  <2>4. CASE Going /\ ~Pending /\ Two(s, RunTo("failed"), JobTo("failed"))
    <3>1. run' = "failed" /\ One(rest, JobTo("failed"))
      BY <1>3, <2>4 DEF Two, RunTo, rest
    <3>2. ~Amid(s)
      BY <2>4 DEF Amid, Two, One, RunTo, JobTo, TaskTo
    <3>3. job'.status \in { "running", "paused" }
      BY <1>1, <1>2, <1>6, <2>4, <3>2 DEF Agreed, Both, Going, Halted
    <3>4. rest # <<>> /\ ~One(rest, RunTo("completed"))
          /\ ~Three(rest, RunTo("running"), JobTo("running"), Doing("exec"))
      BY <3>1 DEF One, Three, RunTo, JobTo
    <3>. QED  BY <1>4, <3>1, <3>3, <3>4 DEF Amid, Due, Agreed
  <2>5. CASE run # "blocked" /\ ~Pending /\ One(s, RunTo("completed"))
    <3>1. run' = "completed" /\ rest = <<>>
      BY <1>3, <2>5 DEF One, RunTo, rest
    <3>2. Both("running", "completed") \/ Both("paused", "paused")
      BY <1>2, <2>5 DEF Due
    <3>3. Agreed' /\ job.status # "claimed"
      BY <1>1, <3>1, <3>2 DEF Both, Agreed
    <3>. QED  BY <1>4, <2>5, <3>1, <3>3 DEF Due, One, Three
  <2>. QED  BY <1>1, <1>2, <2>1, <2>2, <2>3, <2>4, <2>5, StageAt DEF s
<1>8. job'.status = "claimed" => rest # <<>> /\ job'.runner \in RunnerIds
  BY <1>1, <1>2, <1>7
<1>9. Pending' => rest # <<>>
  BY <1>5, <1>7
<1> HIDE DEF rest
<1>. QED  BY <1>1, <1>2, <1>3, <1>7, <1>8, <1>9, QueueRunner

LEMMA QueueRunnerTask ==
  ASSUME Orderly, Steady, NEW th \in ByRunner, TaskWrite(th)
  PROVE  QueueInv'
<1> DEFINE s    == script[th]
           rest == Tail(s)
<1>1. /\ ~Idle(th) /\ MayRun(th) /\ Head(s).op = "task" /\ Follow(th, <<>>)
      /\ UNCHANGED <<run, job, approvals, proc>>
  BY DEF TaskWrite, At
<1>2. /\ th \in Threads /\ s \in Seq(Ops) /\ s # <<>> /\ Stage(s)
      /\ <<>> \o rest = rest
      /\ \A u \in ByRunner \ {th} : Idle(u)
      /\ Agreed \/ Amid(s)
      /\ Due(s)
  BY <1>1, QueueAtRunner
<1>3. Does(th, rest)
  BY <1>1, <1>2 DEF Follow
<1>4. run \notin Terminal
  BY <1>1, <1>2 DEF Due, One, JobTo
<1>5. \/ \E t \in Tasks : Three(s, For(t, TaskTo("blocked")), RunTo("blocked"), JobTo("blocked"))
      \/ \E t \in Tasks : Two(s, For(t, TaskTo("running")), For(t, Doing("work")))
      \/ \E t \in Tasks : Two(s, For(t, TaskTo("completed")), For(t, Doing("recheck")))
      \/ Three(s, TaskTo("failed"), RunTo("failed"), JobTo("failed"))
  BY <1>1, <1>2, StageAt
<1> HIDE DEF s
<1>6. ~Amid(s)
  BY <1>1, <1>5 DEF Amid, Two, Three, One, RunTo, TaskTo, JobTo, For, Doing
<1>7. /\ rest # <<>>
      /\ ~Three(rest, RunTo("running"), JobTo("running"), Doing("exec"))
      /\ ~One(rest, RunTo("completed"))
  BY <1>5 DEF Two, Three, One, RunTo, TaskTo, JobTo, For, Doing
<1>8. Due(rest) /\ Agreed
  BY <1>2, <1>4, <1>6, <1>7 DEF Due
<1> HIDE DEF rest
<1>. QED  BY <1>1, <1>2, <1>3, <1>7, <1>8, QueueReads

\* What reading the job leaves to do.
LEMMA ReadJob ==
  ASSUME Driving, NEW th \in Threads, JobRead(th), script[th] \in Seq(Ops), script[th] # <<>>
  PROVE  LET s == script[th]
             o == Head(s)
         IN \/ /\ o.to = job.status \/ CanTransition(job.status, o.to)
               /\ \E r \in Seq(Ops) : /\ Does(th, r) /\ r # <<>> /\ Tail(r) = Tail(s)
                                      /\ Head(r).op = "save" /\ Head(r) \in JobTo(o.to)
            \/ /\ ~(o.to = job.status \/ CanTransition(job.status, o.to))
               /\ Does(th, IF o.must THEN <<>> ELSE Tail(s))
<1> DEFINE s    == script[th]
           o    == Head(s)
           t    == Tail(s)
           next == NextJob(o.to, o.runner)
           save == Op("save", 0, next.status, next.runner, FALSE, FALSE)
           more == << save >> \o t
<1>1. At(th, "job") /\ o.op = "job"
  BY DEF JobRead, At
<1>2. t \in Seq(Ops) /\ <<>> \o t = t
  BY ScriptNext
<1>3. save \in Ops /\ save.op = "save" /\ save.to = o.to
  BY <1>1, SaveMade DEF Driving
<1> HIDE DEF save
<1>4. more \in Seq(Ops) /\ more # <<>> /\ Head(more) = save /\ Tail(more) = t
  BY <1>2, <1>3, PutFirst
<1>5. save \in JobTo(o.to)
  BY <1>3 DEF JobTo
<1> HIDE DEF t, more, o
<1>6. \/ (o.to = job.status \/ CanTransition(job.status, o.to)) /\ Does(th, more)
      \/ /\ ~(o.to = job.status \/ CanTransition(job.status, o.to))
         /\ Does(th, IF o.must THEN <<>> ELSE t)
  BY <1>1, <1>2 DEF JobRead, Follow, o, t, more, save, next
<1>. QED  BY <1>3, <1>4, <1>5, <1>6 DEF o, t

LEMMA QueueRunnerReads ==
  ASSUME Orderly, Steady, NEW th \in ByRunner, JobRead(th)
  PROVE  QueueInv'
<1> DEFINE s == script[th]
           o == Head(s)
           t == Tail(s)
<1>1. /\ ~Idle(th) /\ MayRun(th) /\ At(th, "job") /\ o.op = "job"
      /\ UNCHANGED <<run, task, job, approvals, proc>>
  BY DEF JobRead, At, store
<1>2. /\ th \in Threads /\ s \in Seq(Ops) /\ s # <<>> /\ Stage(s)
      /\ \A u \in ByRunner \ {th} : Idle(u)
      /\ Agreed \/ Amid(s)
      /\ Due(s)
      /\ Pending => Holds(o)
  BY <1>1, QueueAtRunner
<1>3. Driving /\ Named(o.to, RunnerOf(o, job), job)
  BY <1>1, <1>2, JobNext DEF Driving, Steady
<1>4. \/ /\ o.to = job.status \/ CanTransition(job.status, o.to)
         /\ \E r \in Seq(Ops) : /\ Does(th, r) /\ r # <<>> /\ Tail(r) = t
                                /\ Head(r).op = "save" /\ Head(r) \in JobTo(o.to)
      \/ /\ ~(o.to = job.status \/ CanTransition(job.status, o.to))
         /\ Does(th, IF o.must THEN <<>> ELSE t)
  BY <1>2, <1>3, ReadJob
<1>5. ASSUME NEW r, Does(th, r), Agreed \/ Amid(r), Due(r),
             r = <<>> => job.status # "claimed" /\ ~Pending
      PROVE  QueueInv'
  BY <1>1, <1>2, <1>5, QueueReads
<1>6. \/ run = "queued" /\ Two(s, JobTo("claimed"), Doing("start"))
      \/ run = "running" /\ Two(s, JobTo("running"), Doing("exec"))
      \/ run = "blocked" /\ job.status = "running" /\ Held /\ One(s, JobTo("blocked"))
      \/ Going /\ ~Pending /\ ~o.must /\ Two(s, JobTo("completed"), RunTo("completed"))
      \/ run = "failed" /\ ~Pending /\ One(s, JobTo("failed"))
  BY <1>1, <1>2, StageAt
<1> HIDE DEF s
<1>7. ASSUME NEW r, r # <<>>, Tail(r) = t, Head(r).op = "save", Head(r) \in JobTo(o.to)
      PROVE  (Agreed \/ Amid(r)) /\ Due(r)
  <2> HIDE DEF o, t
  <2>1. /\ \A A, B : Two(r, A, B) <=> Head(r) \in A /\ One(t, B)
        /\ \A A : One(r, A) <=> Head(r) \in A /\ t = <<>>
        /\ \A A, B, C : Three(r, A, B, C) <=> Head(r) \in A /\ Two(t, B, C)
    BY <1>7 DEF One, Two, Three
  <2>2. /\ \A A, B : Two(s, A, B) <=> o \in A /\ One(t, B)
        /\ \A A : One(s, A) <=> o \in A /\ t = <<>>
    BY <1>2 DEF One, Two, o, t
  <2>3. \A to : o \in JobTo(to) => Head(r) \in JobTo(to)
    BY <1>7 DEF JobTo
  <2>4. \A to : Head(r) \notin RunTo(to) /\ o \notin RunTo(to) /\ o \notin TaskTo(to)
    BY <1>1, <1>7 DEF RunTo, TaskTo
  <2>5. Amid(s) => Amid(r)
    BY <2>1, <2>2, <2>3, <2>4 DEF Amid
  <2>6. Due(s) => Due(r)
    BY <1>2, <2>1, <2>2, <2>3, <2>4 DEF Due
  <2>. QED  BY <1>2, <2>5, <2>6
<1>8. CASE o.to = job.status \/ CanTransition(job.status, o.to)
  BY <1>4, <1>5, <1>7, <1>8
<1>9. CASE ~(o.to = job.status \/ CanTransition(job.status, o.to))
  <2>1. ~(run = "queued" /\ Two(s, JobTo("claimed"), Doing("start")))
    BY <1>3, <1>9 DEF Two, JobTo, Named, CanTransition, JobMoves
  <2>2. ~(run = "running" /\ Two(s, JobTo("running"), Doing("exec")))
    BY <1>3, <1>9 DEF Two, JobTo, Named, CanTransition, JobMoves
  <2>3. ~(run = "blocked" /\ job.status = "running" /\ One(s, JobTo("blocked")))
    BY <1>9 DEF One, JobTo, CanTransition, JobMoves
  <2>4. CASE Going /\ ~Pending /\ ~o.must /\ Two(s, JobTo("completed"), RunTo("completed"))
    <3>1. Does(th, t) /\ One(t, RunTo("completed")) /\ t # <<>> /\ o.to = "completed"
      BY <1>4, <1>9, <2>4 DEF Two, One, JobTo
    <3>2. ~Amid(s) /\ ~One(s, JobTo("failed"))
      BY <2>4 DEF Amid, Two, One, RunTo, JobTo, TaskTo, Doing
    <3>3. Agreed /\ run \notin Terminal
      BY <1>2, <2>4, <3>2 DEF Due, Two
    <3>4. Both("paused", "paused")
      BY <1>9, <2>4, <3>1, <3>3 DEF Agreed, Both, Going, Halted, CanTransition, JobMoves
    <3> HIDE DEF t
    <3>5. ~Three(t, RunTo("running"), JobTo("running"), Doing("exec"))
      BY <3>1 DEF One, Three, RunTo
    <3>6. Due(t)
      BY <3>3, <3>4, <3>5 DEF Due
    <3>. QED  BY <1>5, <3>1, <3>3, <3>6
  <2>5. CASE run = "failed" /\ ~Pending /\ One(s, JobTo("failed"))
    <3>1. o.to = "failed" /\ t = <<>>
      BY <2>5 DEF One, JobTo
    <3>2. Agreed /\ job.status # "claimed"
      BY <1>2, <1>9, <2>5, <3>1 DEF Amid, Agreed, Both, CanTransition, JobMoves
    <3>3. Due(<<>>) /\ Does(th, <<>>)
      BY <1>4, <1>9, <3>1 DEF Due, One, Three
    <3>. QED  BY <1>5, <2>5, <3>2, <3>3
  <2>. QED  BY <1>6, <2>1, <2>2, <2>3, <2>4, <2>5
<1>. QED  BY <1>8, <1>9

LEMMA QueueRunnerJob ==
  ASSUME Orderly, Steady, NEW th \in ByRunner, JobWrite(th)
  PROVE  QueueInv'
<1> DEFINE s    == script[th]
           o    == Head(s)
           rest == Tail(s)
<1>1. /\ ~Idle(th) /\ MayRun(th) /\ o.op = "save" /\ Follow(th, <<>>)
      /\ UNCHANGED <<run, task, approvals, proc>>
      /\ job' = [status |-> o.to, runner |-> o.runner]
  BY DEF JobWrite, At, To
<1>2. /\ th \in Threads /\ s \in Seq(Ops) /\ s # <<>> /\ Stage(s)
      /\ <<>> \o rest = rest
      /\ \A u \in ByRunner \ {th} : Idle(u)
      /\ Agreed \/ Amid(s)
      /\ Due(s)
      /\ Pending => Holds(o)
      /\ job.status = "claimed" => job.runner \in RunnerIds
  BY <1>1, QueueAtRunner
<1>3. Does(th, rest) /\ Allowed(job, job')
  BY <1>1, <1>2, JobNext DEF Follow, Steady, Driving
<1>4. script'[th] = rest
  BY <1>2, <1>3, ComingAfter DEF Steady, Driving
<1>5. Pending' = Pending /\ job'.status = o.to
  BY <1>1 DEF Pending
<1>6. \/ run = "queued" /\ Two(s, JobTo("claimed"), Doing("start"))
      \/ run = "running" /\ Two(s, JobTo("running"), Doing("exec"))
      \/ run = "blocked" /\ job.status = "running" /\ Held /\ One(s, JobTo("blocked"))
      \/ Going /\ ~Pending /\ ~o.must /\ Two(s, JobTo("completed"), RunTo("completed"))
      \/ run = "failed" /\ ~Pending /\ One(s, JobTo("failed"))
  BY <1>1, <1>2, StageAt
<1> HIDE DEF s
<1>7. job'.status = "claimed" => job'.runner \in RunnerIds
  BY <1>2, <1>3 DEF Allowed, Named
<1>8. /\ Agreed' \/ Amid(script[th])'
      /\ Due(script[th])'
      /\ rest # <<>> \/ (job'.status # "claimed" /\ ~Pending) \/ Both("blocked", "blocked")'
  <2> HIDE DEF rest, o
  <2>1. CASE run = "queued" /\ Two(s, JobTo("claimed"), Doing("start"))
    <3>1. One(rest, Doing("start")) /\ job'.status = "claimed"
      BY <1>5, <2>1 DEF Two, JobTo, rest, o
    <3>2. /\ rest # <<>> /\ ~One(rest, RunTo("completed"))
          /\ ~Three(rest, RunTo("running"), JobTo("running"), Doing("exec"))
      BY <3>1 DEF One, Three, RunTo, Doing
    <3>. QED  BY <1>1, <1>4, <2>1, <3>1, <3>2 DEF Agreed, Due, Terminal
  <2>2. CASE run = "running" /\ Two(s, JobTo("running"), Doing("exec"))
    <3>1. One(rest, Doing("exec")) /\ job'.status = "running"
      BY <1>5, <2>2 DEF Two, JobTo, rest, o
    <3>2. /\ rest # <<>> /\ ~One(rest, RunTo("completed"))
          /\ ~Three(rest, RunTo("running"), JobTo("running"), Doing("exec"))
      BY <3>1 DEF One, Three, RunTo, Doing
    <3>. QED  BY <1>1, <1>4, <2>2, <3>1, <3>2 DEF Agreed, Both, Due, Terminal
  <2>3. CASE run = "blocked" /\ job.status = "running" /\ Held /\ One(s, JobTo("blocked"))
    <3>1. rest = <<>> /\ job'.status = "blocked"
      BY <1>5, <2>3 DEF One, JobTo, rest, o
    <3>. QED  BY <1>1, <1>4, <2>3, <3>1 DEF Agreed, Both, Due, One, Three, Terminal
  <2>4. CASE Going /\ ~Pending /\ ~o.must /\ Two(s, JobTo("completed"), RunTo("completed"))
    <3>1. One(rest, RunTo("completed")) /\ rest # <<>> /\ o.to = "completed"
      BY <2>4 DEF Two, One, JobTo, rest, o
    <3>2. ~Amid(s) /\ ~One(s, JobTo("failed")) /\ s # <<>>
      BY <2>4 DEF Amid, Two, One, RunTo, JobTo, TaskTo, Doing
    <3>3. Agreed /\ run \notin Terminal
      BY <1>2, <3>2 DEF Due
    <3>4. job.status \in { "running", "completed" }
      <4>1. job.status \in JobStatus
        BY DEF Steady, Driving, IInv, TypeOK
      <4>2. job.status = "completed" \/ CanTransition(job.status, "completed")
        BY <1>3, <1>5, <3>1 DEF Allowed
      <4>. QED  BY <4>1, <4>2 DEF CanTransition, JobMoves, JobStatus
    <3>5. run = "running"
      BY <3>3, <3>4 DEF Agreed, Both, Terminal
    <3>6. Both("running", "completed")'
      BY <1>1, <1>5, <3>1, <3>5 DEF Both
    <3>7. ~Three(rest, RunTo("running"), JobTo("running"), Doing("exec")) /\ run' \notin Terminal
      BY <1>1, <3>1, <3>5 DEF One, Three, RunTo, Terminal
    <3>. QED  BY <1>4, <2>4, <3>1, <3>6, <3>7 DEF Amid, Due
  <2>5. CASE run = "failed" /\ ~Pending /\ One(s, JobTo("failed"))
    <3>1. rest = <<>> /\ job'.status = "failed"
      BY <1>5, <2>5 DEF One, JobTo, rest, o
    <3>. QED  BY <1>1, <1>4, <2>5, <3>1 DEF Agreed, Due, One, Three
  <2>. QED  BY <1>6, <2>1, <2>2, <2>3, <2>4, <2>5
<1>9. /\ job'.status = "claimed" => rest # <<>> /\ job'.runner \in RunnerIds
      /\ Pending' => rest # <<>> \/ Both("blocked", "blocked")'
  BY <1>5, <1>7, <1>8 DEF Both
<1> HIDE DEF rest
<1>. QED  BY <1>1, <1>2, <1>3, <1>8, <1>9, QueueRunner

LEMMA QueueRunnerFails ==
  ASSUME Orderly, Steady, NEW th \in ByRunner, Failing(th)
  PROVE  QueueInv'
<1> DEFINE s == script[th]
<1>1. /\ ~Idle(th) /\ MayRun(th) /\ Head(s).op = "fail"
      /\ UNCHANGED <<run, task, job, approvals, proc>>
  BY DEF Failing, At, store
<1>2. /\ th \in Threads /\ s \in Seq(Ops) /\ s # <<>> /\ Stage(s)
      /\ \A u \in ByRunner \ {th} : Idle(u)
      /\ Agreed \/ Amid(s)
      /\ Due(s)
  BY <1>1, QueueAtRunner
<1>3. One(s, Doing("fail"))
  BY <1>1, <1>2, StageAt
<1>4. Tail(s) = <<>>
  BY <1>3 DEF One
<1>5. PICK r \in Seq(Ops) :
        /\ Does(th, r)
        /\ \/ Three(r, TaskTo("failed"), RunTo("failed"), JobTo("failed"))
           \/ Two(r, RunTo("failed"), JobTo("failed"))
  BY <1>2, <1>4, FailsMade DEF Steady
<1>6. run \notin Terminal
  BY <1>1, <1>2 DEF Due, One, JobTo
<1>7. ~Amid(s)
  BY <1>1 DEF Amid, One, Two, RunTo, TaskTo, JobTo
<1>8. /\ r # <<>> /\ ~One(r, RunTo("completed"))
      /\ ~Three(r, RunTo("running"), JobTo("running"), Doing("exec"))
  BY <1>5 DEF One, Two, Three, RunTo, TaskTo
<1>9. Due(r) /\ Agreed
  BY <1>2, <1>6, <1>7, <1>8 DEF Due
<1>. QED  BY <1>1, <1>2, <1>5, <1>8, <1>9, QueueReads

LEMMA QueueExecutes ==
  ASSUME Orderly, Steady, NEW th \in Threads,
         \/ ExecReturn(th) \/ ExecNoTaskLeft(th) \/ ExecProviderInvalid(th)
         \/ ExecProviderThrows(th) \/ ExecHeld(th) \/ ExecAsks(th) \/ ExecBegins(th)
  PROVE  QueueInv'
<1>1. Executing(th) /\ Recoverable /\ Driving
  BY OrderlyIsBoth
     DEF ExecReturn, ExecNoTaskLeft, ExecProviderInvalid, ExecProviderThrows, ExecHeld, ExecAsks,
         ExecBegins, Proceeding, Steady
<1>2. /\ th \in ByRunner /\ MayRun(th) /\ OnIt
      /\ \A u \in ByRunner \ {th} : Idle(u)
      /\ UNCHANGED <<run, task, job, approvals, proc>>
  BY <1>1, AtExec
<1>3. Agreed /\ run \notin Terminal
  BY <1>2 DEF OnIt, Agreed, Both, Terminal
<1>4. ASSUME NEW r, Does(th, r), r # <<>>,
             Head(r).op # "run" \/ (Tail(r) # <<>> /\ Head(Tail(r)).op = "task")
      PROVE  QueueInv'
  <2>1. Due(r)
    BY <1>3, <1>4 DEF Due, One, Two, Three, RunTo, JobTo
  <2>. QED  BY <1>2, <1>3, <1>4, <2>1, QueueReads
<1>5. ~ExecReturn(th) /\ ~ExecProviderThrows(th)
  BY <1>2 DEF ExecReturn, ExecProviderThrows, OnIt, Terminal, Orderly
<1>6. CASE ExecNoTaskLeft(th)
  <2> DEFINE a == Op("synthesize", Arg(th), "", job.runner, TRUE, FALSE)
  <2>1. Does(th, << a >>) /\ a.op = "synthesize"
    BY <1>6 DEF ExecNoTaskLeft, Op
  <2> HIDE DEF a
  <2>2. << a >> # <<>> /\ Head(<< a >>) = a
    OBVIOUS
  <2>. QED  BY <1>4, <2>1, <2>2
<1>7. CASE ExecProviderInvalid(th)
  <2>1. PICK t \in Tasks : Does(th, << FailRun(t) >>)
    BY <1>7 DEF ExecProviderInvalid
  <2>2. FailRun(t).op = "fail"
    BY DEF FailRun, Op
  <2> DEFINE a == FailRun(t)
  <2> HIDE DEF a
  <2>3. << a >> # <<>> /\ Head(<< a >>) = a
    OBVIOUS
  <2>. QED  BY <1>4, <2>1, <2>2, <2>3 DEF a
<1>8. CASE ExecHeld(th)
  <2>1. PICK t \in NeedsApproval, b \in BOOLEAN : Does(th, Hold(t, b))
    BY <1>8 DEF ExecHeld
  <2>2. Hold(t, b) # <<>> /\ Head(Hold(t, b)).op = "task"
    BY DEF Hold, SetTask, Op
  <2>. QED  BY <1>4, <2>1, <2>2
<1>9. CASE ExecAsks(th)
  <2>1. PICK t \in NeedsApproval :
          IsNext(t) /\ Does(th, << Then("ask", t, "pending") >> \o Hold(t, TRUE))
    BY <1>9 DEF ExecAsks
  <2>2. Then("ask", t, "pending") \in Ops /\ Then("ask", t, "pending").op = "ask"
    BY TasksAssumption, AccessMade DEF Doing, For
  <2>3. Hold(t, TRUE) \in Seq(Ops)
    <3>1. t \in Tasks /\ task[t] # "completed"
      BY <2>1, TasksAssumption DEF IsNext, Waiting
    <3>. QED  BY <1>1, <3>1, HoldShape DEF Driving
  <2> DEFINE a == Then("ask", t, "pending")
             h == Hold(t, TRUE)
  <2> HIDE DEF a, h
  <2>4. << a >> \o h # <<>> /\ Head(<< a >> \o h) = a
    BY <2>2, <2>3, PutFirst DEF a, h
  <2>. QED  BY <1>4, <2>1, <2>2, <2>4 DEF a, h
<1>10. CASE ExecBegins(th)
  <2>1. PICK t \in Tasks :
          Does(th, << SetRun("running", TRUE), SetTask(t, "running", TRUE),
                      Op("work", t, "", Keep, TRUE, FALSE) >>)
    BY <1>10 DEF ExecBegins
  <2> DEFINE a == SetRun("running", TRUE)
             b == SetTask(t, "running", TRUE)
             c == Op("work", t, "", Keep, TRUE, FALSE)
  <2>2. b.op = "task"
    BY DEF SetTask, Op
  <2> HIDE DEF a, b, c
  <2>3. << a, b, c >> # <<>> /\ Tail(<< a, b, c >>) = << b, c >>
    OBVIOUS
  <2>4. << b, c >> # <<>> /\ Head(<< b, c >>) = b
    OBVIOUS
  <2>. QED  BY <1>4, <2>1, <2>2, <2>3, <2>4 DEF a, b, c
<1>. QED  BY <1>5, <1>6, <1>7, <1>8, <1>9, <1>10

LEMMA QueueAsks ==
  ASSUME Orderly, Steady, NEW th \in Threads, Ask(th)
  PROVE  QueueInv'
<1> DEFINE s    == script[th]
           rest == Tail(s)
<1>1. /\ ~Idle(th) /\ MayRun(th) /\ Head(s).op = "ask" /\ Follow(th, <<>>)
      /\ UNCHANGED <<run, task, job, proc>>
  BY DEF Ask, At
<1>2. th \in ByRunner
  BY <1>1, OnOneSide, OrderlyIsBoth DEF Steady
<1>3. /\ th \in Threads /\ s \in Seq(Ops) /\ s # <<>> /\ Stage(s) /\ <<>> \o rest = rest
      /\ \A u \in ByRunner \ {th} : Idle(u)
  BY <1>1, <1>2, QueueAtRunner
<1>4. Does(th, rest)
  BY <1>1, <1>3 DEF Follow
<1>5. script'[th] = rest
  BY <1>3, <1>4, ComingAfter DEF Steady, Driving
<1>6. PICK t \in NeedsApproval :
        OnIt /\ Four(s, For(t, Doing("ask")), For(t, TaskTo("blocked")), RunTo("blocked"),
                        JobTo("blocked"))
  BY <1>1, <1>3, StageAt
<1>7. Three(rest, For(t, TaskTo("blocked")), RunTo("blocked"), JobTo("blocked"))
  BY <1>6 DEF Four
<1> HIDE DEF s, rest
<1>8. /\ rest # <<>> /\ ~One(rest, RunTo("completed"))
      /\ ~Three(rest, RunTo("running"), JobTo("running"), Doing("exec"))
  BY <1>7 DEF One, Two, Three, RunTo, TaskTo, For
<1>9. Agreed' /\ run' \notin Terminal /\ job'.status # "claimed"
  BY <1>1, <1>6 DEF OnIt, Agreed, Both, Terminal
<1>10. Due(script[th])'
  BY <1>5, <1>8, <1>9 DEF Due
<1>. QED  BY <1>1, <1>2, <1>3, <1>4, <1>8, <1>9, <1>10, QueueRunner

LEMMA QueueWorks ==
  ASSUME Orderly, Steady, NEW th \in Threads,
         WorkDone(th) \/ WorkFails(th) \/ Recheck(th) \/ Synthesized(th) \/ SynthesisThrows(th)
  PROVE  QueueInv'
<1> DEFINE s == script[th]
           h == Head(s)
<1>1. /\ ~Idle(th) /\ MayRun(th) /\ h.op \in { "work", "recheck", "synthesize" }
      /\ UNCHANGED <<run, task, job, approvals, proc>>
  BY DEF WorkDone, WorkFails, Recheck, Synthesized, SynthesisThrows, At, store
<1>2. th \in ByRunner
  BY <1>1, OnOneSide, OrderlyIsBoth DEF Steady
<1>3. /\ s \in Seq(Ops) /\ s # <<>> /\ Stage(s)
      /\ \A u \in ByRunner \ {th} : Idle(u)
      /\ Agreed \/ Amid(s)
      /\ Due(s)
  BY <1>1, <1>2, QueueAtRunner
<1>4. Going /\ ~Pending
  BY <1>1, <1>3, StageAt
<1> HIDE DEF s
<1>5. run \notin Terminal
  BY <1>1, <1>3 DEF Due, One, JobTo
<1>6. ~Amid(s)
  BY <1>1 DEF Amid, One, Two, RunTo, TaskTo, JobTo
<1>7. Agreed /\ job.status # "claimed"
  BY <1>3, <1>4, <1>5, <1>6 DEF Agreed, Both, Going, Halted
<1>8. ASSUME NEW r, Does(th, r), r = <<>> \/ Head(r).op # "run"
      PROVE  QueueInv'
  <2>1. Due(r)
    BY <1>5, <1>8 DEF Due, One, Two, Three, RunTo
  <2>. QED  BY <1>1, <1>2, <1>3, <1>4, <1>7, <1>8, <2>1, QueueReads
<1>9. CASE WorkDone(th)
  <2> DEFINE a == SetTask(Arg(th), "completed", FALSE)
             b == Op("recheck", Arg(th), "", Keep, TRUE, FALSE)
  <2>1. Does(th, << a, b >>) /\ a.op = "task"
    BY <1>9 DEF WorkDone, SetTask, Op
  <2> HIDE DEF a, b
  <2>2. Head(<< a, b >>) = a
    OBVIOUS
  <2>. QED  BY <1>8, <2>1, <2>2
<1>10. CASE WorkFails(th)
  <2> DEFINE a == FailRun(Arg(th))
  <2>1. Does(th, << a >>) /\ a.op = "fail"
    BY <1>10 DEF WorkFails, FailRun, Op
  <2> HIDE DEF a
  <2>2. Head(<< a >>) = a
    OBVIOUS
  <2>. QED  BY <1>8, <2>1, <2>2
<1>11. CASE Recheck(th)
  <2> DEFINE a == Execute(Arg(th))
  <2>1. (Does(th, <<>>) \/ Does(th, << a >>)) /\ a.op = "exec"
    BY <1>11 DEF Recheck, Execute, Op
  <2> HIDE DEF a
  <2>2. Head(<< a >>) = a
    OBVIOUS
  <2>. QED  BY <1>8, <2>1, <2>2
<1>12. CASE Synthesized(th)
  <2> DEFINE a == Op("job", 0, "completed", Head(script[th]).runner, TRUE, FALSE)
             b == SetRun("completed", TRUE)
  <2>1. Does(th, << a, b >>) /\ a.op = "job"
    BY <1>12 DEF Synthesized, Op
  <2> HIDE DEF a, b
  <2>2. Head(<< a, b >>) = a
    OBVIOUS
  <2>. QED  BY <1>8, <2>1, <2>2
<1>13. ~SynthesisThrows(th)
  BY DEF SynthesisThrows, Orderly
<1>. QED  BY <1>9, <1>10, <1>11, <1>12, <1>13

LEMMA QueueStarts ==
  ASSUME Orderly, Steady, NEW th \in Threads, Start(th)
  PROVE  QueueInv'
<1> DEFINE s == script[th]
           a == SetRun("running", FALSE)
           b == MustSetJob("running", RunnerId[Home[th]])
           c == Execute(0)
           r == << a, b, c >>
<1>1. /\ ~Idle(th) /\ MayRun(th) /\ Head(s).op = "start"
      /\ UNCHANGED <<run, task, job, approvals, proc>>
  BY DEF Start, At, store
<1>2. th \in ByRunner
  BY <1>1, OnOneSide, OrderlyIsBoth DEF Steady
<1>3. /\ s \in Seq(Ops) /\ s # <<>>
      /\ \A u \in ByRunner \ {th} : Idle(u)
      /\ Agreed \/ Amid(s)
      /\ Due(s)
      /\ Pending => Holds(Head(s))
      /\ job.status = "claimed" => job.runner \in RunnerIds
  BY <1>1, <1>2, QueueAtRunner
<1>4. ~Pending
  BY <1>1, <1>3 DEF Holds
<1>5. Agreed
  BY <1>1, <1>3 DEF Amid, One, Two, RunTo, TaskTo, JobTo
<1>6. run \notin Terminal
  BY <1>1, <1>3 DEF Due, One, JobTo
<1>7. RunnerIds = { RunnerId[Home[th]] }
  BY <1>2 DEF RunnerIds, Orderly, Attended, ByRunner
<1>8. CASE job = [status |-> "claimed", runner |-> RunnerId[Home[th]]]
  <2>1. Does(th, r) /\ a.op = "run" /\ a.to = "running" /\ job.status = "claimed"
    BY <1>8 DEF Start, SetRun, Op
  <2>2. Both("queued", "claimed")
    BY <1>5, <1>6, <2>1 DEF Agreed, Both, Terminal
  <2> HIDE DEF a, b, c
  <2>3. r # <<>> /\ Head(r) = a
    OBVIOUS
  <2> HIDE DEF r
  <2>4. Due(r)
    BY <1>6, <2>1, <2>2, <2>3 DEF Due, One, RunTo
  <2>. QED  BY <1>1, <1>2, <1>3, <1>5, <2>1, <2>3, <2>4, QueueReads
<1>9. CASE job # [status |-> "claimed", runner |-> RunnerId[Home[th]]]
  <2>1. Does(th, <<>>)
    BY <1>9 DEF Start
  <2>2. job.status # "claimed"
    BY <1>3, <1>7, <1>9 DEF Steady, Driving, IInv, TypeOK
  <2>3. Due(<<>>)
    BY DEF Due, One, Three
  <2>. QED  BY <1>1, <1>2, <1>3, <1>4, <1>5, <2>1, <2>2, <2>3, QueueReads
<1>. QED  BY <1>8, <1>9

\* runner.claimNext finds everybody of the runner idle.
LEMMA QueueClaims ==
  ASSUME Orderly, Steady, NEW th \in Threads, Claim(th)
  PROVE  QueueInv'
<1> DEFINE a == MustSetJob("claimed", RunnerId[Home[th]])
           b == Then("start", 0, "")
           r == << a, b >>
<1>1. /\ th \in ByRunner /\ MayRun(th) /\ Does(th, r)
      /\ run = "queued" /\ job.status = "queued" /\ UNCHANGED <<run, task, job, approvals, proc>>
  BY DEF Claim, ByRunner, store
<1>2. \A u \in ByRunner : Idle(u)
  BY OrderlyIsBoth, RunnerFree DEF Steady, Driving, Recoverable
<1>3. a.op = "job"
  BY DEF MustSetJob, Op
<1> HIDE DEF a, b
<1>4. r # <<>> /\ Head(r) = a
  OBVIOUS
<1> HIDE DEF r
<1>5. ~One(r, RunTo("completed")) /\ ~Three(r, RunTo("running"), JobTo("running"), Doing("exec"))
  BY <1>3, <1>4 DEF One, Three, RunTo
<1>6. Due(r) /\ Agreed
  BY <1>1, <1>5 DEF Due, Agreed, Terminal
<1>. QED  BY <1>1, <1>2, <1>4, <1>6, QueueReads

---------------------------------------------------------------------------
(* ... and of the request *)

\* The request at its next access.
LEMMA QueueAtClient ==
  ASSUME Orderly, Steady, NEW th \in ByClient, MayRun(th)
  PROVE  LET s == script[th] IN
         /\ th \in Threads /\ s \in Seq(Ops) /\ Chain(s) /\ ~Stopping(th)
         /\ s # <<>> => /\ Head(s) \in Ops /\ Tail(s) \in Seq(Ops) /\ <<>> \o Tail(s) = Tail(s)
                        /\ Range(s) = { Head(s) } \cup Range(Tail(s)) /\ Head(s) \in Range(s)
         /\ Agreed \/ Amid(s)
         /\ Just(s)
         /\ Pending => Both("blocked", "blocked")
         /\ job.status = "blocked" => \A u \in ByRunner : Idle(u)
<1>1. Recoverable /\ Driving /\ th \in Threads
  BY OrderlyIsBoth, Sides DEF Steady
<1>2. script[th] \in Seq(Ops) /\ Chain(script[th]) /\ ~Stopping(th)
  BY <1>1, AtClient
<1>3. Agreed \/ Amid(script[th])
  BY <1>1, AgreedButFor
<1>4. Just(script[th]) /\ (Pending => Both("blocked", "blocked"))
  BY ClientFinds DEF Steady, QueueInv
<1>5. job.status = "blocked" => \A u \in ByRunner : Idle(u)
  BY <1>1 DEF Driving, ExecInv
<1>. QED  BY <1>1, <1>2, <1>3, <1>4, <1>5, ScriptNext

\* A step of the request that writes nothing.
LEMMA QueueDecides ==
  ASSUME Orderly, Steady, NEW th \in ByClient, MayRun(th),
         NEW rest, Does(th, rest), UNCHANGED <<run, job, approvals, proc>>,
         Agreed \/ Amid(rest), Just(rest)
  PROVE  QueueInv'
<1>1. script'[th] = rest
  BY Sides, ComingAfter DEF Steady, Driving
<1>2. /\ Pending' = Pending /\ Agreed' = Agreed
      /\ \A s : Amid(s)' = Amid(s) /\ Just(s)' = Just(s)
  BY TallyKept
<1>3. (Agreed' \/ Amid(script[th])') /\ Just(script[th])'
  BY <1>1, <1>2
<1>. QED  BY <1>2, <1>3, QueueClient

\* Nothing left, and one access of the job left.
LEMMA JustShort ==
  /\ Just(<<>>)
  /\ \A s \in Seq(Ops), to \in JobStatus \ { "cancelled" } :
       One(s, JobTo(to)) => (run = to => Just(s)) /\ (run' = to => Just(s)')
<1>1. Range(<<>>) = {} /\ \A A : ~One(<<>>, A)
  BY ShapeShort DEF One
<1>2. Just(<<>>)
  BY <1>1 DEF Just
<1>3. ASSUME NEW s \in Seq(Ops), NEW to \in JobStatus \ { "cancelled" }, One(s, JobTo(to))
      PROVE  (run = to => Just(s)) /\ (run' = to => Just(s)')
  <2>1. Range(s) = { Head(s) } /\ Head(s) \in JobTo(to)
    BY <1>3, OneNext
  <2>2. \A o \in Range(s) : o.op \in { "job", "save" } /\ o.to = to
    BY <2>1 DEF JobTo
  <2>3. \A status \in JobStatus : One(s, JobTo(status)) => status = to
    BY <1>3 DEF One, JobTo
  <2>. QED  BY <2>2, <2>3 DEF Just, Rules
<1>. QED  BY <1>2, <1>3

LEMMA QueueClientRun ==
  ASSUME Orderly, Steady, NEW th \in ByClient, RunWrite(th)
  PROVE  QueueInv'
<1> DEFINE s    == script[th]
           o    == Head(s)
           rest == Tail(s)
<1>1. /\ s # <<>> /\ MayRun(th) /\ o.op = "run" /\ Follow(th, <<>>)
      /\ UNCHANGED <<task, job, approvals, proc>>
  BY DEF RunWrite, At, Idle
<1>2. /\ th \in Threads /\ s \in Seq(Ops) /\ Chain(s) /\ ~Stopping(th)
      /\ rest \in Seq(Ops) /\ <<>> \o rest = rest
      /\ Range(s) = { o } \cup Range(rest) /\ o \in Range(s)
      /\ Agreed \/ Amid(s)
      /\ Just(s)
      /\ Pending => Both("blocked", "blocked")
      /\ job.status = "blocked" => \A u \in ByRunner : Idle(u)
  BY <1>1, QueueAtClient
<1>3. Does(th, rest) /\ run' = o.to
  BY <1>1, <1>2 DEF Follow, RunWrite, To
<1>4. script'[th] = rest
  BY <1>2, <1>3, ComingAfter DEF Steady, Driving
<1>5. Pending' = Pending
  BY <1>1 DEF Pending
<1>6. /\ o.to # "cancelled"
      /\ Rules(o) => Both("blocked", "blocked") /\ ~Pending
      /\ \E a \in Range(rest) : a \in JobTo(o.to)
  <2>1. o \notin JobTo(o.to)
    BY <1>1 DEF JobTo
  <2>. QED  BY <1>1, <1>2, <2>1 DEF Just
<1> HIDE DEF s, rest, o
<1>7. rest # <<>> /\ ~One(rest, TaskTo("queued"))
  <2>1. Range(<<>>) = {}
    BY ShapeShort
  <2>2. ASSUME One(rest, TaskTo("queued")) PROVE FALSE
    <3>1. Range(rest) = { Head(rest) } /\ Head(rest) \in TaskTo("queued")
      BY <1>2, <2>2, OneNext
    <3>. QED  BY <1>6, <3>1 DEF TaskTo, JobTo
  <2>. QED  BY <1>6, <2>1, <2>2
<1>8. \/ run \in { "queued", "running" } /\ o.to = "paused" /\ One(rest, JobTo("paused"))
      \/ o.to = "queued" /\ Two(rest, TaskTo("queued"), JobTo("queued"))
      \/ o.to = "failed" /\ One(rest, JobTo("failed"))
  <2>1. ASSUME NEW to, One(s, RunTo(to)) PROVE FALSE
    BY <1>7, <2>1 DEF One, rest
  <2>2. ASSUME NEW to, Two(s, RunTo(to), JobTo(to)) PROVE o.to = to /\ One(rest, JobTo(to))
    BY <2>2 DEF Two, RunTo, o, rest
  <2>3. ASSUME NEW t \in Tasks, Two(s, RunTo("queued"), For(t, TaskTo("queued"))) PROVE FALSE
    <3>1. One(rest, TaskTo("queued"))
      BY <2>3 DEF Two, One, For, rest
    <3>. QED  BY <1>7, <3>1
  <2>4. ASSUME NEW t \in Tasks, Three(s, RunTo("queued"), For(t, TaskTo("queued")), JobTo("queued"))
        PROVE  o.to = "queued" /\ Two(rest, TaskTo("queued"), JobTo("queued"))
    BY <2>4 DEF Three, Two, For, RunTo, o, rest
  <2>5. \/ /\ run \in { "queued", "running" }
           /\ One(s, RunTo("paused")) \/ Two(s, RunTo("paused"), JobTo("paused"))
        \/ One(s, RunTo("cancelled")) \/ Two(s, RunTo("cancelled"), JobTo("cancelled"))
        \/ \E t \in Tasks :
             \/ Two(s, RunTo("queued"), For(t, TaskTo("queued")))
             \/ Three(s, RunTo("queued"), For(t, TaskTo("queued")), JobTo("queued"))
        \/ Two(s, RunTo("failed"), JobTo("failed"))
    BY <1>1, <1>2, ChainAt DEF o
  <2>. QED  BY <1>6, <2>1, <2>2, <2>3, <2>4, <2>5
<1>9. ASSUME run \in { "queued", "running" }, o.to = "paused", One(rest, JobTo("paused"))
      PROVE  QueueInv'
  <2>1. ~Amid(s)
    BY <1>1, <1>9 DEF Amid, One, Two, TaskTo, JobTo, RunTo, o
  <2>2. job.status \in { "queued", "claimed", "running" }
    BY <1>2, <1>9, <2>1 DEF Agreed, Both, Terminal
  <2>3. Amid(script[th])'
    BY <1>1, <1>3, <1>4, <1>9, <2>2 DEF Amid
  <2>4. Just(script[th])'
    BY <1>2, <1>3, <1>4, <1>9, JustShort DEF JobStatus
  <2>5. ~Pending' /\ run' \notin Terminal
    BY <1>2, <1>3, <1>5, <1>9 DEF Both, Terminal
  <2>. QED  BY <1>1, <1>2, <1>3, <2>3, <2>4, <2>5, QueueClient
<1>10. ASSUME o.to = "queued", Two(rest, TaskTo("queued"), JobTo("queued"))
       PROVE  QueueInv'
  <2>1. Both("blocked", "blocked") /\ ~Pending
    BY <1>1, <1>6, <1>10 DEF Rules
  <2>2. Amid(script[th])'
    BY <1>1, <1>3, <1>4, <1>10, <2>1 DEF Amid, Both
  <2>3. Range(rest) = { Head(rest), Head(Tail(rest)) }
    BY <1>2, <1>10, TwoNext
  <2>4. /\ Head(rest).op = "task" /\ Head(rest).to = "queued"
        /\ Head(Tail(rest)).op \in { "job", "save" } /\ Head(Tail(rest)).to = "queued"
        /\ \A A : ~One(rest, JobTo(A))
    BY <1>10 DEF One, Two, TaskTo, JobTo
  <2>5. Just(script[th])'
    BY <1>4, <2>3, <2>4 DEF Just, Rules
  <2>6. ~Pending' /\ run' \notin Terminal /\ job'.status # "claimed"
    BY <1>1, <1>3, <1>5, <1>10, <2>1 DEF Both, Terminal
  <2>. QED  BY <1>1, <1>2, <1>3, <2>2, <2>5, <2>6, QueueClient
<1>11. ASSUME o.to = "failed", One(rest, JobTo("failed"))
       PROVE  QueueInv'
  <2>1. Both("blocked", "blocked") /\ ~Pending
    BY <1>1, <1>6, <1>11 DEF Rules
  <2>2. Amid(script[th])'
    BY <1>1, <1>3, <1>4, <1>11, <2>1 DEF Amid, Both
  <2>3. Just(script[th])'
    BY <1>2, <1>3, <1>4, <1>11, JustShort DEF JobStatus
  <2>4. ~Pending' /\ \A u \in ByRunner : Idle(u)
    BY <1>2, <1>5, <2>1 DEF Both
  <2>. QED  BY <1>1, <1>2, <1>3, <2>2, <2>3, <2>4, QueueClient
<1>. QED  BY <1>8, <1>9, <1>10, <1>11

LEMMA QueueClientTask ==
  ASSUME Orderly, Steady, NEW th \in ByClient, TaskWrite(th)
  PROVE  QueueInv'
<1> DEFINE s    == script[th]
           o    == Head(s)
           rest == Tail(s)
<1>1. /\ s # <<>> /\ MayRun(th) /\ o.op = "task" /\ Follow(th, <<>>)
      /\ UNCHANGED <<run, job, approvals, proc>>
  BY DEF TaskWrite, At, Idle
<1>2. /\ s \in Seq(Ops) /\ Chain(s)
      /\ rest \in Seq(Ops) /\ <<>> \o rest = rest
      /\ Range(s) = { o } \cup Range(rest)
      /\ Agreed \/ Amid(s)
      /\ Just(s)
  BY <1>1, QueueAtClient
<1>3. Does(th, rest)
  BY <1>1, <1>2 DEF Follow
<1>4. \/ run = "queued" /\ (One(s, TaskTo("queued")) \/ Two(s, TaskTo("queued"), JobTo("queued")))
      \/ Three(s, TaskTo("failed"), RunTo("failed"), JobTo("failed"))
  <2>1. \A t : One(s, For(t, TaskTo("queued"))) => One(s, TaskTo("queued"))
    BY DEF One, For
  <2>2. \A t : Two(s, For(t, TaskTo("queued")), JobTo("queued"))
                 => Two(s, TaskTo("queued"), JobTo("queued"))
    BY DEF Two, For
  <2>. QED  BY <1>1, <1>2, <2>1, <2>2, ChainAt DEF o
<1> HIDE DEF s
<1>5. ASSUME \A status \in JobStatus : One(rest, JobTo(status)) => run = status
      PROVE  Just(rest)
  <2>1. o \notin JobTo(o.to) /\ \A status : o \notin JobTo(status)
    BY <1>1 DEF JobTo
  <2>. QED  BY <1>2, <1>5, <2>1 DEF Just
<1>6. CASE run = "queued" /\ One(s, TaskTo("queued"))
  <2>1. rest = <<>>
    BY <1>6 DEF One, rest
  <2>2. ~Amid(s)
    BY <1>1, <1>6 DEF Amid, One, Two, TaskTo, JobTo, RunTo
  <2>. QED  BY <1>1, <1>2, <1>3, <2>1, <2>2, JustShort, QueueDecides
<1>7. CASE run = "queued" /\ Two(s, TaskTo("queued"), JobTo("queued"))
  <2>1. One(rest, JobTo("queued"))
    BY <1>7 DEF Two, rest
  <2>2. Agreed \/ Both("queued", "blocked")
    BY <1>2, <1>7 DEF Amid, Both, One, Two, TaskTo, JobTo, RunTo
  <2>3. Agreed \/ Amid(rest)
    BY <2>1, <2>2 DEF Amid
  <2>4. Just(rest)
    BY <1>2, <1>7, <2>1, JustShort DEF JobStatus
  <2> HIDE DEF rest
  <2>. QED  BY <1>1, <1>3, <2>3, <2>4, QueueDecides
<1>8. CASE Three(s, TaskTo("failed"), RunTo("failed"), JobTo("failed"))
  <2>1. Two(rest, RunTo("failed"), JobTo("failed"))
    BY <1>8 DEF Three, rest
  <2>2. ~Amid(s)
    BY <1>8 DEF Amid, One, Two, Three, TaskTo, JobTo, RunTo
  <2>3. \A A : ~One(rest, JobTo(A))
    BY <2>1 DEF One, Two, JobTo, RunTo
  <2>4. Just(rest)
    BY <1>5, <2>3
  <2> HIDE DEF rest
  <2>. QED  BY <1>1, <1>2, <1>3, <2>2, <2>4, QueueDecides
<1>. QED  BY <1>4, <1>6, <1>7, <1>8

\* The job follows the run.
LEMMA FollowsRun ==
  ASSUME Orderly, Steady, NEW th \in ByClient, MayRun(th), script[th] # <<>>,
         Head(script[th]).op \in { "job", "save" }
  PROVE  LET s == script[th] IN
         /\ run \in { "paused", "queued", "failed" }
         /\ One(s, JobTo(run)) /\ Head(s).to = run
<1> DEFINE s == script[th]
<1>1. s \in Seq(Ops) /\ Chain(s) /\ Just(s) /\ Head(s) \in Range(s)
  BY QueueAtClient
<1>2. \E to \in { "paused", "cancelled", "queued", "failed" } : One(s, JobTo(to))
  BY <1>1, ChainAt
<1>3. PICK to \in { "paused", "cancelled", "queued", "failed" } : One(s, JobTo(to))
  BY <1>2
<1>4. Head(s).to = to /\ to # "cancelled"
  BY <1>1, <1>3 DEF One, JobTo, Just
<1>5. run = to
  BY <1>1, <1>3 DEF Just, JobStatus
<1>. QED  BY <1>3, <1>4, <1>5

LEMMA QueueClientReads ==
  ASSUME Orderly, Steady, NEW th \in ByClient, JobRead(th)
  PROVE  QueueInv'
<1> DEFINE s == script[th]
           o == Head(s)
<1>1. /\ s # <<>> /\ MayRun(th) /\ o.op = "job" /\ UNCHANGED <<run, job, approvals, proc>>
  BY DEF JobRead, At, Idle, store
<1>2. /\ th \in Threads /\ s \in Seq(Ops) /\ (Agreed \/ Amid(s))
      /\ run \in { "paused", "queued", "failed" } /\ One(s, JobTo(run)) /\ o.to = run
  BY <1>1, QueueAtClient, FollowsRun
<1>3. Tail(s) = <<>> /\ Driving
  BY <1>2 DEF One, Steady
<1>4. \/ \E r \in Seq(Ops) : Does(th, r) /\ One(r, JobTo(run))
      \/ ~(o.to = job.status \/ CanTransition(job.status, o.to)) /\ Does(th, <<>>)
  BY <1>1, <1>2, <1>3, ReadJob DEF One
<1> HIDE DEF s, o
<1>5. ASSUME NEW r \in Seq(Ops), Does(th, r), One(r, JobTo(run)) PROVE QueueInv'
  <2>1. ~One(s, RunTo("completed")) /\ run # "blocked"
    BY <1>2 DEF One, RunTo, JobTo
  <2>2. ~Two(s, JobTo("running"), Doing("exec")) /\ ~Two(s, TaskTo("queued"), JobTo("queued"))
    BY <1>2 DEF One, Two
  <2>3. Agreed \/ Amid(r)
    BY <1>2, <1>5, <2>1, <2>2 DEF Amid, Both
  <2>4. Just(r)
    BY <1>2, <1>5, JustShort DEF JobStatus
  <2>. QED  BY <1>1, <1>5, <2>3, <2>4, QueueDecides
<1>6. ASSUME ~(o.to = job.status \/ CanTransition(job.status, o.to)), Does(th, <<>>)
      PROVE  QueueInv'
  <2>1. run = "failed" => job.status \notin { "running", "blocked" }
    BY <1>2, <1>6 DEF CanTransition, JobMoves
  <2>2. run = "paused" => job.status \notin { "queued", "claimed", "running" }
    BY <1>2, <1>6 DEF CanTransition, JobMoves
  <2>3. run = "queued" => job.status # "blocked"
    BY <1>2, <1>6 DEF CanTransition, JobMoves
  <2>4. ~Amid(s)
    BY <1>2, <2>1, <2>2, <2>3 DEF Amid, Both, One, RunTo, JobTo
  <2>. QED  BY <1>1, <1>2, <1>6, <2>4, JustShort, QueueDecides
<1>. QED  BY <1>4, <1>5, <1>6

LEMMA QueueClientJob ==
  ASSUME Orderly, Steady, NEW th \in ByClient, JobWrite(th)
  PROVE  QueueInv'
<1> DEFINE s == script[th]
           o == Head(s)
<1>1. /\ s # <<>> /\ MayRun(th) /\ o.op = "save" /\ Follow(th, <<>>)
      /\ UNCHANGED <<run, task, approvals, proc>> /\ job'.status = o.to
  BY DEF JobWrite, At, Idle, To
<1>2. /\ th \in Threads /\ s \in Seq(Ops) /\ (Pending => Both("blocked", "blocked"))
      /\ run \in { "paused", "queued", "failed" } /\ One(s, JobTo(run)) /\ o.to = run
  BY <1>1, QueueAtClient, FollowsRun
<1>3. Does(th, <<>>)
  BY <1>1, <1>2, OneNext DEF Follow
<1> HIDE DEF s, o
<1>4. Agreed' /\ job'.status # "claimed"
  BY <1>1, <1>2 DEF Agreed, Both
<1>5. ~Pending' /\ (run' \in Terminal => run \in Terminal)
  BY <1>1, <1>2 DEF Pending, Both
<1>6. Just(script[th])'
  <2>1. script'[th] = <<>>
    BY <1>2, <1>3, ComingAfter DEF Steady, Driving
  <2>2. Range(<<>>) = {} /\ \A A : ~One(<<>>, A)
    BY ShapeShort DEF One
  <2>. QED  BY <2>1, <2>2 DEF Just
<1>. QED  BY <1>1, <1>3, <1>4, <1>5, <1>6, QueueClient

LEMMA QueueClientFails ==
  ASSUME Orderly, Steady, NEW th \in ByClient, Failing(th)
  PROVE  QueueInv'
<1> DEFINE s == script[th]
<1>1. /\ s # <<>> /\ MayRun(th) /\ Head(s).op = "fail" /\ UNCHANGED <<run, job, approvals, proc>>
  BY DEF Failing, At, store, Idle
<1>2. /\ th \in Threads /\ s \in Seq(Ops) /\ Chain(s) /\ Head(s) \in Range(s)
      /\ Agreed \/ Amid(s)
      /\ Just(s)
  BY <1>1, QueueAtClient
<1>3. Tail(s) = <<>>
  BY <1>1, <1>2, ChainAt DEF One
<1>4. PICK r \in Seq(Ops) :
        /\ Does(th, r)
        /\ \/ Three(r, TaskTo("failed"), RunTo("failed"), JobTo("failed"))
           \/ Two(r, RunTo("failed"), JobTo("failed"))
  BY <1>2, <1>3, FailsMade DEF Steady
<1>5. Both("blocked", "blocked") /\ ~Pending
  BY <1>1, <1>2 DEF Just, Rules
<1>6. Agreed
  BY <1>5 DEF Agreed
<1>7. /\ \A o \in Range(r) : o.to = "failed"
      /\ \E o \in Range(r) : o \in JobTo("failed")
  <2>1. CASE Three(r, TaskTo("failed"), RunTo("failed"), JobTo("failed"))
    <3>1. Head(r) \in TaskTo("failed")
      BY <2>1 DEF Three
    <3>2. PICK b \in RunTo("failed"), c \in JobTo("failed") : Range(r) = { Head(r), b, c }
      BY <2>1, ThreeNext
    <3>. QED  BY <3>1, <3>2 DEF TaskTo, RunTo, JobTo
  <2>2. CASE Two(r, RunTo("failed"), JobTo("failed"))
    <3>1. /\ Head(r) \in RunTo("failed") /\ Head(Tail(r)) \in JobTo("failed")
          /\ Range(r) = { Head(r), Head(Tail(r)) }
      BY <2>2, TwoNext
    <3>. QED  BY <3>1 DEF RunTo, JobTo
  <2>. QED  BY <1>4, <2>1, <2>2
<1>8. \A A : ~One(r, JobTo(A))
  BY <1>4 DEF One, Two, Three, TaskTo, RunTo, JobTo
<1>9. Just(r)
  BY <1>5, <1>7, <1>8 DEF Just
<1>. QED  BY <1>1, <1>4, <1>6, <1>9, QueueDecides

\* approvals.decide goes on after its write, and finds the job still blocked.
LEMMA QueueDecided ==
  ASSUME Orderly, Steady, NEW th \in Threads, Decided(th)
  PROVE  QueueInv'
<1> DEFINE s == script[th]
           o == Head(s)
           t == o.arg
           a == SetRun("queued", FALSE)
           b == SetTask(t, "queued", FALSE)
           c == SetJob("queued", Keep)
           f == FailRun(t)
<1>1. /\ ~Idle(th) /\ s # <<>> /\ MayRun(th) /\ o.op = "decided"
      /\ UNCHANGED <<run, job, approvals, proc>>
  BY DEF Decided, At, store, Idle
<1>2. th \in ByClient
  BY <1>1, OnOneSide, OrderlyIsBoth DEF Steady
<1>3. /\ s \in Seq(Ops) /\ o \in Range(s) /\ o \in Ops /\ Just(s)
  BY <1>1, <1>2, QueueAtClient
<1>4. Both("blocked", "blocked") /\ ~Pending /\ Agreed
  BY <1>1, <1>3 DEF Just, Rules, Agreed
<1>5. t \in Tasks
  BY <1>1, <1>3, OpShape
<1>6. /\ a \in RunTo("queued") /\ b \in TaskTo("queued") /\ c \in JobTo("queued")
      /\ f \in Doing("fail") /\ f.to = ""
  BY <1>5, AccessMade DEF RunStatus, TaskStatus, JobStatus, FailRun, Op
<1>7. Does(th, << a, b >> \o << c >>) \/ Does(th, << f >>)
  BY <1>4 DEF Decided, To, Arg, Both
<1> HIDE DEF s, o, t, a, b, c, f
<1>8. << a, b >> \o << c >> = << a, b, c >>
  BY <1>6, Joined DEF RunTo, TaskTo, JobTo
<1>9. CASE Does(th, << a, b, c >>)
  <2> DEFINE r == << a, b, c >>
  <2>1. Range(r) = { a, b, c }
    BY DEF Range
  <2>2. r # <<>> /\ Head(r) = a
    OBVIOUS
  <2> HIDE DEF r
  <2>3. \A A : ~One(r, JobTo(A))
    BY <1>6, <2>2 DEF One, RunTo, JobTo
  <2>4. /\ \A x \in Range(r) : x.to = "queued"
        /\ \E x \in Range(r) : x \in JobTo("queued")
    BY <1>6, <2>1 DEF RunTo, TaskTo, JobTo
  <2>5. Just(r)
    BY <1>4, <2>3, <2>4 DEF Just
  <2>. QED  BY <1>1, <1>2, <1>4, <1>9, <2>5, QueueDecides DEF r
<1>10. CASE Does(th, << f >>)
  <2> DEFINE r == << f >>
  <2>1. Range(r) = { f } /\ One(r, Doing("fail"))
    BY <1>6, Written, ShapeShort
  <2> HIDE DEF r
  <2>2. \A A : ~One(r, JobTo(A))
    BY <2>1 DEF One, Doing, JobTo
  <2>3. Just(r)
    BY <1>4, <1>6, <2>1, <2>2 DEF Just, Doing
  <2>. QED  BY <1>1, <1>2, <1>4, <1>10, <2>3, QueueDecides DEF r
<1>. QED  BY <1>7, <1>8, <1>9, <1>10

LEMMA QueueExpires ==
  ASSUME Orderly, Steady, NEW th \in Threads, ExpireWrite(th)
  PROVE  QueueInv'
<1> DEFINE s == script[th]
           i == Head(s).arg
<1>1. /\ ~Idle(th) /\ s # <<>> /\ MayRun(th) /\ Head(s).op = "expire" /\ Follow(th, <<>>)
      /\ UNCHANGED <<run, task, job, proc>>
      /\ approvals' = [approvals EXCEPT ![i].status = "expired"]
  BY DEF ExpireWrite, At, Idle, Arg
<1>2. th \in ByClient
  BY <1>1, OnOneSide, OrderlyIsBoth DEF Steady
<1>3. /\ th \in Threads /\ s \in Seq(Ops) /\ Chain(s) /\ (Agreed \/ Amid(s))
  BY <1>1, <1>2, QueueAtClient
<1>4. i \in DOMAIN approvals /\ <<>> \o Tail(s) = <<>>
  <2>1. PICK k \in DOMAIN approvals : One(s, For(k, Doing("expire")))
    BY <1>1, <1>3, ChainAt
  <2>2. k = i
    BY <2>1 DEF One, For
  <2>. QED  BY <1>3, <2>1, <2>2, OneNext
<1>5. Does(th, <<>>)
  BY <1>1, <1>4 DEF Follow
<1>6. ~Amid(s)
  BY <1>1 DEF Amid, One, Two, RunTo, TaskTo, JobTo
<1> HIDE DEF s, i
<1>7. Agreed'
  BY <1>1, <1>3, <1>6 DEF Agreed, Both
<1>8. Pending' => Pending
  <2>1. \A k \in DOMAIN approvals : approvals[k] \in [task : Tasks, status : ApprovalStatus]
    <3>1. approvals \in Seq([task : Tasks, status : ApprovalStatus])
      BY DEF Steady, Driving, IInv, TypeOK
    <3>. QED  BY <3>1, LenProperties, ElementOfSeq
  <2>2. /\ DOMAIN approvals' = DOMAIN approvals
        /\ \A k \in DOMAIN approvals : k # i => approvals'[k] = approvals[k]
        /\ approvals'[i].status = "expired"
    BY <1>1, <1>4, <2>1
  <2>. QED  BY <2>2 DEF Pending
<1>9. Just(script[th])'
  <2>1. script'[th] = <<>>
    BY <1>3, <1>5, ComingAfter DEF Steady, Driving
  <2>2. Range(<<>>) = {} /\ \A A : ~One(<<>>, A)
    BY ShapeShort DEF One
  <2>. QED  BY <2>1, <2>2 DEF Just
<1>. QED  BY <1>1, <1>2, <1>5, <1>7, <1>8, <1>9, QueueClient

LEMMA QueueRequests ==
  ASSUME Orderly, Steady, NEW th \in Threads, Pause(th) \/ Expire(th)
  PROVE  QueueInv'
<1>1. /\ th \in ByClient /\ MayRun(th) /\ script[th] = <<>>
      /\ UNCHANGED <<run, job, approvals, proc>>
  BY DEF Pause, Expire, Request, ByClient, Idle, store
<1>2. Agreed
  BY <1>1, QueueAtClient, AmidMoves
<1>3. CASE Pause(th)
  <2> DEFINE a == SetRun("paused", FALSE)
             b == SetJob("paused", job.runner)
             r == << a, b >>
  <2>1. job.status \in { "queued", "claimed", "running" }
    BY <1>2, <1>3 DEF Pause, Agreed, Both, Terminal
  <2>2. Does(th, << a >> \o << b >>)
    BY <1>3, <2>1 DEF Pause
  <2>3. a \in RunTo("paused") /\ b \in JobTo("paused")
    <3>1. job.runner \in RunnerIds \cup { NoRunner }
      BY DEF Steady, Driving, IInv, TypeOK
    <3>. QED  BY <3>1, AccessMade DEF RunStatus, JobStatus
  <2> HIDE DEF a, b
  <2>4. Does(th, r)
    BY <2>2, <2>3, Joined DEF RunTo, JobTo
  <2>5. Range(r) = { a, b } /\ Two(r, RunTo("paused"), JobTo("paused"))
    BY <2>3, Written DEF Range
  <2> HIDE DEF r
  <2>6. \A A : ~One(r, JobTo(A))
    BY <2>5 DEF One, Two, RunTo, JobTo
  <2>7. /\ \A x \in Range(r) : x.to = "paused" /\ x.op \in { "run", "job", "save" }
        /\ \E x \in Range(r) : x \in JobTo("paused")
    BY <2>3, <2>5 DEF RunTo, JobTo
  <2>8. Just(r)
    BY <2>6, <2>7 DEF Just, Rules
  <2>. QED  BY <1>1, <1>2, <2>4, <2>8, QueueDecides
<1>4. CASE Expire(th)
  <2>1. PICK i \in DOMAIN approvals : Does(th, << Then("expire", i, "") >>)
    BY <1>4 DEF Expire
  <2> DEFINE o == Then("expire", i, "")
             r == << o >>
  <2>2. o.op = "expire" /\ o.to = "" /\ Does(th, r)
    BY <2>1 DEF Then, Op
  <2> HIDE DEF o
  <2>3. Range(r) = { o } /\ Head(r) = o
    BY ShapeShort
  <2> HIDE DEF r
  <2>4. \A A : ~One(r, JobTo(A))
    BY <2>2, <2>3 DEF One, JobTo
  <2>5. Just(r)
    BY <2>2, <2>3, <2>4 DEF Just, Rules
  <2>. QED  BY <1>1, <1>2, <2>2, <2>5, QueueDecides
<1>. QED  BY <1>3, <1>4

\* A decision is of the pending approval, and the run waits for it.
LEMMA QueueVerdict ==
  ASSUME Orderly, Steady, NEW th \in Threads, Decide(th)
  PROVE  QueueInv'
<1>1. /\ th \in ByClient /\ MayRun(th) /\ script[th] = <<>> /\ th \in Threads
      /\ UNCHANGED <<run, task, job, proc>>
  BY DEF Decide, Request, ByClient, Idle
<1>2. \E i \in DOMAIN approvals, verdict \in { "approved", "denied" } :
        /\ Request(th, IF approvals[i].status = "pending" THEN "decide" ELSE "redecide")
        /\ approvals' = [approvals EXCEPT ![i].status = verdict]
        /\ Does(th, << Then("decided", approvals[i].task, verdict) >>)
  BY DEF Decide
<1>3. PICK i \in DOMAIN approvals, verdict \in { "approved", "denied" } :
        /\ Request(th, IF approvals[i].status = "pending" THEN "decide" ELSE "redecide")
        /\ approvals' = [approvals EXCEPT ![i].status = verdict]
        /\ Does(th, << Then("decided", approvals[i].task, verdict) >>)
  BY <1>2
<1>4. approvals[i].status = "pending"
  BY <1>3 DEF Request, Orderly
<1>5. Both("blocked", "blocked")
  BY <1>1, <1>4, QueueAtClient DEF Pending
<1>6. ~Pending'
  <2>1. \A k \in DOMAIN approvals : approvals[k] \in [task : Tasks, status : ApprovalStatus]
    <3>1. approvals \in Seq([task : Tasks, status : ApprovalStatus])
      BY DEF Steady, Driving, IInv, TypeOK
    <3>. QED  BY <3>1, LenProperties, ElementOfSeq
  <2>2. /\ DOMAIN approvals' = DOMAIN approvals
        /\ \A k \in DOMAIN approvals : k # i => approvals'[k] = approvals[k]
        /\ approvals'[i].status = verdict
    BY <1>3, <2>1
  <2>3. \A k \in DOMAIN approvals : k # i => approvals[k].status # "pending"
    BY <1>4 DEF Steady, Driving, DriveInv, Apart
  <2>. QED  BY <2>2, <2>3 DEF Pending
<1> DEFINE o == Then("decided", approvals[i].task, verdict)
           r == << o >>
<1>7. o.op = "decided" /\ o.to = verdict /\ Does(th, r)
  BY <1>3 DEF Then, Op
<1> HIDE DEF o
<1>8. Range(r) = { o } /\ Head(r) = o
  BY ShapeShort
<1> HIDE DEF r
<1>9. Agreed' /\ Both("blocked", "blocked")'
  BY <1>1, <1>5 DEF Agreed, Both
<1>10. Just(script[th])'
  <2>1. script'[th] = r
    BY <1>1, <1>7, ComingAfter DEF Steady, Driving
  <2>2. \A A : ~One(r, JobTo(A))
    BY <1>7, <1>8 DEF One, JobTo
  <2>. QED  BY <1>6, <1>7, <1>8, <1>9, <2>1, <2>2 DEF Just
<1>11. run' \notin Terminal /\ job'.status # "claimed"
  BY <1>9 DEF Both, Terminal
<1>. QED  BY <1>1, <1>6, <1>7, <1>9, <1>10, <1>11, QueueClient

---------------------------------------------------------------------------
(* Every step *)

LEMMA QueueStepwise ==
  ASSUME Orderly, Steady, [Next]_vars
  PROVE  Steady'
<1>1. Recoverable /\ Ordinary /\ Driving /\ WholeInv
  BY OrderlyIsBoth DEF Steady, Driving
<1>2. Driving'
  BY <1>1, DriveStepwise
<1>3. ASSUME NEW th \in Threads, StoreStep(th) PROVE QueueInv'
  <2>1. ~Bail(th)
    BY <1>1, NobodyBails
  <2>2. CASE th \in ByRunner
    BY <1>3, <2>1, <2>2, QueueRunnerRun, QueueRunnerTask, QueueRunnerReads, QueueRunnerJob,
       QueueRunnerFails DEF StoreStep
  <2>3. CASE th \in ByClient
    BY <1>3, <2>1, <2>3, QueueClientRun, QueueClientTask, QueueClientReads, QueueClientJob,
       QueueClientFails DEF StoreStep
  <2>. QED  BY <2>2, <2>3, Sides
<1>4. ASSUME NEW th \in Threads, ExecStep(th) PROVE QueueInv'
  BY <1>4, QueueExecutes, QueueAsks, QueueWorks DEF ExecStep
<1>5. ASSUME NEW th \in Threads, AfterStep(th) PROVE QueueInv'
  <2>1. ~(OpenQuestion(th) \/ ResolveWrite(th) \/ Resolved(th)
          \/ CloseQuestion(th) \/ Closed(th) \/ Replied(th))
    BY <1>1, OnOneSide DEF OpenQuestion, ResolveWrite, Resolved, CloseQuestion, Closed, Replied, At
  <2>. QED  BY <1>5, <2>1, QueueStarts, QueueDecided, QueueExpires DEF AfterStep
<1>6. ASSUME NEW th \in Threads, RequestStep(th) PROVE QueueInv'
  <2>1. ~(Resume(th) \/ Cancel(th) \/ ReportFailure(th) \/ Propose(th) \/ AskUser(th)
          \/ Resolve(th) \/ Reply(th))
    BY DEF Resume, Cancel, ReportFailure, Propose, AskUser, Resolve, Reply, Request, Orderly
  <2>. QED  BY <1>6, <2>1, QueueRequests, QueueVerdict DEF RequestStep
<1>7. \A th \in Threads : ~WorkProposes(th)
  BY DEF WorkProposes, Orderly
<1>8. \A p \in Procs : ~ProcStep(p)
  BY <1>1 DEF ProcStep, Crash, Shutdown, Stopped, Boot, WholeInv, Orderly
<1>9. CASE Next
  BY <1>2, <1>3, <1>4, <1>5, <1>6, <1>7, <1>8, <1>9, QueueClaims DEF Next, ThreadStep, Steady
<1>10. CASE UNCHANGED vars
  <2>1. UNCHANGED <<run, job, approvals, script>>
    BY <1>10 DEF vars
  <2>2. /\ Pending' = Pending /\ Agreed' = Agreed /\ \A r, j : Both(r, j)' = Both(r, j)
        /\ \A s : Amid(s)' = Amid(s) /\ Due(s)' = Due(s) /\ Just(s)' = Just(s)
    BY <2>1, TallyKept
  <2>3. Busy' = Busy
    BY <2>1 DEF Busy, Idle
  <2>4. /\ \A th \in Threads : Amid(script[th])' = Amid(script[th])
        /\ \A th \in ByRunner : Due(script[th])' = Due(script[th])
        /\ \A th \in ByClient : Just(script[th])' = Just(script[th])
    BY <2>1, <2>2
  <2>5. Both("blocked", "blocked")' = Both("blocked", "blocked")
    BY <2>2
  <2>6. QueueInv'
    BY <2>1, <2>2, <2>3, <2>4, <2>5 DEF Steady, QueueInv
  <2>. QED  BY <1>2, <2>6 DEF Steady
<1>. QED  BY <1>9, <1>10

LEMMA QueueInitially == Init => Steady
<1> SUFFICES ASSUME Init PROVE Steady
  OBVIOUS
<1>1. Driving
  BY Initially, JobInitially, ExecInitially, WholeInitially, DriveInitially DEF Driving
<1>2. Agreed /\ job.status # "claimed" /\ run \notin Terminal
  BY DEF Init, Agreed, Terminal
<1>3. ~Pending
  BY DEF Init, Pending
<1>4. \A th \in Threads : script[th] = <<>>
  BY DEF Init
<1>5. Due(<<>>) /\ Just(<<>>)
  BY JustShort DEF Due, One, Three
<1>. QED  BY <1>1, <1>2, <1>3, <1>4, <1>5, Sides DEF Steady, QueueInv

\* When nothing is in flight, an orderly run can always go on or is over: none
\* is left running, a queued run has a job that the runner can claim, and a
\* blocked one has a pending approval of its next task and a job the decision
\* puts back in the queue.
THEOREM NothingStrandedHolds ==
  ASSUME Orderly
  PROVE  Spec => []NothingStranded
<1>1. ASSUME Steady PROVE NothingStranded
  <2>1. StillDriven
    BY <1>1, QuietIsDriven DEF Steady, Driving
  <2>2. ASSUME Quiet, run = "queued" PROVE job.status = "queued"
    <3>1. \A th \in Threads : script[th] = <<>>
      BY <2>2 DEF Quiet, Idle
    <3>2. Agreed
      BY <1>1, <3>1, AmidMoves DEF Steady, QueueInv
    <3>3. ~Busy
      BY <2>2, Sides DEF Busy, Quiet
    <3>4. job.status # "claimed"
      BY <1>1, <3>3 DEF Steady, QueueInv
    <3>. QED  BY <2>2, <3>2, <3>4 DEF Agreed, Both
  <2>. QED  BY <2>1, <2>2 DEF NothingStranded, QueuedIsClaimable
<1>2. Steady /\ [Next]_vars => Steady'
  BY QueueStepwise
<1>3. Init => Steady
  BY QueueInitially
<1>4. Steady => NothingStranded
  BY <1>1
<1>. QED  BY <1>2, <1>3, <1>4, PTL DEF Spec

\* What is written to the run.
LEMMA RunWritten ==
  ASSUME Orderly, Steady, NEW th \in Threads, RunWrite(th)
  PROVE  run \notin Terminal /\ (OnHold => run' # "running")
<1> DEFINE s == script[th]
           o == Head(s)
<1>1. /\ ~Idle(th) /\ s # <<>> /\ MayRun(th) /\ o.op = "run"
  BY DEF RunWrite, At, Idle
<1>2. CASE th \in ByRunner
  <2>1. s \in Seq(Ops) /\ Stage(s) /\ Due(s) /\ ~Stopping(th)
    BY <1>1, <1>2, QueueAtRunner
  <2>2. run' = o.to
    BY <2>1 DEF RunWrite, To
  <2>3. run \notin Terminal
    BY <1>1, <2>1 DEF Due, One, JobTo
  <2>4. o.to = "running" =>
          \/ OnIt
          \/ Three(s, RunTo("running"), JobTo("running"), Doing("exec"))
    BY <1>1, <2>1, StageAt DEF One, Two, RunTo
  <2>5. o.to = "running" => run \in { "queued", "running" }
    BY <2>1, <2>4 DEF Due, Both, OnIt
  <2>. QED  BY <2>2, <2>3, <2>5 DEF OnHold
<1>3. CASE th \in ByClient
  <2>1. s \in Seq(Ops) /\ Chain(s) /\ Just(s) /\ o \in Range(s) /\ ~Stopping(th)
    BY <1>1, <1>3, QueueAtClient
  <2>2. run' = o.to
    BY <2>1 DEF RunWrite, To
  <2>3. o.to # "cancelled" /\ (o.to \in { "queued", "failed" } => run = "blocked")
    BY <1>1, <2>1 DEF Just, Rules, Both
  <2>4. o.to \in { "paused", "cancelled", "queued", "failed" }
        /\ (o.to = "paused" => run \in { "queued", "running" })
    BY <1>1, <2>1, ChainAt DEF One, Two, Three, RunTo
  <2>. QED  BY <2>2, <2>3, <2>4 DEF Terminal
<1>. QED  BY <1>2, <1>3, Sides

\* A run that is over stays as it is, and one that is paused is not running
\* before it was put back in the queue, although the pause, the decisions and
\* the execution overwrite the status without reading it again.
THEOREM StatusKeptHolds ==
  ASSUME Orderly
  PROVE  Spec => StatusKept
<1>1. ASSUME Steady, [Next]_vars
      PROVE  [(Finished => run' = run) /\ (OnHold => run' # "running")]_vars
  <2>1. Recoverable /\ Driving /\ WholeInv
    BY <1>1, OrderlyIsBoth DEF Steady, Driving
  <2>2. ASSUME NEW th \in Threads,
               ThreadStep(th) \/ Claim(th) \/ WorkProposes(th) \/ RequestStep(th)
        PROVE  run' = run \/ RunWrite(th)
    <3>1. CASE StoreStep(th)
      BY <3>1 DEF StoreStep, TaskWrite, JobRead, JobWrite, Bail, Failing, store
    <3>2. CASE ExecStep(th)
      BY <3>2 DEF ExecStep, ExecReturn, ExecNoTaskLeft, ExecProviderInvalid, ExecProviderThrows,
                  ExecHeld, ExecAsks, ExecBegins, Proceeding, Executing, Ask, WorkDone, WorkFails,
                  Recheck, Synthesized, SynthesisThrows, store
    <3>3. CASE AfterStep(th)
      <4>1. ~OpenQuestion(th) /\ ~ResolveWrite(th)
        BY <2>1, OnOneSide DEF OpenQuestion, ResolveWrite, At
      <4>. QED  BY <3>3, <4>1 DEF AfterStep, Start, Decided, ExpireWrite, Resolved, CloseQuestion,
                                  Closed, Replied, store
    <3>4. CASE RequestStep(th)
      BY <3>4 DEF RequestStep, Pause, Resume, Cancel, Decide, ReportFailure, Propose, Expire,
                  AskUser, Resolve, Reply, store
    <3>5. CASE Claim(th) \/ WorkProposes(th)
      BY <3>5 DEF Claim, WorkProposes, store
    <3>. QED  BY <2>2, <3>1, <3>2, <3>3, <3>4, <3>5 DEF ThreadStep
  <2>3. \A p \in Procs : ~ProcStep(p)
    BY <2>1, <1>1 DEF ProcStep, Crash, Shutdown, Stopped, Boot, WholeInv, Orderly
  <2>4. CASE Next
    <3>1. PICK th \in Threads : ThreadStep(th) \/ Claim(th) \/ WorkProposes(th) \/ RequestStep(th)
      BY <2>3, <2>4 DEF Next
    <3>2. CASE RunWrite(th)
      BY <1>1, <3>2, RunWritten DEF Finished
    <3>3. CASE run' = run
      BY <3>3 DEF OnHold
    <3>. QED  BY <2>2, <3>1, <3>2, <3>3
  <2>. QED  BY <1>1, <2>4
<1>2. Steady /\ [Next]_vars => Steady'
  BY QueueStepwise
<1>3. Init => Steady
  BY QueueInitially
<1>4. Steady /\ [Next]_vars => [(Finished => run' = run) /\ (OnHold => run' # "running")]_vars
  BY <1>1
<1>. QED  BY <1>2, <1>3, <1>4, PTL DEF Spec, StatusKept

=============================================================================
