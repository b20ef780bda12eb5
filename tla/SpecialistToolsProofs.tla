----------------------- MODULE SpecialistToolsProofs -----------------------
(***************************************************************************)
(* What holds of the tool loop whatever the tools, the lists, the answers  *)
(* and the number of turns and of crashes; and of spec corrections, the    *)
(* file tools and the editor's sessions, for any actions and requests.     *)
(***************************************************************************)
EXTENDS SpecialistTools, FiniteSets, FiniteSetTheorems, SequenceTheorems,
        WellFoundedInduction, TLAPS

---------------------------------------------------------------------------
(* Tools *)

\* The loop executes only what reads and proposes only what is gated, whatever
\* lists it is given and whether or not workers outlive crew-runner (core
\* index.ts:3237-3304): acts grows by the tool at hand, and only under a test
\* that looks at the tool's policy as well as at the list.
THEOREM OnlyReadsDoneHolds == Spec => []OnlyReadsDone
<1>1. Init => OnlyReadsDone
  BY DEF Init, OnlyReadsDone
<1>2. OnlyReadsDone /\ [Next]_vars => OnlyReadsDone'
  <2> SUFFICES ASSUME OnlyReadsDone, [Next]_vars
               PROVE  OnlyReadsDone'
    OBVIOUS
  <2>1. CASE Propose
    BY <2>1 DEF Propose, ProposeOnly, OnlyReadsDone, ClassA, Gated
  <2>2. CASE Execute
    <3>1. CASE acts' = acts \cup {<<Tool, "executed">>}
      <4>1. ClassA(Tool)
        BY <2>2 DEF Execute, Automatic
      <4> QED
        BY <3>1, <4>1 DEF OnlyReadsDone, ClassA, Gated
    <3>2. CASE UNCHANGED acts
      BY <3>2 DEF OnlyReadsDone, ClassA, Gated
    <3> QED
      BY <2>2, <3>1, <3>2 DEF Execute
  <2>3. CASE UNCHANGED acts
    BY <2>3 DEF OnlyReadsDone, ClassA, Gated
  <2>4. CallStep => UNCHANGED acts
    BY DEF CallStep, CallInProcess, WriteInput, RemoveOutput, Spawn, Collect
  <2>5. WorkerStep => UNCHANGED acts
    BY DEF WorkerStep, WorkerReads, WorkerAnswers, WorkerDies
  <2>6. Reject \/ ProposalFails \/ ToolThrows => UNCHANGED acts
    BY DEF Reject, ProposalFails, ToolThrows
  <2>7. Crash \/ Restart \/ UNCHANGED vars => UNCHANGED acts
    BY DEF Crash, Restart, vars
  <2> QED
    BY <2>1, <2>2, <2>3, <2>4, <2>5, <2>6, <2>7 DEF Next, ToolStep
<1> QED
  BY <1>1, <1>2, PTL DEF Spec

---------------------------------------------------------------------------
(* Answers *)

\* The record exec always is.
Shape == exec = [pc |-> exec.pc, attempt |-> exec.attempt, turn |-> exec.turn,
                 heard |-> exec.heard, calls |-> exec.calls]

\* Nobody but this call's own worker writes the output file.
Undisturbed == exec.pc \in {"spawn", "wait"} /\ ~stray

\* The worker of an undisturbed call is of that call's prompt.
WorkersAwaited ==
    /\ \A w \in workers : w = [for |-> w.for, has |-> w.has]
    /\ Undisturbed /\ exec.pc = "spawn" => workers = {}
    /\ Undisturbed => \A w \in workers : w.has \in {None, Prompt}

\* The input file is of the prompt at hand from the moment it is written, and
\* the output file is gone from the moment it is removed until that prompt is
\* answered.
FilesOfThisCall ==
    /\ exec.pc \in {"clear", "spawn", "wait"} => input = Prompt
    /\ Undisturbed /\ exec.pc = "spawn" => output = None
    /\ Undisturbed /\ output # None => output.prompt = Prompt

\* The inductive invariant of the exchange through the two files.
ExchangeInv == Shape /\ WorkersAwaited /\ FilesOfThisCall /\ AnswersItsTurn

LEMMA ExchangeInit == Init => ExchangeInv
  BY DEF Init, Begin, FirstTurn, ExchangeInv, Shape, WorkersAwaited,
         FilesOfThisCall, AnswersItsTurn, Prompt, Undisturbed

\* What Throw and Heard do to the record.
LEMMA ThrowShape ==
  ASSUME Shape, Throw
  PROVE  Shape' /\ exec'.pc = "threw"
  BY DEF Shape, Throw

LEMMA HeardShape ==
  ASSUME Shape, NEW tried, Heard(Prompt, tried)
  PROVE  Shape' /\ exec'.pc \in {"done", "act"} /\ exec'.heard = Prompt /\ Prompt' = Prompt
  BY DEF Shape, Heard, Prompt

\* Each kind of step keeps the invariant.
LEMMA CallKeeps ==
  ASSUME ExchangeInv, CallStep
  PROVE  ExchangeInv'
<1> USE DEF ExchangeInv, WorkersAwaited, FilesOfThisCall, AnswersItsTurn, Undisturbed
<1>1. CASE CallInProcess
  <2>1. CASE Throw
    BY <1>1, <2>1, ThrowShape DEF CallInProcess
  <2>2. CASE \E tried \in Answers : Heard(Prompt, tried)
    BY <1>1, <2>2, HeardShape DEF CallInProcess
  <2> QED
    BY <1>1, <2>1, <2>2 DEF CallInProcess
<1>2. CASE WriteInput
  <2>1. Shape' /\ exec'.pc = "clear" /\ Prompt' = Prompt
    BY <1>2 DEF WriteInput, Shape, Prompt
  <2> QED
    BY <1>2, <2>1 DEF WriteInput
<1>3. CASE RemoveOutput
  <2>1. Shape' /\ exec'.pc = "spawn" /\ Prompt' = Prompt
    BY <1>3 DEF RemoveOutput, Shape, Prompt
  <2> QED
    BY <1>3, <2>1 DEF RemoveOutput
<1>4. CASE Spawn
  <2>1. CASE Throw /\ UNCHANGED workers
    BY <1>4, <2>1, ThrowShape DEF Spawn
  <2>2. CASE /\ workers' = workers \cup {[for |-> Prompt, has |-> None]}
             /\ exec' = [exec EXCEPT !.pc = "wait"]
    <3>1. Shape' /\ exec'.pc = "wait" /\ Prompt' = Prompt
      BY <2>2 DEF Shape, Prompt
    <3>2. \A w \in workers' : w = [for |-> w.for, has |-> w.has]
      BY <2>2
    <3>3. ~stray => \A w \in workers' : w.has = None
      BY <1>4, <2>2 DEF Spawn
    <3> QED
      BY <1>4, <3>1, <3>2, <3>3 DEF Spawn
  <2> QED
    BY <1>4, <2>1, <2>2 DEF Spawn
<1>5. CASE Collect
  <2>1. UNCHANGED <<workers, input, output, stray>> /\ exec.pc = "wait"
    BY <1>5 DEF Collect
  <2>2. CASE Throw
    BY <2>1, <2>2, ThrowShape
  <2>3. CASE output # None /\ Heard(output.prompt, output.calls)
    <3>1. Shape' /\ exec'.pc \in {"done", "act"} /\ Prompt' = Prompt
          /\ exec'.heard = output.prompt
      BY <2>3 DEF Shape, Heard, Prompt
    <3> QED
      BY <2>1, <2>3, <3>1
  <2> QED
    BY <1>5, <2>2, <2>3 DEF Collect
<1> QED
  BY <1>1, <1>2, <1>3, <1>4, <1>5 DEF CallStep

LEMMA WorkerKeeps ==
  ASSUME ExchangeInv, WorkerStep
  PROVE  ExchangeInv'
<1> PICK w \in workers : WorkerReads(w) \/ WorkerAnswers(w) \/ WorkerDies(w)
  BY DEF WorkerStep
<1> exec' = exec /\ input' = input /\ stray' = stray /\ Prompt' = Prompt
    /\ Undisturbed' = Undisturbed
  BY DEF WorkerReads, WorkerAnswers, WorkerDies, Prompt, Undisturbed
<1>1. Shape' /\ AnswersItsTurn'
  BY DEF ExchangeInv, Shape, AnswersItsTurn
<1>2. CASE WorkerReads(w)
  <2>1. [w EXCEPT !.has = input] = [for |-> w.for, has |-> input]
    BY DEF ExchangeInv, WorkersAwaited
  <2>2. Undisturbed => exec.pc = "wait" /\ input = Prompt
    BY DEF ExchangeInv, WorkersAwaited, FilesOfThisCall, Undisturbed
  <2>3. \A v \in workers' : v \in workers \/ v = [for |-> w.for, has |-> input]
    BY <1>2, <2>1 DEF WorkerReads
  <2> QED
    BY <1>1, <1>2, <2>2, <2>3 DEF WorkerReads, ExchangeInv, WorkersAwaited, FilesOfThisCall
<1>3. CASE WorkerAnswers(w)
  <2>1. /\ workers' \subseteq workers /\ w.has # None
        /\ output'.prompt = w.has
    BY <1>3 DEF WorkerAnswers
  <2>2. Undisturbed => exec.pc = "wait" /\ w.has = Prompt
    BY <2>1 DEF ExchangeInv, WorkersAwaited, Undisturbed
  <2> QED
    BY <1>1, <2>1, <2>2 DEF ExchangeInv, WorkersAwaited, FilesOfThisCall
<1>4. CASE WorkerDies(w)
  BY <1>1, <1>4 DEF WorkerDies, ExchangeInv, WorkersAwaited, FilesOfThisCall
<1> QED
  BY <1>2, <1>3, <1>4

LEMMA ToolKeeps ==
  ASSUME ExchangeInv, ToolStep
  PROVE  ExchangeInv'
<1> USE DEF ExchangeInv, WorkersAwaited, FilesOfThisCall, AnswersItsTurn, Undisturbed
<1>1. exec.pc = "act" /\ UNCHANGED <<workers, input, output, stray>>
  BY DEF ToolStep, Reject, ProposalFails, Propose, Execute, ToolThrows
<1>2. CASE ToolThrows
  BY <1>1, <1>2, ThrowShape DEF ToolThrows
<1>3. CASE Answered
  <2>1. Shape' /\ exec'.heard = exec.heard /\ exec'.attempt = exec.attempt
    BY <1>3 DEF Answered, Shape
  <2>2. \/ exec'.pc = "call"
        \/ exec'.pc = "act" /\ exec'.turn = exec.turn
    BY <1>3 DEF Answered, Shape
  <2> QED
    BY <1>1, <2>1, <2>2 DEF Prompt
<1> QED
  BY <1>2, <1>3 DEF ToolStep, Reject, ProposalFails, Propose, Execute

LEMMA CrashKeeps ==
  ASSUME ExchangeInv, Crash \/ Restart
  PROVE  ExchangeInv'
<1> USE DEF ExchangeInv, WorkersAwaited, FilesOfThisCall, AnswersItsTurn, Undisturbed
<1>1. CASE Crash
  <2>1. Shape' /\ exec'.pc = "down" /\ workers' \subseteq workers
    BY <1>1 DEF Crash, Shape
  <2> QED
    BY <2>1
<1>2. CASE Restart
  <2>1. Shape' /\ exec'.pc = "call" /\ workers' = workers
    BY <1>2 DEF Restart, Begin, Shape
  <2> QED
    BY <2>1
<1> QED
  BY <1>1, <1>2

\* A turn goes on with the answer to it (specialist-worker-runtime.ts:156-179),
\* for any number of turns, tools, crashes and workers that outlive crew-runner:
\* the output file is removed before the worker is started, and unless another
\* was alive then, only the worker of this call writes it.
THEOREM AnswersItsTurnHolds == Spec => []AnswersItsTurn
<1>1. ExchangeInv /\ [Next]_vars => ExchangeInv'
  <2> SUFFICES ASSUME ExchangeInv, [Next]_vars
               PROVE  ExchangeInv'
    OBVIOUS
  <2>1. CASE UNCHANGED vars
    BY <2>1 DEF vars, ExchangeInv, Shape, WorkersAwaited, FilesOfThisCall,
                AnswersItsTurn, Prompt, Undisturbed
  <2> QED
    BY <2>1, CallKeeps, WorkerKeeps, ToolKeeps, CrashKeeps DEF Next
<1>2. ExchangeInv => AnswersItsTurn
  BY DEF ExchangeInv
<1> QED
  BY <1>1, <1>2, ExchangeInit, PTL DEF Spec

---------------------------------------------------------------------------
(* Spec corrections *)

\* A call has its step and its number; between the steps of the worktree, the
\* branch and the pull request it relies on what the earlier ones did.
IsCorrection(r) ==
    /\ DOMAIN r = {"pc", "n"}
    /\ r.n \in Nat

CorrectionOf(a) == <<a, scCall[a].n>>

Corrected(a) == [name |-> CorrectionOf(a), corrected |-> TRUE]

CallInv(a) ==
    /\ scCall[a].pc \in {"edit", "push", "open"} => CorrectionOf(a) \in worktrees
    /\ scCall[a].pc = "push" => Corrected(a) \in local
    /\ scCall[a].pc = "open" => Corrected(a) \in remote
    /\ scCall[a].pc \in {"fetch", "add"} => CorrectionOf(a) \notin worktrees
    /\ \A k \in Nat : k > scCall[a].n => <<a, k>> \notin worktrees

CorrectionInv ==
    /\ DOMAIN scCall = Corrections
    /\ \A a \in Corrections : IsCorrection(scCall[a]) /\ CallInv(a)
    /\ \A name \in pulls : [name |-> name, corrected |-> TRUE] \in remote
    /\ \A t \in worktrees \ crashed :
         \E a \in Corrections : t = CorrectionOf(a) /\ scCall[a].pc \notin Correction!Over

LEMMA CorrectionInitially == Correction!Init => CorrectionInv
<1> SUFFICES ASSUME Correction!Init PROVE CorrectionInv
  OBVIOUS
<1>1. DOMAIN scCall = Corrections
      /\ \A a \in Corrections : scCall[a] = [pc |-> "idle", n |-> 0]
  BY DEF Correction!Init
<1>2. \A a \in Corrections : IsCorrection(scCall[a]) /\ scCall[a].pc = "idle"
  BY <1>1 DEF IsCorrection
<1>. QED  BY <1>1, <1>2 DEF CorrectionInv, CallInv, Correction!Init

\* A step of one call: the other calls go on with their own worktrees and
\* branches; what is left to show is about the call that takes it.
LEMMA CorrectionStep ==
  ASSUME CorrectionInv, NEW a \in Corrections, NEW new, IsCorrection(new),
         scCall' = [scCall EXCEPT ![a] = new],
         worktrees \ {CorrectionOf(a)} \subseteq worktrees',
         worktrees' \subseteq worktrees \cup {<<a, new.n>>},
         \A b \in local : b.name # CorrectionOf(a) => b \in local',
         remote \subseteq remote', crashed' = crashed,
         \A name \in pulls' : name \in pulls \/ [name |-> name, corrected |-> TRUE] \in remote',
         CallInv(a)',
         new.n = scCall[a].n \/ scCall[a].pc \in Correction!Over,
         new.pc \in Correction!Over => <<a, new.n>> \notin worktrees'
  PROVE  CorrectionInv'
<1>1. /\ DOMAIN scCall' = Corrections /\ scCall'[a] = new
      /\ \A b \in Corrections : b # a => scCall'[b] = scCall[b]
  BY DEF CorrectionInv
<1>2. \A b \in Corrections : IsCorrection(scCall'[b])
  BY <1>1 DEF CorrectionInv
<1>3. ASSUME NEW b \in Corrections, b # a PROVE CallInv(b)'
  <2>1. CorrectionOf(b)' = CorrectionOf(b) /\ CorrectionOf(b) # CorrectionOf(a)
        /\ CorrectionOf(b) # <<a, new.n>>
    BY <1>1, <1>3 DEF CorrectionOf
  <2>2. Corrected(b)' = Corrected(b) /\ Corrected(b).name = CorrectionOf(b)
    BY <2>1 DEF Corrected
  <2>3. CallInv(b)
    BY DEF CorrectionInv
  <2>4. \A k \in Nat : <<b, k>> # <<a, new.n>>
    BY <1>3
  <2>. QED  BY <1>1, <1>3, <2>1, <2>2, <2>3, <2>4 DEF CallInv
<1>4. \A b \in Corrections : CallInv(b)'
  BY <1>3
<1>5. \A name \in pulls' : [name |-> name, corrected |-> TRUE] \in remote'
  BY DEF CorrectionInv
<1>6. ASSUME NEW t \in worktrees' \ crashed'
      PROVE  \E b \in Corrections : t = CorrectionOf(b)' /\ scCall'[b].pc \notin Correction!Over
  <2>1. CASE t = <<a, new.n>>
    BY <1>1, <1>6, <2>1 DEF CorrectionOf
  <2>2. CASE t # <<a, new.n>>
    <3>1. PICK b \in Corrections : t = CorrectionOf(b) /\ scCall[b].pc \notin Correction!Over
      BY <1>6, <2>2 DEF CorrectionInv
    <3>2. b # a
      BY <2>2, <3>1 DEF CorrectionOf
    <3>. QED  BY <1>1, <3>1, <3>2 DEF CorrectionOf
  <2>. QED  BY <2>1, <2>2
<1>. QED  BY <1>1, <1>2, <1>4, <1>5, <1>6 DEF CorrectionInv

\* What a step has to show when it only moves the call on.
LEMMA CorrectionMoves ==
  ASSUME CorrectionInv, NEW a \in Corrections, NEW pc,
         Correction!GoTo(a, pc)
  PROVE  \E new : /\ IsCorrection(new) /\ new.pc = pc /\ new.n = scCall[a].n
                  /\ scCall' = [scCall EXCEPT ![a] = new]
                  /\ DOMAIN scCall' = Corrections /\ scCall'[a] = new
                  /\ CorrectionOf(a)' = CorrectionOf(a) /\ Corrected(a)' = Corrected(a)
<1> DEFINE new == [scCall[a] EXCEPT !.pc = pc]
<1>1. scCall' = [scCall EXCEPT ![a] = new]
  BY Zenon DEF Correction!GoTo
<1>2. IsCorrection(new) /\ new.pc = pc /\ new.n = scCall[a].n
  BY DEF CorrectionInv, IsCorrection
<1> HIDE DEF new
<1>3. DOMAIN scCall' = Corrections /\ scCall'[a] = new
  BY <1>1 DEF CorrectionInv
<1>4. CorrectionOf(a)' = CorrectionOf(a)
  BY <1>2, <1>3 DEF CorrectionOf
<1>5. Corrected(a)' = Corrected(a)
  BY <1>4 DEF Corrected
<1>. QED  BY <1>1, <1>2, <1>3, <1>4, <1>5, Zenon

LEMMA CorrectionCallKeeps ==
  ASSUME CorrectionInv, NEW a \in Corrections,
         \/ Correction!Execute(a) \/ Correction!Unavailable(a) \/ Correction!Fetch(a)
         \/ Correction!AddWorktree(a) \/ Correction!Commit(a) \/ Correction!Push(a)
         \/ Correction!OpenPull(a) \/ Correction!Fails(a) \/ Correction!Cleanup(a)
  PROVE  CorrectionInv'
<1>0. IsCorrection(scCall[a]) /\ CallInv(a) /\ Correction!Name(a) = CorrectionOf(a)
  BY DEF CorrectionInv, Correction!Name, CorrectionOf
<1> DEFINE name == CorrectionOf(a)
<1>1. CASE Correction!Execute(a)
  <2> DEFINE new == [pc |-> "fetch", n |-> scCall[a].n + 1]
  <2>1. /\ scCall' = [scCall EXCEPT ![a] = new]
        /\ UNCHANGED <<worktrees, local, remote, pulls, crashed>>
        /\ scCall[a].pc \in {"idle", "failed"}
    BY <1>1 DEF Correction!Execute
  <2>2. IsCorrection(new) /\ new.pc = "fetch" /\ new.n = scCall[a].n + 1
    BY <1>0 DEF IsCorrection
  <2> HIDE DEF new
  <2>3. scCall'[a] = new
    BY <2>1 DEF CorrectionInv
  <2>4. CallInv(a)'
    BY <1>0, <2>1, <2>2, <2>3 DEF CallInv, CorrectionOf, IsCorrection
  <2>5. scCall[a].pc \in Correction!Over /\ new.pc \notin Correction!Over
    BY <2>1, <2>2 DEF Correction!Over
  <2>. QED  BY <2>1, <2>2, <2>4, <2>5, CorrectionStep
<1>2. CASE Correction!Unavailable(a) \/ Correction!Fetch(a)
  <2>1. /\ UNCHANGED <<worktrees, local, remote, pulls, crashed>>
        /\ scCall[a].pc = "fetch" /\ name \notin worktrees
    BY <1>0, <1>2 DEF Correction!Unavailable, Correction!Fetch, Correction!At, CallInv
  <2>2. PICK pc \in {"completed", "add"} : Correction!GoTo(a, pc)
    BY <1>2 DEF Correction!Unavailable, Correction!Fetch
  <2>3. PICK new : /\ IsCorrection(new) /\ new.pc = pc /\ new.n = scCall[a].n
                   /\ scCall' = [scCall EXCEPT ![a] = new]
                   /\ DOMAIN scCall' = Corrections /\ scCall'[a] = new
                   /\ CorrectionOf(a)' = CorrectionOf(a) /\ Corrected(a)' = Corrected(a)
    BY <2>2, CorrectionMoves, Zenon
  <2>4. CallInv(a)'
    BY <1>0, <2>1, <2>3 DEF CallInv
  <2>5. <<a, new.n>> = name
    BY <2>3 DEF CorrectionOf
  <2>. QED  BY <2>1, <2>3, <2>4, <2>5, CorrectionStep
<1>3. CASE Correction!AddWorktree(a)
  <2>1. /\ worktrees' = worktrees \cup {name} /\ local \subseteq local'
        /\ UNCHANGED <<remote, pulls, crashed>> /\ Correction!GoTo(a, "edit")
    BY <1>0, <1>3 DEF Correction!AddWorktree
  <2>3. PICK new : /\ IsCorrection(new) /\ new.pc = "edit" /\ new.n = scCall[a].n
                   /\ scCall' = [scCall EXCEPT ![a] = new]
                   /\ DOMAIN scCall' = Corrections /\ scCall'[a] = new
                   /\ CorrectionOf(a)' = CorrectionOf(a) /\ Corrected(a)' = Corrected(a)
    BY <2>1, CorrectionMoves, Zenon
  <2>4. CallInv(a)'
    BY <1>0, <2>1, <2>3 DEF CallInv, CorrectionOf, IsCorrection
  <2>5. <<a, new.n>> = name /\ new.pc \notin Correction!Over
    BY <2>3 DEF CorrectionOf, Correction!Over
  <2>. QED  BY <2>1, <2>3, <2>4, <2>5, CorrectionStep
<1>4. CASE Correction!Commit(a)
  <2>1. /\ local' = {b \in local : b.name # name} \cup {Corrected(a)}
        /\ UNCHANGED <<worktrees, remote, pulls, crashed>> /\ Correction!GoTo(a, "push")
        /\ scCall[a].pc = "edit"
    BY <1>0, <1>4 DEF Correction!Commit, Correction!At, Corrected
  <2>3. PICK new : /\ IsCorrection(new) /\ new.pc = "push" /\ new.n = scCall[a].n
                   /\ scCall' = [scCall EXCEPT ![a] = new]
                   /\ DOMAIN scCall' = Corrections /\ scCall'[a] = new
                   /\ CorrectionOf(a)' = CorrectionOf(a) /\ Corrected(a)' = Corrected(a)
    BY <2>1, CorrectionMoves, Zenon
  <2>4. CallInv(a)'
    BY <1>0, <2>1, <2>3 DEF CallInv
  <2>5. <<a, new.n>> = name /\ new.pc \notin Correction!Over
    BY <2>3 DEF CorrectionOf, Correction!Over
  <2>. QED  BY <2>1, <2>3, <2>4, <2>5, CorrectionStep
<1>5. CASE Correction!Push(a)
  <2>1. /\ remote' = remote \cup {b \in local : b.name = name}
        /\ UNCHANGED <<worktrees, local, pulls, crashed>> /\ Correction!GoTo(a, "open")
        /\ scCall[a].pc = "push"
    BY <1>0, <1>5 DEF Correction!Push, Correction!At
  <2>2. Corrected(a) \in remote'
    BY <1>0, <2>1 DEF CallInv, Corrected
  <2>3. PICK new : /\ IsCorrection(new) /\ new.pc = "open" /\ new.n = scCall[a].n
                   /\ scCall' = [scCall EXCEPT ![a] = new]
                   /\ DOMAIN scCall' = Corrections /\ scCall'[a] = new
                   /\ CorrectionOf(a)' = CorrectionOf(a) /\ Corrected(a)' = Corrected(a)
    BY <2>1, CorrectionMoves, Zenon
  <2>4. CallInv(a)'
    BY <1>0, <2>1, <2>2, <2>3 DEF CallInv
  <2>5. <<a, new.n>> = name /\ new.pc \notin Correction!Over
    BY <2>3 DEF CorrectionOf, Correction!Over
  <2>. QED  BY <2>1, <2>3, <2>4, <2>5, CorrectionStep
<1>6. CASE Correction!OpenPull(a)
  <2>1. /\ pulls' = pulls \cup {name}
        /\ UNCHANGED <<worktrees, local, remote, crashed>>
        /\ scCall[a].pc = "open"
    BY <1>0, <1>6 DEF Correction!OpenPull, Correction!At
  <2>2. PICK pc \in {"opened", "error"} : Correction!GoTo(a, pc)
    BY <1>6 DEF Correction!OpenPull
  <2>3. PICK new : /\ IsCorrection(new) /\ new.pc = pc /\ new.n = scCall[a].n
                   /\ scCall' = [scCall EXCEPT ![a] = new]
                   /\ DOMAIN scCall' = Corrections /\ scCall'[a] = new
                   /\ CorrectionOf(a)' = CorrectionOf(a) /\ Corrected(a)' = Corrected(a)
    BY <2>2, CorrectionMoves, Zenon
  <2>4. CallInv(a)'
    BY <1>0, <2>1, <2>3 DEF CallInv
  <2>5. <<a, new.n>> = name /\ new.pc \notin Correction!Over
    BY <2>3 DEF CorrectionOf, Correction!Over
  <2>6. [name |-> name, corrected |-> TRUE] \in remote
    BY <1>0, <2>1 DEF CallInv, Corrected
  <2>. QED  BY <2>1, <2>3, <2>4, <2>5, <2>6, CorrectionStep
<1>7. CASE Correction!Fails(a)
  <2>1. UNCHANGED <<worktrees, local, remote, pulls, crashed>> /\ Correction!GoTo(a, "error")
    BY <1>7 DEF Correction!Fails
  <2>3. PICK new : /\ IsCorrection(new) /\ new.pc = "error" /\ new.n = scCall[a].n
                   /\ scCall' = [scCall EXCEPT ![a] = new]
                   /\ DOMAIN scCall' = Corrections /\ scCall'[a] = new
                   /\ CorrectionOf(a)' = CorrectionOf(a) /\ Corrected(a)' = Corrected(a)
    BY <2>1, CorrectionMoves, Zenon
  <2>4. CallInv(a)'
    BY <1>0, <2>1, <2>3 DEF CallInv
  <2>5. <<a, new.n>> = name /\ new.pc \notin Correction!Over
    BY <2>3 DEF CorrectionOf, Correction!Over
  <2>. QED  BY <2>1, <2>3, <2>4, <2>5, CorrectionStep
<1>8. CASE Correction!Cleanup(a)
  <2>1. worktrees' = worktrees \ {name} /\ UNCHANGED <<local, remote, pulls, crashed>>
    BY <1>0, <1>8 DEF Correction!Cleanup
  <2>2. PICK pc \in {"completed", "failed"} : Correction!GoTo(a, pc)
    BY <1>8 DEF Correction!Cleanup
  <2>3. PICK new : /\ IsCorrection(new) /\ new.pc = pc /\ new.n = scCall[a].n
                   /\ scCall' = [scCall EXCEPT ![a] = new]
                   /\ DOMAIN scCall' = Corrections /\ scCall'[a] = new
                   /\ CorrectionOf(a)' = CorrectionOf(a) /\ Corrected(a)' = Corrected(a)
    BY <2>2, CorrectionMoves, Zenon
  <2>4. CallInv(a)'
    BY <1>0, <2>1, <2>3 DEF CallInv
  <2>5. <<a, new.n>> = name
    BY <2>3 DEF CorrectionOf
  <2>. QED  BY <2>1, <2>3, <2>4, <2>5, CorrectionStep
<1>. QED  BY <1>1, <1>2, <1>3, <1>4, <1>5, <1>6, <1>7, <1>8

LEMMA CorrectionCrashKeeps ==
  ASSUME CorrectionInv, Correction!Crash
  PROVE  CorrectionInv'
<1>1. /\ UNCHANGED <<worktrees, local, remote, pulls>>
      /\ crashed' = crashed \cup {Correction!Name(a) : a \in
                        {b \in Corrections : scCall[b].pc \notin Correction!Over}}
      /\ scCall' = [a \in Corrections |-> IF scCall[a].pc \in Correction!Over THEN scCall[a]
                                         ELSE [scCall[a] EXCEPT !.pc = "cut"]]
  BY Zenon DEF Correction!Crash
<1>2. ASSUME NEW a \in Corrections
      PROVE  /\ IsCorrection(scCall'[a]) /\ scCall'[a].n = scCall[a].n
             /\ scCall'[a].pc \in Correction!Over
             /\ scCall'[a].pc = scCall[a].pc \/ scCall'[a].pc = "cut"
  <2>1. IsCorrection(scCall[a])
    BY DEF CorrectionInv
  <2>2. scCall'[a] = IF scCall[a].pc \in Correction!Over THEN scCall[a]
                     ELSE [scCall[a] EXCEPT !.pc = "cut"]
    BY <1>1
  <2>. QED  BY <2>1, <2>2 DEF IsCorrection, Correction!Over
<1>3. \A a \in Corrections : CallInv(a)'
  BY <1>1, <1>2 DEF CorrectionInv, CallInv, CorrectionOf, Corrected
<1>4. worktrees' \ crashed' = {}
  BY <1>1 DEF CorrectionInv, CorrectionOf, Correction!Name
<1>5. DOMAIN scCall' = Corrections
  BY <1>1
<1>. QED  BY <1>1, <1>2, <1>3, <1>4, <1>5 DEF CorrectionInv

\* Whatever step of whatever call fails, is repeated or is cut off by a crash:
\* a pull request is of a pushed branch with the correction, a call under way
\* has its worktree, and only a crash leaves one behind.
THEOREM CorrectionsWholeHolds == Correction!Spec => []CorrectionsWhole
<1>1. CorrectionInv /\ [Correction!Next]_(Correction!vars) => CorrectionInv'
  <2> SUFFICES ASSUME CorrectionInv, [Correction!Next]_(Correction!vars) PROVE CorrectionInv'
    OBVIOUS
  <2>1. CASE UNCHANGED Correction!vars
    <3>1. UNCHANGED <<scCall, worktrees, local, remote, pulls, crashed>>
      BY <2>1 DEF Correction!vars
    <3>. QED  BY <3>1 DEF CorrectionInv, CallInv, CorrectionOf, Corrected
  <2>2. CASE Correction!Next
    BY <2>2, CorrectionCallKeeps, CorrectionCrashKeeps DEF Correction!Next
  <2>. QED  BY <2>1, <2>2
<1>2. CorrectionInv => CorrectionsWhole
  BY DEF CorrectionInv, CallInv, CorrectionsWhole, Correction!CorrectionsWhole,
         Correction!Name, CorrectionOf
<1>. QED  BY CorrectionInitially, <1>1, <1>2, PTL DEF Correction!Spec

---------------------------------------------------------------------------
(* File tools *)

Lines == Writes \cup Edits \cup 0..MaxEdits

\* What an action may leave in its file, or find there.
Own(a, lines) ==
    /\ lines \in Seq(Lines)
    /\ \A i \in DOMAIN lines : lines[i] = a \/ (i = 1 /\ lines[i] \in 0..MaxEdits)
    /\ a \in Writes /\ (\E i \in DOMAIN lines : lines[i] = a) => lines = <<a>>

\* The action has written the file, and nobody after it.
Marked(a, lines) == Len(lines) \in DOMAIN lines /\ lines[Len(lines)] = a

IsRequest(r) == DOMAIN r = {"pc", "action", "there", "before"}

\* What was reported of it is there.
Kept(a) == copy[a] # None /\ Marked(a, copy[a])

RequestInv(t) ==
    LET a == atCall[t].action IN
    /\ atCall[t].pc # "idle" => a \in FileTools!Actions
    /\ atCall[t].pc \in {"write", "return"} => Own(a, atCall[t].before)
    /\ atCall[t].pc \in {"source", "copyFile"} => a \in spoiled \/ result[a] = None
    /\ atCall[t].pc = "copyFile" => source # None
    /\ atCall[t].pc = "return" => a \in spoiled \/ Kept(a)

\* Two executions of an action at a time are on record.
Alone ==
    \A t, u \in Requests :
        /\ atCall[t].pc # "idle" /\ atCall[u].pc # "idle"
        /\ atCall[t].action = atCall[u].action
        => t = u \/ atCall[t].action \in spoiled

FilesInv ==
    /\ edits \in 0..MaxEdits
    /\ source # None => \E k \in 0..MaxEdits : source = <<k>>
    /\ DOMAIN copy = FileTools!Actions /\ DOMAIN result = FileTools!Actions
    /\ \A a \in FileTools!Actions :
         /\ copy[a] # None => Own(a, copy[a])
         /\ result[a] # None => a \in spoiled \/ Kept(a)
    /\ DOMAIN atCall = Requests
    /\ \A t \in Requests : IsRequest(atCall[t]) /\ RequestInv(t)
    /\ Alone

LEMMA NothingIsOwn == ASSUME NEW a PROVE Own(a, <<>>)
  BY DEF Own

LEMMA SourceIsOwn ==
  ASSUME NEW a, NEW k \in 0..MaxEdits PROVE Own(a, <<k>>)
<1>1. <<k>> \in Seq(Lines) /\ DOMAIN <<k>> = {1} /\ <<k>>[1] = k
  BY DEF Lines
<1>. QED  BY <1>1 DEF Own

LEMMA SourceIsSomething == ASSUME NEW k \in 0..MaxEdits PROVE <<k>> # None
<1>1. <<k>> \in Seq(Lines)
  BY DEF Lines
<1>. QED  BY <1>1, NoFileAssumption DEF Lines

LEMMA FilesInitially == FileTools!Init => FilesInv
<1> SUFFICES ASSUME FileTools!Init PROVE FilesInv
  OBVIOUS
<1>1. edits \in 0..MaxEdits /\ (source # None => \E k \in 0..MaxEdits : source = <<k>>)
  BY ToolsAssumption DEF FileTools!Init
<1>2. \A t \in Requests : IsRequest(atCall[t]) /\ atCall[t].pc = "idle"
  BY DEF FileTools!Init, FileTools!Idle, IsRequest
<1>3. (\A t \in Requests : RequestInv(t)) /\ Alone
  BY <1>2 DEF RequestInv, Alone
<1>. QED  BY <1>1, <1>2, <1>3 DEF FilesInv, FileTools!Init

\* The request's next content is the action's own and marked by it.
LEMMA NextIsOwn ==
  ASSUME FilesInv, NEW t \in Requests, atCall[t].pc \in {"write", "return"}
  PROVE  /\ Own(atCall[t].action, FileTools!NextContent(t))
         /\ Marked(atCall[t].action, FileTools!NextContent(t))
         /\ FileTools!NextContent(t) # None
<1> DEFINE a == atCall[t].action
           before == atCall[t].before
           next == FileTools!NextContent(t)
<1>1. a \in Writes \cup Edits /\ Own(a, before)
  BY DEF FilesInv, RequestInv, FileTools!Actions
<1>2. next = IF a \in Writes THEN <<a>> ELSE Append(before, a)
  BY DEF FileTools!NextContent, FileTools!Mark
<1> HIDE DEF a, before, next
<1>3. a \in Lines /\ before \in Seq(Lines)
  BY <1>1 DEF Own, Lines
<1>4. CASE a \in Writes
  <2>1. next = <<a>> /\ <<a>> \in Seq(Lines) /\ DOMAIN <<a>> = {1} /\ <<a>>[1] = a /\ Len(<<a>>) = 1
    BY <1>2, <1>3, <1>4
  <2>2. Own(a, next) /\ Marked(a, next) /\ next \in Seq(Lines)
    BY <2>1 DEF Own, Marked
  <2>. QED  BY <2>2, NoFileAssumption DEF Lines, a, next
<1>5. CASE a \notin Writes
  <2>1. /\ next \in Seq(Lines) /\ DOMAIN next = 1..(Len(before) + 1)
        /\ Len(next) = Len(before) + 1 /\ Len(before) \in Nat
        /\ next[Len(before) + 1] = a
        /\ \A i \in DOMAIN before : next[i] = before[i]
        /\ DOMAIN before = 1..Len(before)
    BY <1>2, <1>3, <1>5
  <2>2. Own(a, next) /\ Marked(a, next)
    <3>1. \A i \in DOMAIN next : i \in DOMAIN before \/ i = Len(before) + 1
      BY <2>1
    <3>. QED  BY <1>1, <1>5, <2>1, <3>1 DEF Own, Marked
  <2>. QED  BY <2>1, <2>2, NoFileAssumption DEF Lines, a, next
<1>. QED  BY <1>4, <1>5

\* A request goes on: the files stay their actions' own, and what was reported
\* stays as it is but for the request's own action.
LEMMA RequestStep ==
  ASSUME FilesInv, NEW t \in Requests, NEW new, IsRequest(new),
         atCall' = [atCall EXCEPT ![t] = new],
         UNCHANGED <<source, edits>>,
         DOMAIN copy' = FileTools!Actions, DOMAIN result' = FileTools!Actions,
         spoiled \subseteq spoiled',
         \A b \in FileTools!Actions :
             /\ copy'[b] # None => Own(b, copy'[b])
             /\ b # atCall[t].action \/ atCall[t].pc = "idle" =>
                   copy'[b] = copy[b] /\ result'[b] = result[b],
         atCall[t].pc # "idle" /\ result'[atCall[t].action] # None =>
             \/ atCall[t].action \in spoiled'
             \/ /\ copy'[atCall[t].action] # None
                /\ Marked(atCall[t].action, copy'[atCall[t].action]),
         RequestInv(t)',
         \/ new.pc = "idle"
         \/ new.action = atCall[t].action /\ atCall[t].pc # "idle"
         \/ \A u \in Requests : u # t /\ atCall[u].pc # "idle" /\ atCall[u].action = new.action
                               => new.action \in spoiled'
  PROVE  FilesInv'
<1>1. /\ DOMAIN atCall' = Requests /\ atCall'[t] = new
      /\ \A u \in Requests : u # t => atCall'[u] = atCall[u]
  BY DEF FilesInv
<1>2. \A u \in Requests : IsRequest(atCall'[u])
  BY <1>1 DEF FilesInv
<1>3. ASSUME NEW u \in Requests, u # t PROVE RequestInv(u)'
  <2>1. RequestInv(u) /\ atCall'[u] = atCall[u]
    BY <1>1, <1>3 DEF FilesInv
  <2>2. CASE atCall[u].pc = "idle"
    BY <2>1, <2>2 DEF RequestInv
  <2>3. CASE atCall[u].pc # "idle" /\ atCall[u].action = atCall[t].action /\ atCall[t].pc # "idle"
    <3>1. atCall[u].action \in spoiled'
      BY <1>3, <2>3 DEF FilesInv, Alone
    <3>. QED  BY <2>1, <3>1 DEF RequestInv, FileTools!Actions
  <2>4. CASE atCall[u].pc # "idle" /\ (atCall[u].action # atCall[t].action \/ atCall[t].pc = "idle")
    <3>1. atCall[u].action \in FileTools!Actions
      BY <2>1, <2>4 DEF RequestInv
    <3>2. copy'[atCall[u].action] = copy[atCall[u].action]
          /\ result'[atCall[u].action] = result[atCall[u].action]
      BY <2>4, <3>1
    <3>. QED  BY <2>1, <3>1, <3>2 DEF RequestInv, FileTools!Actions, Kept
  <2>. QED  BY <2>2, <2>3, <2>4
<1>4. \A u \in Requests : RequestInv(u)'
  BY <1>3
<1>5. ASSUME NEW b \in FileTools!Actions, result'[b] # None
      PROVE  b \in spoiled' \/ Kept(b)'
  <2>1. CASE b = atCall[t].action /\ atCall[t].pc # "idle"
    BY <1>5, <2>1 DEF Kept
  <2>2. CASE b # atCall[t].action \/ atCall[t].pc = "idle"
    <3>1. copy'[b] = copy[b] /\ result'[b] = result[b]
      BY <2>2
    <3>. QED  BY <1>5, <3>1 DEF FilesInv, Kept
  <2>. QED  BY <2>1, <2>2
<1>6. Alone'
  <2> SUFFICES ASSUME NEW u \in Requests, NEW v \in Requests,
                      atCall'[u].pc # "idle", atCall'[v].pc # "idle",
                      atCall'[u].action = atCall'[v].action, u # v
               PROVE  atCall'[u].action \in spoiled'
    BY DEF Alone
  <2>1. CASE u # t /\ v # t
    BY <1>1, <2>1 DEF FilesInv, Alone
  <2>2. CASE u = t \/ v = t
    BY <1>1, <2>2 DEF FilesInv, Alone
  <2>. QED  BY <2>1, <2>2
<1>. QED  BY <1>1, <1>2, <1>4, <1>5, <1>6 DEF FilesInv, FileTools!Actions

LEMMA RequestMoves ==
  ASSUME FilesInv, NEW t \in Requests, NEW pc, FileTools!GoTo(t, pc)
  PROVE  \E new : /\ IsRequest(new) /\ new.pc = pc /\ new.action = atCall[t].action
                  /\ new.before = atCall[t].before
                  /\ atCall' = [atCall EXCEPT ![t] = new] /\ atCall'[t] = new
<1> DEFINE new == [atCall[t] EXCEPT !.pc = pc]
<1>1. atCall' = [atCall EXCEPT ![t] = new]
  BY Zenon DEF FileTools!GoTo
<1>2. IsRequest(new) /\ new.pc = pc /\ new.action = atCall[t].action
      /\ new.before = atCall[t].before
  BY DEF FilesInv, IsRequest
<1> HIDE DEF new
<1>3. atCall'[t] = new
  BY <1>1 DEF FilesInv
<1>. QED  BY <1>1, <1>2, <1>3, Zenon

\* What a request puts into its action's file.
LEMMA PutsOwn ==
  ASSUME FilesInv, NEW a \in FileTools!Actions, NEW content, copy' = FileTools!Put(a, content)
  PROVE  /\ DOMAIN copy' = FileTools!Actions /\ copy'[a] = content
         /\ \A b \in FileTools!Actions : b # a => copy'[b] = copy[b]
  BY DEF FileTools!Put, FileTools!Workspace

LEMMA CheckKeepsFiles ==
  ASSUME FilesInv, NEW t \in Requests, FileTools!Check(t) \/ FileTools!CheckSource(t)
  PROVE  FilesInv'
<1> DEFINE a == atCall[t].action
<1>1. UNCHANGED <<source, copy, calls, result, edits, spoiled>> /\ atCall[t].pc # "idle"
  BY DEF FileTools!Check, FileTools!CheckSource
<1>2. PICK pc : /\ FileTools!GoTo(t, pc)
                /\ \/ pc = "look"
                   \/ pc = "source" /\ copy[a] = None
                   \/ pc = "copyFile" /\ source # None /\ atCall[t].pc = "source"
  <2>1. CASE FileTools!Check(t)
    BY <2>1 DEF FileTools!Check
  <2>2. CASE FileTools!CheckSource(t)
    BY <2>2 DEF FileTools!CheckSource
  <2>. QED  BY <2>1, <2>2
<1>3. PICK new : /\ IsRequest(new) /\ new.pc = pc /\ new.action = a
                 /\ new.before = atCall[t].before
                 /\ atCall' = [atCall EXCEPT ![t] = new] /\ atCall'[t] = new
  BY <1>2, RequestMoves, Zenon
<1>4. a \in FileTools!Actions /\ RequestInv(t)
  BY <1>1 DEF FilesInv, RequestInv
<1>5. pc = "source" => a \in spoiled \/ result[a] = None
  BY <1>2, <1>4 DEF FilesInv, Kept
<1>6. pc = "copyFile" => a \in spoiled \/ result[a] = None
  BY <1>2, <1>4 DEF RequestInv
<1> HIDE DEF a
<1>7. RequestInv(t)'
  BY <1>1, <1>2, <1>3, <1>4, <1>5, <1>6 DEF RequestInv, FileTools!Actions
<1>. QED  BY <1>1, <1>3, <1>4, <1>7, RequestStep DEF FilesInv, Kept, a

LEMMA CopyKeepsFiles ==
  ASSUME FilesInv, NEW t \in Requests, FileTools!CopyFile(t)
  PROVE  FilesInv'
<1> DEFINE a == atCall[t].action
<1>1. /\ UNCHANGED <<source, calls, result, edits, spoiled>> /\ atCall[t].pc = "copyFile"
      /\ FileTools!GoTo(t, "look") /\ copy' = FileTools!Put(a, source)
  BY DEF FileTools!CopyFile
<1>2. PICK new : /\ IsRequest(new) /\ new.pc = "look" /\ new.action = a
                 /\ new.before = atCall[t].before
                 /\ atCall' = [atCall EXCEPT ![t] = new] /\ atCall'[t] = new
  BY <1>1, RequestMoves, Zenon
<1>3. /\ a \in FileTools!Actions /\ source # None
      /\ a \in spoiled \/ result[a] = None
  BY <1>1 DEF FilesInv, RequestInv
<1>4. RequestInv(t)'
  BY <1>2, <1>3 DEF RequestInv, FileTools!Actions
<1>5. /\ DOMAIN copy' = FileTools!Actions /\ copy'[a] = source
      /\ \A b \in FileTools!Actions : b # a => copy'[b] = copy[b]
  BY <1>1, <1>3, PutsOwn
<1>6. Own(a, source)
  BY <1>3, SourceIsOwn DEF FilesInv
<1>7. \A b \in FileTools!Actions : copy'[b] # None => Own(b, copy'[b])
  BY <1>5, <1>6 DEF FilesInv
<1>. QED  BY <1>1, <1>2, <1>3, <1>4, <1>5, <1>7, RequestStep DEF FilesInv

LEMMA WriteKeepsFiles ==
  ASSUME FilesInv, NEW t \in Requests, FileTools!Write(t)
  PROVE  FilesInv'
<1> DEFINE a == atCall[t].action
           next == FileTools!NextContent(t)
<1>1. /\ UNCHANGED <<source, calls, result, edits, spoiled>> /\ atCall[t].pc = "write"
      /\ FileTools!GoTo(t, "return") /\ copy' = FileTools!Put(a, next)
  BY DEF FileTools!Write
<1>2. PICK new : /\ IsRequest(new) /\ new.pc = "return" /\ new.action = a
                 /\ new.before = atCall[t].before
                 /\ atCall' = [atCall EXCEPT ![t] = new] /\ atCall'[t] = new
  BY <1>1, RequestMoves, Zenon
<1>3. a \in FileTools!Actions /\ Own(a, atCall[t].before)
  BY <1>1 DEF FilesInv, RequestInv
<1>4. Own(a, next) /\ Marked(a, next) /\ next # None
  BY <1>1, NextIsOwn
<1>5. /\ DOMAIN copy' = FileTools!Actions /\ copy'[a] = next
      /\ \A b \in FileTools!Actions : b # a => copy'[b] = copy[b]
  BY <1>1, <1>3, PutsOwn
<1> HIDE DEF next
<1>6. Kept(a)'
  BY <1>2, <1>4, <1>5 DEF Kept
<1>7. RequestInv(t)'
  BY <1>2, <1>3, <1>4, <1>5 DEF RequestInv, FileTools!Actions, Kept
<1>8. \A b \in FileTools!Actions : copy'[b] # None => Own(b, copy'[b])
  BY <1>4, <1>5 DEF FilesInv
<1>9. result'[a] # None => a \in spoiled' \/ (copy'[a] # None /\ Marked(a, copy'[a]))
  BY <1>4, <1>5
<1>. QED  BY <1>1, <1>2, <1>3, <1>5, <1>7, <1>8, <1>9, RequestStep DEF FilesInv, Kept

LEMMA IdleRequest == IsRequest(FileTools!Idle) /\ FileTools!Idle.pc = "idle"
  BY DEF IsRequest, FileTools!Idle

\* A copy that fails had nothing reported to lose, and a write that fails is on
\* record.
LEMMA HalfWayKeepsFiles ==
  ASSUME FilesInv, NEW t \in Requests, FileTools!FailsHalfWay(t)
  PROVE  FilesInv'
<1> DEFINE a == atCall[t].action
<1>1. /\ UNCHANGED <<source, calls, result, edits>> /\ spoiled \subseteq spoiled'
      /\ atCall' = [atCall EXCEPT ![t] = FileTools!Idle]
      /\ atCall[t].pc \in {"copyFile", "write"}
      /\ atCall[t].pc = "write" => a \in spoiled'
  BY DEF FileTools!FailsHalfWay
<1>2. PICK content \in {None, <<>>} : copy' = FileTools!Put(a, content)
  BY DEF FileTools!FailsHalfWay
<1>3. a \in FileTools!Actions /\ (a \in spoiled' \/ result[a] = None)
  BY <1>1 DEF FilesInv, RequestInv
<1>4. /\ DOMAIN copy' = FileTools!Actions /\ copy'[a] = content
      /\ \A b \in FileTools!Actions : b # a => copy'[b] = copy[b]
  BY <1>2, <1>3, PutsOwn
<1>5. \A b \in FileTools!Actions : copy'[b] # None => Own(b, copy'[b])
  BY <1>4, NothingIsOwn DEF FilesInv
<1>6. atCall'[t] = FileTools!Idle
  BY <1>1 DEF FilesInv
<1>7. RequestInv(t)'
  BY <1>6, IdleRequest DEF RequestInv
<1>. QED  BY <1>1, <1>3, <1>4, <1>5, <1>7, IdleRequest, RequestStep DEF FilesInv

\* The steps that leave the copies alone.
LEMMA OtherStepsKeepFiles ==
  ASSUME FilesInv, NEW t \in Requests,
         \/ \E a \in FileTools!Actions : FileTools!Execute(t, a)
         \/ FileTools!Look(t) \/ FileTools!Read(t) \/ FileTools!Return(t) \/ FileTools!Fails(t)
  PROVE  FilesInv'
<1>0. /\ UNCHANGED <<source, copy, edits>> /\ DOMAIN copy' = FileTools!Actions
      /\ \A a \in FileTools!Actions : copy'[a] # None => Own(a, copy'[a])
  BY DEF FilesInv, FileTools!Execute, FileTools!Look, FileTools!Read, FileTools!Return,
         FileTools!Fails
<1>1. ASSUME NEW a \in FileTools!Actions, FileTools!Execute(t, a) PROVE FilesInv'
  <2> DEFINE new == [FileTools!Idle EXCEPT !.pc = "check", !.action = a]
  <2>1. /\ atCall' = [atCall EXCEPT ![t] = new] /\ result' = result /\ atCall[t].pc = "idle"
        /\ spoiled \subseteq spoiled'
        /\ (\E u \in Requests : atCall[u].pc # "idle" /\ atCall[u].action = a) => a \in spoiled'
    BY <1>1, Zenon DEF FileTools!Execute
  <2>2. IsRequest(new) /\ new.pc = "check" /\ new.action = a
    BY IdleRequest DEF IsRequest
  <2> HIDE DEF new
  <2>3. atCall'[t] = new /\ DOMAIN result' = FileTools!Actions
    BY <2>1 DEF FilesInv
  <2>4. RequestInv(t)'
    BY <2>2, <2>3 DEF RequestInv, FileTools!Actions
  <2>. QED  BY <1>0, <2>1, <2>2, <2>3, <2>4, RequestStep
<1>2. CASE FileTools!Look(t)
  <2> DEFINE new == [atCall[t] EXCEPT !.pc = "read", !.there = source # None]
  <2>1. /\ atCall' = [atCall EXCEPT ![t] = new] /\ UNCHANGED <<result, spoiled>>
        /\ atCall[t].pc = "look"
    BY <1>2, Zenon DEF FileTools!Look
  <2>2. IsRequest(new) /\ new.pc = "read" /\ new.action = atCall[t].action
    BY DEF FilesInv, IsRequest
  <2> HIDE DEF new
  <2>3. atCall'[t] = new /\ DOMAIN result' = FileTools!Actions
    BY <2>1 DEF FilesInv
  <2>4. RequestInv(t) /\ atCall[t].action \in FileTools!Actions
    BY <2>1 DEF FilesInv, RequestInv
  <2>5. RequestInv(t)'
    BY <2>2, <2>3, <2>4 DEF RequestInv, FileTools!Actions
  <2>6. result'[atCall[t].action] # None =>
            atCall[t].action \in spoiled' \/ Kept(atCall[t].action)
    BY <2>1, <2>4 DEF FilesInv
  <2>. QED  BY <1>0, <2>1, <2>2, <2>3, <2>5, <2>6, RequestStep DEF Kept
<1>3. CASE FileTools!Read(t)
  <2> DEFINE content == copy[atCall[t].action]
             before == IF content = None THEN <<>> ELSE content
             new == [atCall[t] EXCEPT !.pc = "write", !.before = before]
  <2>1. /\ atCall' = [atCall EXCEPT ![t] = new] /\ UNCHANGED <<result, spoiled>>
        /\ atCall[t].pc = "read"
    BY <1>3, Zenon DEF FileTools!Read
  <2>2. Own(atCall[t].action, before) /\ atCall[t].action \in FileTools!Actions
    BY <2>1, NothingIsOwn DEF FilesInv, RequestInv
  <2> HIDE DEF before
  <2>3. IsRequest(new) /\ new.pc = "write" /\ new.action = atCall[t].action
        /\ new.before = before
    BY DEF FilesInv, IsRequest
  <2> HIDE DEF new
  <2>4. atCall'[t] = new /\ DOMAIN result' = FileTools!Actions
    BY <2>1 DEF FilesInv
  <2>5. RequestInv(t)'
    BY <2>2, <2>3, <2>4 DEF RequestInv, FileTools!Actions
  <2>6. result'[atCall[t].action] # None =>
            atCall[t].action \in spoiled' \/ Kept(atCall[t].action)
    BY <2>1, <2>2 DEF FilesInv
  <2>. QED  BY <1>0, <2>1, <2>3, <2>4, <2>5, <2>6, RequestStep DEF Kept
<1>4. CASE FileTools!Return(t)
  <2> DEFINE a == atCall[t].action
  <2>1. /\ atCall' = [atCall EXCEPT ![t] = FileTools!Idle]
        /\ atCall[t].pc = "return" /\ spoiled' = spoiled
        /\ DOMAIN result' = DOMAIN result
        /\ \A b \in DOMAIN result : b # a => result'[b] = result[b]
    BY <1>4 DEF FileTools!Return
  <2>2. a \in spoiled \/ Kept(a)
    BY <2>1 DEF FilesInv, RequestInv
  <2>3. atCall'[t] = FileTools!Idle /\ DOMAIN result' = FileTools!Actions
        /\ \A b \in FileTools!Actions : b # a => result'[b] = result[b]
    BY <2>1 DEF FilesInv
  <2>4. RequestInv(t)'
    BY <2>3, IdleRequest DEF RequestInv
  <2>. QED  BY <1>0, <2>1, <2>2, <2>3, <2>4, IdleRequest, RequestStep DEF Kept
<1>5. CASE FileTools!Fails(t)
  <2>1. /\ atCall' = [atCall EXCEPT ![t] = FileTools!Idle] /\ UNCHANGED <<result, spoiled>>
        /\ atCall[t].pc # "idle"
    BY <1>5 DEF FileTools!Fails
  <2>2. atCall'[t] = FileTools!Idle /\ DOMAIN result' = FileTools!Actions
    BY <2>1 DEF FilesInv
  <2>3. RequestInv(t)'
    BY <2>2, IdleRequest DEF RequestInv
  <2>4. result'[atCall[t].action] # None =>
            atCall[t].action \in spoiled' \/ Kept(atCall[t].action)
    BY <2>1 DEF FilesInv, RequestInv
  <2>. QED  BY <1>0, <2>1, <2>2, <2>3, <2>4, IdleRequest, RequestStep DEF Kept
<1>. QED  BY <1>1, <1>2, <1>3, <1>4, <1>5

LEMMA EditSourceKeepsFiles ==
  ASSUME FilesInv, FileTools!EditSource
  PROVE  FilesInv'
<1>1. UNCHANGED <<copy, atCall, result, spoiled>>
      /\ edits' = edits + 1 /\ source' = <<edits + 1>>
      /\ edits < MaxEdits
  BY DEF FileTools!EditSource
<1>2. edits' \in 0..MaxEdits
  BY <1>1, ToolsAssumption DEF FilesInv
<1>3. source' # None
  BY <1>2, <1>1, SourceIsSomething
<1>4. \A t \in Requests : RequestInv(t)'
  BY <1>1, <1>3 DEF FilesInv, RequestInv, FileTools!Actions, Kept
<1>. QED  BY <1>1, <1>2, <1>4 DEF FilesInv, FileTools!Actions, Alone, Kept

\* Whoever else executes, edits the repository or fails meanwhile, the file an
\* action leaves is its own work, and what is reported of it is there unless two
\* executions of the action overlapped or a write was cut short.
THEOREM CopyIsOwnHolds == FileTools!Spec => []CopyIsOwn
<1>1. FilesInv /\ [FileTools!Next]_(FileTools!vars) => FilesInv'
  <2> SUFFICES ASSUME FilesInv, [FileTools!Next]_(FileTools!vars) PROVE FilesInv'
    OBVIOUS
  <2>1. CASE UNCHANGED FileTools!vars
    <3>1. UNCHANGED <<source, copy, atCall, result, edits, spoiled>>
      BY <2>1 DEF FileTools!vars
    <3>2. \A t \in Requests : RequestInv(t)'
      BY <3>1 DEF FilesInv, RequestInv, FileTools!Actions, Kept
    <3>. QED  BY <3>1, <3>2 DEF FilesInv, FileTools!Actions, Alone, Kept
  <2>2. CASE FileTools!Next
    BY <2>2, CheckKeepsFiles, CopyKeepsFiles, WriteKeepsFiles, HalfWayKeepsFiles,
       OtherStepsKeepFiles, EditSourceKeepsFiles DEF FileTools!Next
  <2>. QED  BY <2>1, <2>2
<1>2. FilesInv => CopyIsOwn
  <2> SUFFICES ASSUME FilesInv, NEW a \in FileTools!Actions
               PROVE  LET lines == copy[a]
                          marks == {i \in DOMAIN lines : lines[i] = a}
                      IN /\ lines # None =>
                              /\ \A i \in DOMAIN lines :
                                    i \in marks \/ (i = 1 /\ lines[i] \in 0..MaxEdits)
                              /\ a \in Writes /\ marks # {} => lines = <<a>>
                         /\ result[a] # None /\ a \notin spoiled =>
                              lines # None /\ Len(lines) \in marks
    BY DEF CopyIsOwn, FileTools!CopyIsOwn
  <2>1. /\ copy[a] # None => Own(a, copy[a])
        /\ result[a] # None => a \in spoiled \/ Kept(a)
    BY DEF FilesInv
  <2>. QED  BY <2>1 DEF Own, Marked, Kept
<1>. QED  BY FilesInitially, <1>1, <1>2, PTL DEF FileTools!Spec

---------------------------------------------------------------------------
(* Sessions of the editor *)

\* A call that is about to act was begun before the request's token was
\* cancelled, and was approved unless everything is.
IsChat(r) ==
    /\ DOMAIN r = {"pc", "step", "turn", "calls", "kind", "before", "asked", "late"}
    /\ r.late = FALSE /\ r.asked \in BOOLEAN
    /\ r.pc = "act" => r.asked = TRUE \/ AutoApprove

ChatInv ==
    /\ DOMAIN chat = Chats
    /\ \A c \in Chats : IsChat(chat[c])
    /\ \A act \in edActs : act.late = FALSE /\ (act.asked = TRUE \/ AutoApprove)

LEMMA ReadyChat ==
  ASSUME NEW step, NEW turn
  PROVE  IsChat(Editor!Ready(step, turn)) /\ Editor!Ready(step, turn).pc = "model"
  BY DEF Editor!Ready, IsChat

LEMMA ChatStep ==
  ASSUME ChatInv, NEW c \in Chats, NEW new, IsChat(new),
         chat' = [chat EXCEPT ![c] = new], edActs' = edActs
  PROVE  ChatInv'
  BY DEF ChatInv

LEMMA HandsOver ==
  ASSUME ChatInv, NEW c \in Chats
  PROVE  IsChat(Editor!HandOver(c))
<1>1. IsChat([chat[c] EXCEPT !.pc = "over"])
  BY DEF ChatInv, IsChat
<1>. QED  BY <1>1, ReadyChat DEF Editor!HandOver

LEMMA ModelStepsKeepChats ==
  ASSUME ChatInv, NEW c \in Chats, Editor!Ask(c) \/ Editor!Answer(c) \/ Editor!GiveUp(c)
  PROVE  ChatInv'
<1>1. edActs' = edActs
  BY DEF Editor!Ask, Editor!Answer, Editor!GiveUp
<1>2. CASE chat' = [chat EXCEPT ![c] = Editor!HandOver(c)]
  BY <1>1, <1>2, HandsOver, ChatStep
<1>3. CASE chat' = [chat EXCEPT ![c].pc = "answer"]
  <2> DEFINE new == [chat[c] EXCEPT !.pc = "answer"]
  <2>1. chat' = [chat EXCEPT ![c] = new]
    BY <1>3, Zenon
  <2>2. IsChat(new)
    BY DEF ChatInv, IsChat
  <2> HIDE DEF new
  <2>. QED  BY <1>1, <2>1, <2>2, ChatStep
<1>4. ASSUME NEW n, chat' = [chat EXCEPT ![c].pc = "calls", ![c].calls = n]
      PROVE  ChatInv'
  <2> DEFINE new == [chat[c] EXCEPT !.pc = "calls", !.calls = n]
  <2>1. chat' = [chat EXCEPT ![c] = new]
    BY <1>4, Zenon
  <2>2. IsChat(new)
    BY DEF ChatInv, IsChat
  <2> HIDE DEF new
  <2>. QED  BY <1>1, <2>1, <2>2, ChatStep
<1>. QED  BY <1>2, <1>3, <1>4 DEF Editor!Ask, Editor!Answer, Editor!GiveUp

LEMMA CallKeepsChats ==
  ASSUME ChatInv, NEW c \in Chats, Editor!Call(c)
  PROVE  ChatInv'
<1>1. /\ edActs' = edActs /\ c \notin cancelled
      /\ \E kind \in Editor!Kinds, wrong \in BOOLEAN :
        chat' = [chat EXCEPT
            ![c].kind = kind,
            ![c].late = c \in cancelled,
            ![c].before = IF kind = "str_replace" THEN file ELSE {},
            ![c].pc = IF Editor!ClassA(kind) \/ wrong THEN "told"
                      ELSE IF AutoApprove THEN "act" ELSE "gate"]
  BY DEF Editor!Call, Editor!MayCall
<1>2. PICK kind, late, before, pc :
        /\ late = FALSE /\ (pc = "act" => AutoApprove)
        /\ chat' = [chat EXCEPT ![c].kind = kind, ![c].late = late,
                                ![c].before = before, ![c].pc = pc]
  <2>1. PICK kind \in Editor!Kinds, wrong \in BOOLEAN :
        chat' = [chat EXCEPT
            ![c].kind = kind,
            ![c].late = c \in cancelled,
            ![c].before = IF kind = "str_replace" THEN file ELSE {},
            ![c].pc = IF Editor!ClassA(kind) \/ wrong THEN "told"
                      ELSE IF AutoApprove THEN "act" ELSE "gate"]
    BY <1>1, Zenon
  <2> DEFINE late == c \in cancelled
             before == IF kind = "str_replace" THEN file ELSE {}
             pc == IF Editor!ClassA(kind) \/ wrong THEN "told"
                   ELSE IF AutoApprove THEN "act" ELSE "gate"
  <2>2. late = FALSE /\ (pc = "act" => AutoApprove)
    BY <1>1
  <2>3. chat' = [chat EXCEPT ![c].kind = kind, ![c].late = late,
                             ![c].before = before, ![c].pc = pc]
    BY <2>1, Zenon
  <2> HIDE DEF late, before, pc
  <2>. QED  BY <2>2, <2>3, Zenon
<1> DEFINE new == [chat[c] EXCEPT !.kind = kind, !.late = late, !.before = before, !.pc = pc]
<1>3. chat' = [chat EXCEPT ![c] = new]
  BY <1>2, Zenon
<1>4. IsChat(new)
  BY <1>2 DEF ChatInv, IsChat
<1> HIDE DEF new
<1>. QED  BY <1>1, <1>3, <1>4, ChatStep

LEMMA GateKeepsChats ==
  ASSUME ChatInv, NEW c \in Chats, Editor!Decide(c)
  PROVE  ChatInv'
<1>1. PICK approve \in BOOLEAN :
        chat' = [chat EXCEPT ![c].pc = IF approve THEN "act" ELSE "told",
                             ![c].asked = approve]
  BY DEF Editor!Decide
<1> DEFINE pc == IF approve THEN "act" ELSE "told"
           new == [chat[c] EXCEPT !.pc = pc, !.asked = approve]
<1>2. chat' = [chat EXCEPT ![c] = new]
  BY <1>1, Zenon
<1>3. pc = "act" => approve = TRUE
  OBVIOUS
<1> HIDE DEF pc
<1>4. IsChat(new)
  BY <1>3 DEF ChatInv, IsChat
<1> HIDE DEF new
<1>. QED  BY <1>2, <1>4, ChatStep DEF Editor!Decide

LEMMA ActKeepsChats ==
  ASSUME ChatInv, NEW c \in Chats, Editor!Act(c) \/ Editor!Fails(c)
  PROVE  ChatInv'
<1> DEFINE new == [chat[c] EXCEPT !.pc = "told"]
<1>1. /\ chat[c].pc = "act" /\ chat' = [chat EXCEPT ![c] = new]
      /\ \/ edActs' = edActs
         \/ edActs' = edActs \cup {[asked |-> chat[c].asked, late |-> chat[c].late]}
  BY Zenon DEF Editor!Act, Editor!Fails
<1>2. IsChat(new)
  BY DEF ChatInv, IsChat
<1> HIDE DEF new
<1>3. chat[c].late = FALSE /\ (chat[c].asked = TRUE \/ AutoApprove)
  BY <1>1 DEF ChatInv, IsChat
<1>4. \A act \in edActs' : act.late = FALSE /\ (act.asked = TRUE \/ AutoApprove)
  BY <1>1, <1>3 DEF ChatInv
<1>. QED  BY <1>1, <1>2, <1>4 DEF ChatInv

LEMMA ToldKeepsChats ==
  ASSUME ChatInv, NEW c \in Chats, Editor!Told(c)
  PROVE  ChatInv'
<1> DEFINE next == Editor!Ready(chat[c].step, chat[c].turn + 1)
           same == Editor!Ready(chat[c].step, chat[c].turn)
           left == [same EXCEPT !.pc = "calls", !.calls = chat[c].calls - 1]
<1>1. /\ edActs' = edActs
      /\ chat' = [chat EXCEPT ![c] = IF chat[c].calls = 1 THEN next ELSE left]
  BY Zenon DEF Editor!Told
<1>2. IsChat(next) /\ IsChat(same)
  BY ReadyChat
<1> HIDE DEF next, same
<1>3. IsChat(left)
  BY <1>2 DEF IsChat
<1> HIDE DEF left
<1>. QED  BY <1>1, <1>2, <1>3, ChatStep

\* Whatever the requests ask for and whenever the user cancels, a side effect
\* is of a call begun before the token was cancelled, and was approved in a
\* dialog of its own unless everything is.
THEOREM ActsAllowedHolds == Editor!Spec => []ActsAllowed
<1>1. Editor!Init => ChatInv
  BY ReadyChat DEF Editor!Init, ChatInv
<1>2. ChatInv /\ [Editor!Next]_(Editor!vars) => ChatInv'
  <2> SUFFICES ASSUME ChatInv, [Editor!Next]_(Editor!vars) PROVE ChatInv'
    OBVIOUS
  <2>1. ASSUME UNCHANGED <<chat, edActs>> PROVE ChatInv'
    BY <2>1 DEF ChatInv
  <2>2. CASE UNCHANGED Editor!vars
    BY <2>1, <2>2 DEF Editor!vars
  <2>3. CASE Editor!UserSaves \/ \E c \in Chats : Editor!UserCancels(c)
    BY <2>1, <2>3 DEF Editor!UserSaves, Editor!UserCancels
  <2>. QED  BY <2>2, <2>3, ModelStepsKeepChats, CallKeepsChats, GateKeepsChats,
               ActKeepsChats, ToldKeepsChats DEF Editor!Next
<1>3. ChatInv => ActsAllowed
  BY DEF ChatInv, ActsAllowed, Editor!ActsAllowed
<1>. QED  BY <1>1, <1>2, <1>3, PTL DEF Editor!Spec

---------------------------------------------------------------------------
(* The loop comes to its end *)

\* What the measure of the loop relies on.
LoopInv ==
    /\ Shape
    /\ exec.pc \in {"call", "clear", "spawn", "wait", "act", "done", "threw", "down"}
    /\ exec.turn \in 0..MaxTurns
    /\ exec.calls \in Seq(Tools)
    /\ exec.pc = "act" => exec.turn < MaxTurns /\ exec.calls # <<>>
    /\ output # None => output.calls \in Seq(Tools)
    /\ IsFiniteSet(workers)
    /\ \A w \in workers : w = [for |-> w.for, has |-> w.has]

LEMMA AnswersAreSeqs == Answers \subseteq Seq(Tools)
<1> SUFFICES ASSUME NEW answer \in Answers PROVE answer \in Seq(Tools)
  OBVIOUS
<1>1. PICK n \in 0..MaxCalls : answer \in [1..n -> Tools]
  BY DEF Answers
<1>2. n \in Nat
  OBVIOUS
<1> QED
  BY <1>1, <1>2, SeqDef

LEMMA LoopInit == Init => LoopInv
<1> SUFFICES ASSUME Init PROVE LoopInv
  OBVIOUS
<1>1. IsFiniteSet(workers)
  BY FS_EmptySet DEF Init
<1> QED
  BY <1>1, LoopAssumption DEF Init, Begin, FirstTurn, LoopInv, Shape

\* What a call's answer, or its error, does to the record.
LEMMA HeardMoves ==
  ASSUME LoopInv, NEW tried, NEW answer \in Seq(Tools), Heard(tried, answer) \/ Throw
  PROVE  /\ Shape' /\ exec'.turn = exec.turn /\ exec'.calls \in Seq(Tools)
         /\ \/ exec'.pc \in {"done", "threw"}
            \/ exec'.pc = "act" /\ exec.turn < MaxTurns /\ exec'.calls # <<>>
<1>1. CASE Throw
  BY <1>1 DEF LoopInv, Shape, Throw
<1>2. CASE Heard(tried, answer)
  <2>1. CASE answer = <<>> \/ exec.turn = MaxTurns
    BY <1>2, <2>1 DEF LoopInv, Shape, Heard
  <2>2. CASE ~(answer = <<>> \/ exec.turn = MaxTurns)
    <3>1. exec.turn < MaxTurns
      BY <2>2, LoopAssumption DEF LoopInv
    <3> QED
      BY <1>2, <2>2, <3>1 DEF LoopInv, Shape, Heard
  <2> QED
    BY <2>1, <2>2
<1> QED
  BY <1>1, <1>2

LEMMA OneLess ==
  ASSUME NEW rest \in Seq(Tools), rest # <<>>
  PROVE  /\ Len(rest) \in Nat /\ Tail(rest) \in Seq(Tools) /\ Len(Tail(rest)) = Len(rest) - 1
         /\ Len(rest) # 1 => Tail(rest) # <<>>
<1>1. /\ Tail(rest) \in Seq(Tools) /\ Len(Tail(rest)) = Len(rest) - 1 /\ Len(rest) \in Nat
  BY HeadTailProperties
<1>2. Len(rest) # 1 => Len(Tail(rest)) # 0
  BY <1>1
<1> QED
  BY <1>1, <1>2, EmptySeq

\* What a tool's answer does to it.
LEMMA AnsweredMoves ==
  ASSUME LoopInv, exec.pc = "act", Answered
  PROVE  /\ Shape' /\ exec'.calls \in Seq(Tools)
         /\ \/ exec'.pc = "call" /\ exec'.turn = exec.turn + 1
            \/ /\ exec'.pc = "act" /\ exec'.turn = exec.turn
               /\ exec'.calls # <<>> /\ Len(exec'.calls) = Len(exec.calls) - 1
<1>1. exec.calls \in Seq(Tools) /\ exec.calls # <<>>
  BY DEF LoopInv
<1>2. /\ Tail(exec.calls) \in Seq(Tools) /\ Len(Tail(exec.calls)) = Len(exec.calls) - 1
      /\ Len(exec.calls) # 1 => Tail(exec.calls) # <<>>
  BY <1>1, OneLess
<1>3. CASE Len(exec.calls) = 1
  BY <1>2, <1>3 DEF LoopInv, Shape, Answered, NextTurn
<1>4. CASE Len(exec.calls) # 1
  BY <1>2, <1>4 DEF LoopInv, Shape, Answered, NextTurn
<1> QED
  BY <1>3, <1>4

\* Every step keeps what the measure relies on.
LEMMA CallKeepsLoop == ASSUME LoopInv, CallStep PROVE LoopInv'
<1>1. CASE CallInProcess
  <2>1. \E tried, answer : answer \in Seq(Tools) /\ (Heard(tried, answer) \/ Throw)
    BY <1>1, AnswersAreSeqs, EmptySeq DEF CallInProcess
  <2> QED
    BY <1>1, <2>1, HeardMoves DEF CallInProcess, LoopInv
<1>2. CASE WriteInput \/ RemoveOutput
  BY <1>2 DEF WriteInput, RemoveOutput, LoopInv, Shape
<1>3. CASE Spawn
  <2>1. CASE Throw /\ UNCHANGED workers
    BY <1>3, <2>1, HeardMoves, EmptySeq DEF Spawn, LoopInv
  <2>2. CASE /\ workers' = workers \cup {[for |-> Prompt, has |-> None]}
             /\ exec' = [exec EXCEPT !.pc = "wait"]
    <3>1. IsFiniteSet(workers')
      BY <2>2, FS_AddElement DEF LoopInv
    <3> QED
      BY <1>3, <2>2, <3>1 DEF Spawn, LoopInv, Shape
  <2> QED
    BY <1>3, <2>1, <2>2 DEF Spawn
<1>4. CASE Collect
  <2>1. \E tried, answer : answer \in Seq(Tools) /\ (Heard(tried, answer) \/ Throw)
    BY <1>4, EmptySeq DEF Collect, LoopInv
  <2> QED
    BY <1>4, <2>1, HeardMoves DEF Collect, LoopInv
<1> QED
  BY <1>1, <1>2, <1>3, <1>4 DEF CallStep

LEMMA WorkerKeepsLoop == ASSUME LoopInv, WorkerStep PROVE LoopInv'
<1>1. PICK w \in workers : WorkerReads(w) \/ WorkerAnswers(w) \/ WorkerDies(w)
  BY DEF WorkerStep
<1>2. IsFiniteSet(workers) /\ IsFiniteSet(workers \ {w})
  BY FS_RemoveElement DEF LoopInv
<1>3. CASE WorkerReads(w)
  <2>1. IsFiniteSet(workers')
    BY <1>2, <1>3, FS_AddElement DEF WorkerReads
  <2> QED
    BY <1>1, <1>3, <2>1 DEF WorkerReads, LoopInv, Shape
<1>4. CASE WorkerAnswers(w)
  <2>1. output' # None => output'.calls \in Seq(Tools)
    BY <1>4, AnswersAreSeqs DEF WorkerAnswers
  <2> QED
    BY <1>2, <1>4, <2>1 DEF WorkerAnswers, LoopInv, Shape
<1>5. CASE WorkerDies(w)
  BY <1>2, <1>5 DEF WorkerDies, LoopInv, Shape
<1> QED
  BY <1>1, <1>3, <1>4, <1>5

LEMMA LoopNext == LoopInv /\ [Next]_vars => LoopInv'
<1> SUFFICES ASSUME LoopInv, [Next]_vars PROVE LoopInv'
  OBVIOUS
<1>1. CASE ToolStep
  <2>1. exec.pc = "act" /\ (Answered \/ Throw) /\ UNCHANGED <<workers, output>>
    BY <1>1 DEF ToolStep, Reject, ProposalFails, Propose, Execute, ToolThrows
  <2>2. CASE Answered
    BY <2>1, <2>2, AnsweredMoves, LoopAssumption DEF LoopInv
  <2>3. CASE Throw
    BY <2>1, <2>3, HeardMoves, EmptySeq DEF LoopInv
  <2> QED
    BY <2>1, <2>2, <2>3
<1>2. CASE Crash
  <2>1. IsFiniteSet(workers') /\ workers' \subseteq workers
    BY <1>2, FS_Subset DEF Crash, LoopInv
  <2> QED
    BY <1>2, <2>1 DEF Crash, LoopInv, Shape
<1>3. CASE Restart
  BY <1>3, EmptySeq, LoopAssumption DEF Restart, Begin, FirstTurn, LoopInv, Shape
<1>4. CASE UNCHANGED vars
  BY <1>4 DEF vars, LoopInv, Shape
<1> QED
  BY <1>1, <1>2, <1>3, <1>4, CallKeepsLoop, WorkerKeepsLoop DEF Next

\* Where an execution is in its turn.
Phase == CASE exec.pc = "call"  -> 5
           [] exec.pc = "clear" -> 4
           [] exec.pc = "spawn" -> 3
           [] exec.pc = "wait"  -> 2
           [] exec.pc = "act"   -> 1
           [] OTHER             -> 0

Unread == {w \in workers : w.has = None}
TurnsLeft == 6 * (MaxTurns - exec.turn) + Phase
WorkLeft == (IF exec.pc = "act" THEN Len(exec.calls) ELSE 0)
            + Cardinality(workers) + Cardinality(Unread)

\* What is left of an execution, and the order in which it becomes less.
Left == <<TurnsLeft, WorkLeft>>
Less == OpToRel(<, Nat)
Descent == LexPairOrdering(Less, Less, Nat, Nat)

LEMMA Descends ==
  ASSUME NEW a \in Nat, NEW b \in Nat, NEW c \in Nat, NEW d \in Nat,
         a < c \/ (a = c /\ b < d)
  PROVE  <<<<a, b>>, <<c, d>>>> \in Descent
  BY DEF Descent, LexPairOrdering, Less, OpToRel

LEMMA LeftIsNat == LoopInv => TurnsLeft \in Nat /\ WorkLeft \in Nat /\ Phase \in 0..5
<1> SUFFICES ASSUME LoopInv PROVE TurnsLeft \in Nat /\ WorkLeft \in Nat /\ Phase \in 0..5
  OBVIOUS
<1>1. Phase \in 0..5
  BY DEF LoopInv, Phase
<1>2. MaxTurns - exec.turn \in Nat
  BY LoopAssumption DEF LoopInv
<1>3. TurnsLeft \in Nat
  BY <1>1, <1>2 DEF TurnsLeft
<1>4. Cardinality(workers) \in Nat /\ Cardinality(Unread) \in Nat
  BY FS_CardinalityType, FS_Subset DEF LoopInv, Unread
<1>5. Len(exec.calls) \in Nat
  BY LenProperties DEF LoopInv
<1> QED
  BY <1>1, <1>3, <1>4, <1>5 DEF WorkLeft

LEMMA LeftIsNatNext ==
  LoopInv' => (TurnsLeft \in Nat /\ WorkLeft \in Nat /\ Phase \in 0..5)'
  BY LeftIsNat, PTL

\* A step to a later phase of the turn, or to the next turn.
LEMMA LaterDescends ==
  ASSUME LoopInv, LoopInv',
         \/ exec'.turn = exec.turn /\ Phase' < Phase
         \/ exec'.turn = exec.turn + 1
  PROVE  <<Left', Left>> \in Descent
<1>1. /\ TurnsLeft \in Nat /\ WorkLeft \in Nat /\ TurnsLeft' \in Nat /\ WorkLeft' \in Nat
      /\ Phase \in 0..5 /\ Phase' \in 0..5
  BY LeftIsNat, LeftIsNatNext
<1>2. exec.turn \in Nat /\ exec'.turn \in Nat /\ MaxTurns \in Nat
  BY LoopAssumption DEF LoopInv
<1>3. TurnsLeft = 6 * (MaxTurns - exec.turn) + Phase
  BY DEF TurnsLeft
<1>4. TurnsLeft' = 6 * (MaxTurns - exec'.turn) + Phase'
  BY DEF TurnsLeft
<1>5. TurnsLeft' < TurnsLeft
  BY <1>1, <1>2, <1>3, <1>4
<1> QED
  BY <1>1, <1>5, Descends DEF Left

LEMMA CallDescends == ASSUME LoopInv, LoopInv', CallStep PROVE <<Left', Left>> \in Descent
<1>1. CASE CallInProcess \/ Collect
  <2>1. exec.pc \in {"call", "wait"}
    BY <1>1 DEF CallInProcess, Collect
  <2>2. \E tried, answer : answer \in Seq(Tools) /\ (Heard(tried, answer) \/ Throw)
    BY <1>1, AnswersAreSeqs, EmptySeq DEF CallInProcess, Collect, LoopInv
  <2>3. exec'.turn = exec.turn /\ exec'.pc \in {"done", "threw", "act"}
    BY <2>2, HeardMoves
  <2> QED
    BY <2>1, <2>3, LaterDescends DEF Phase
<1>2. CASE WriteInput
  BY <1>2, LaterDescends DEF WriteInput, LoopInv, Shape, Phase
<1>3. CASE RemoveOutput
  BY <1>3, LaterDescends DEF RemoveOutput, LoopInv, Shape, Phase
<1>4. CASE Spawn
  <2>1. exec'.turn = exec.turn /\ exec'.pc \in {"wait", "threw"} /\ exec.pc = "spawn"
    BY <1>4 DEF Spawn, Throw, LoopInv, Shape
  <2> QED
    BY <2>1, LaterDescends DEF Phase
<1> QED
  BY <1>1, <1>2, <1>3, <1>4 DEF CallStep

LEMMA ToolDescends == ASSUME LoopInv, LoopInv', ToolStep PROVE <<Left', Left>> \in Descent
<1>1. exec.pc = "act" /\ (Answered \/ Throw) /\ workers' = workers
  BY DEF ToolStep, Reject, ProposalFails, Propose, Execute, ToolThrows
<1>2. CASE Throw
  BY <1>1, <1>2, LaterDescends DEF Throw, LoopInv, Shape, Phase
<1>3. CASE Answered /\ exec'.turn = exec.turn + 1
  BY <1>3, LaterDescends
<1>4. CASE /\ exec'.pc = "act" /\ exec'.turn = exec.turn
           /\ Len(exec'.calls) = Len(exec.calls) - 1
  <2>1. /\ TurnsLeft \in Nat /\ WorkLeft \in Nat /\ TurnsLeft' \in Nat /\ WorkLeft' \in Nat
    BY LeftIsNat, LeftIsNatNext
  <2>2. Phase' = Phase /\ Unread' = Unread
    BY <1>1, <1>4 DEF Phase, Unread
  <2>3. TurnsLeft' = TurnsLeft
    BY <1>4, <2>2 DEF TurnsLeft
  <2>4. Len(exec.calls) \in Nat
    BY LenProperties DEF LoopInv
  <2>5. Cardinality(workers) \in Nat /\ Cardinality(Unread) \in Nat
    BY FS_CardinalityType, FS_Subset DEF LoopInv, Unread
  <2>6. WorkLeft' < WorkLeft
    <3>1. /\ WorkLeft = Len(exec.calls) + Cardinality(workers) + Cardinality(Unread)
          /\ WorkLeft' = Len(exec'.calls) + Cardinality(workers) + Cardinality(Unread)
      BY <1>1, <1>4, <2>2 DEF WorkLeft
    <3> QED
      BY <1>4, <2>4, <2>5, <3>1
  <2> QED
    BY <2>1, <2>3, <2>6, Descends DEF Left
<1> QED
  BY <1>1, <1>2, <1>3, <1>4, AnsweredMoves

\* A worker reads once and ends once.
LEMMA WorkerDescends ==
  ASSUME LoopInv, LoopInv', WorkerStep
  PROVE  workers' = workers \/ <<Left', Left>> \in Descent
<1>1. PICK w \in workers : WorkerReads(w) \/ WorkerAnswers(w) \/ WorkerDies(w)
  BY DEF WorkerStep
<1>2. exec' = exec /\ TurnsLeft' = TurnsLeft
  BY <1>1 DEF WorkerReads, WorkerAnswers, WorkerDies, TurnsLeft, Phase
<1>3. /\ TurnsLeft \in Nat /\ WorkLeft \in Nat /\ TurnsLeft' \in Nat /\ WorkLeft' \in Nat
  BY LeftIsNat, LeftIsNatNext
<1>4. IsFiniteSet(workers) /\ IsFiniteSet(workers') /\ IsFiniteSet(Unread) /\ IsFiniteSet(Unread')
  BY FS_Subset DEF LoopInv, Unread
<1>5. /\ Cardinality(workers) \in Nat /\ Cardinality(workers') \in Nat
      /\ Cardinality(Unread) \in Nat /\ Cardinality(Unread') \in Nat
  BY <1>4, FS_CardinalityType
<1>6. Cardinality(workers \ {w}) = Cardinality(workers) - 1 /\ IsFiniteSet(workers \ {w})
  BY <1>1, <1>4, FS_RemoveElement
<1>7. CASE /\ Cardinality(workers') <= Cardinality(workers)
           /\ Cardinality(Unread') <= Cardinality(Unread)
           /\ \/ Cardinality(workers') < Cardinality(workers)
              \/ Cardinality(Unread') < Cardinality(Unread)
  <2> DEFINE asked == IF exec.pc = "act" THEN Len(exec.calls) ELSE 0
  <2>1. asked \in Nat
    BY LenProperties DEF LoopInv
  <2>2. /\ WorkLeft = asked + Cardinality(workers) + Cardinality(Unread)
        /\ WorkLeft' = asked + Cardinality(workers') + Cardinality(Unread')
    BY <1>2 DEF WorkLeft
  <2> HIDE DEF asked
  <2>3. WorkLeft' < WorkLeft
    BY <1>5, <1>7, <2>1, <2>2
  <2> QED
    BY <1>2, <1>3, <2>3, Descends DEF Left
<1>8. CASE WorkerReads(w) /\ input # None
  <2> DEFINE reader == [w EXCEPT !.has = input]
  <2>1. workers' = (workers \ {w}) \cup {reader} /\ w.has = None
    BY <1>8 DEF WorkerReads
  <2>2. reader.has = input
    BY <1>1 DEF LoopInv
  <2> HIDE DEF reader
  <2>3. Unread' = Unread \ {w} /\ w \in Unread
    BY <1>1, <1>8, <2>1, <2>2 DEF Unread
  <2>4. Cardinality(Unread') = Cardinality(Unread) - 1
    BY <1>4, <2>3, FS_RemoveElement
  <2>5. Cardinality(workers') <= Cardinality(workers)
    BY <1>5, <1>6, <2>1, FS_AddElement
  <2> QED
    BY <1>5, <1>7, <2>4, <2>5
<1>9. CASE WorkerReads(w) /\ input = None
  BY <1>1, <1>9 DEF WorkerReads, LoopInv
<1>10. CASE WorkerAnswers(w) \/ WorkerDies(w)
  <2>1. workers' = workers \ {w}
    BY <1>10 DEF WorkerAnswers, WorkerDies
  <2>2. Unread' \subseteq Unread
    BY <2>1 DEF Unread
  <2>3. Cardinality(Unread') <= Cardinality(Unread)
    BY <1>4, <2>2, FS_Subset
  <2> QED
    BY <1>5, <1>6, <1>7, <2>1, <2>3
<1> QED
  BY <1>1, <1>8, <1>9, <1>10

\* Every step of the loop but a crash and the restart after it leaves less to be
\* done, in an order in which nothing becomes less for ever: a turn goes from
\* one phase to the next, its tool calls get fewer, a worker reads once and ends
\* once, and after MaxTurns turns comes the last one (core index.ts:3229-3312).
\* This is why the loop ends whatever the model asks for, for any number of
\* turns, and the bound on the crashes is the only one LoopEnds needs.
THEOREM LoopDescends ==
  /\ IsWellFoundedOn(Descent, Nat \X Nat)
  /\ Spec => [][Crash \/ Restart \/ <<Left', Left>> \in Descent]_vars
<1>1. IsWellFoundedOn(Descent, Nat \X Nat)
  BY NatLessThanWellFounded, WFLexPairOrdering DEF Descent, Less
<1>2. LoopInv /\ LoopInv' /\ [Next]_vars =>
        [Crash \/ Restart \/ <<Left', Left>> \in Descent]_vars
  <2> SUFFICES ASSUME LoopInv, LoopInv', Next
               PROVE  Crash \/ Restart \/ <<Left', Left>> \in Descent \/ UNCHANGED vars
    OBVIOUS
  <2>1. CASE WorkerStep /\ workers' = workers
    <3>1. PICK w \in workers : WorkerReads(w) \/ WorkerAnswers(w) \/ WorkerDies(w)
      BY <2>1 DEF WorkerStep
    <3>2. WorkerReads(w)
      BY <2>1, <3>1 DEF WorkerAnswers, WorkerDies
    <3> QED
      BY <2>1, <3>2 DEF WorkerReads, vars
  <2> QED
    BY <2>1, CallDescends, ToolDescends, WorkerDescends DEF Next
<1> QED
  BY <1>1, <1>2, LoopInit, LoopNext, PTL DEF Spec

=============================================================================
