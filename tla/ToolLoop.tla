------------------------------ MODULE ToolLoop ------------------------------
(***************************************************************************)
(* One task's execution by its specialist: the loop of model calls and     *)
(* tool calls (executeTaskWithAutonomousTools), and the worker process a   *)
(* model call is made in, which is spoken to through two files named after *)
(* the task (specialist-worker-runtime.ts, specialist-worker.ts).          *)
(*                                                                         *)
(* What createProposal and execute decide is in ActionGovernance; here a   *)
(* proposal is refused or filed, and a gated one is executed only under an *)
(* approval of the task.  A model call ends: nothing in this code times    *)
(* one out.                                                                *)
(***************************************************************************)
EXTENDS Naturals, Sequences

CONSTANTS MaxTurns,    \* MAX_AUTONOMOUS_TOOL_TURNS
          Tools,       \* the tools a model asks for
          Lists,       \* what the two lists of descriptors may be
          MaxCalls,    \* bound: tools asked for in one answer
          MaxCrashes,  \* bound: crashes of crew-runner
          None         \* no file

ASSUME LoopAssumption == MaxTurns \in Nat

VARIABLES mode,     \* what resolveSpecialistExecutionMode found
          approved, \* whether an approval of the task has been granted
          list,     \* the lists: what is automatic and what is offered
          exec,     \* the execution in crew-runner
          workers,  \* the worker processes alive
          input,    \* task-input.json: the prompt written last
          output,   \* task-output.json
          acts,     \* history: what has been done with which tool
          stray     \* history: a worker that outlived crew-runner was alive when
                    \* the last call began

vars == <<mode, approved, list, exec, workers, input, output, acts, stray>>

Modes == {"shared_runner", "isolated_subprocess", "worker_container"}

\* ACTION_TOOL_POLICIES, as far as the loop looks at them; a tool that is not
\* listed there has no policy.
Known(tool) == tool \in {"search_artifacts", "read_file", "write_file",
                         "propose_spec_correction", "deploy"}
ClassA(tool) == tool \in {"search_artifacts", "read_file"}
Gated(tool) == tool \in {"propose_spec_correction", "deploy"}

\* AUTONOMOUS_TOOL_DESCRIPTORS and AUTONOMOUS_PROPOSE_ONLY_TOOL_DESCRIPTORS,
\* and lists that have drifted from the policies.
TheLists == [automatic |-> {"search_artifacts"},
             offered |-> {"propose_spec_correction"}]

\* Mutant of Automatic: being listed is enough.
Listed(tool) == Known(tool) /\ tool \in list.automatic

Automatic(tool) ==
    Known(tool) /\ ClassA(tool) /\ ~Gated(tool) /\ tool \in list.automatic
ProposeOnly(tool) ==
    Known(tool) /\ Gated(tool) /\ tool \in list.offered

Answers == UNION {[1..n -> Tools] : n \in 0..MaxCalls}

\* What a call of the model is about: no two calls are about the same.
Prompt == [attempt |-> exec.attempt, turn |-> exec.turn]

\* A container is asked once, and offered no tools: like the loop's last call.
FirstTurn == IF mode = "worker_container" THEN MaxTurns ELSE 0

Begin(attempt) ==
    [pc |-> "call", attempt |-> attempt, turn |-> FirstTurn, heard |-> None,
     calls |-> <<>>]

Init ==
    /\ mode \in Modes
    /\ approved \in BOOLEAN
    /\ list \in Lists
    /\ exec = Begin(0)
    /\ workers = {}
    /\ input = None /\ output = None
    /\ acts = {} /\ stray = FALSE

---------------------------------------------------------------------------
(* The model call *)

\* What the loop does with an answer: the last one is the result whatever
\* it asks for.
Heard(prompt, calls) ==
    IF calls = <<>> \/ exec.turn = MaxTurns
    THEN exec' = [exec EXCEPT !.pc = "done", !.heard = prompt]
    ELSE exec' = [exec EXCEPT !.pc = "act", !.heard = prompt, !.calls = calls]

Throw == exec' = [exec EXCEPT !.pc = "threw"]

\* In process: provider.executeTask
CallInProcess ==
    /\ exec.pc = "call" /\ mode = "shared_runner"
    /\ Throw \/ \E calls \in Answers : Heard(Prompt, calls)
    /\ UNCHANGED <<mode, approved, list, workers, input, output, acts, stray>>

\* executeTaskViaWorkerProcess
WriteInput ==
    /\ exec.pc = "call" /\ mode # "shared_runner"
    /\ input' = Prompt
    /\ exec' = [exec EXCEPT !.pc = "clear"]
    /\ UNCHANGED <<mode, approved, list, workers, output, acts, stray>>

\* Mutant of RemoveOutput: what the last call left is not removed.
KeepOutput ==
    /\ exec.pc = "clear"
    /\ exec' = [exec EXCEPT !.pc = "spawn"]
    /\ stray' = (workers # {})
    /\ UNCHANGED <<mode, approved, list, workers, input, output, acts>>

RemoveOutput ==
    /\ exec.pc = "clear"
    /\ output' = None
    /\ exec' = [exec EXCEPT !.pc = "spawn"]
    /\ stray' = (workers # {})
    /\ UNCHANGED <<mode, approved, list, workers, input, acts>>

\* The worker is started, or cannot be.
Spawn ==
    /\ exec.pc = "spawn"
    /\ \/ /\ workers' = workers \cup {[for |-> Prompt, has |-> None]}
          /\ exec' = [exec EXCEPT !.pc = "wait"]
       \/ Throw /\ UNCHANGED workers
    /\ UNCHANGED <<mode, approved, list, input, output, acts, stray>>

\* runSpecialistWorker: it reads its input, and leaves its answer or its error.
WorkerReads(w) ==
    /\ w.has = None
    /\ workers' = (workers \ {w}) \cup {[w EXCEPT !.has = input]}
    /\ UNCHANGED <<mode, approved, list, exec, input, output, acts, stray>>

WorkerAnswers(w) ==
    /\ w.has # None
    /\ workers' = workers \ {w}
    /\ \E ok \in BOOLEAN, calls \in Answers :
        output' = [prompt |-> w.has, ok |-> ok, calls |-> calls]
    /\ UNCHANGED <<mode, approved, list, exec, input, acts, stray>>

\* It is killed, or fails before it has anything to write.
WorkerDies(w) ==
    /\ workers' = workers \ {w}
    /\ UNCHANGED <<mode, approved, list, exec, input, output, acts, stray>>

\* The process is over. However it ended, the output file decides.
Collect ==
    /\ exec.pc = "wait"
    /\ \A w \in workers : w.for # Prompt
    /\ IF output # None
       THEN IF output.ok THEN Heard(output.prompt, output.calls) ELSE Throw
       ELSE Throw
    /\ UNCHANGED <<mode, approved, list, workers, input, output, acts, stray>>

---------------------------------------------------------------------------
(* The tool calls of an answer, one after the other *)

Tool == Head(exec.calls)

\* Mutant of NextTurn: a turn that was refused is not counted.
TurnOfWork == IF acts = {} THEN exec.turn ELSE exec.turn + 1

\* After MaxTurns turns comes the last one.
NextTurn == exec.turn + 1

\* The next call, or the next turn.
Answered ==
    exec' = [exec EXCEPT
        !.pc = IF Len(exec.calls) = 1 THEN "call" ELSE "act",
        !.turn = IF Len(exec.calls) = 1 THEN NextTurn ELSE @,
        !.calls = Tail(@)]

\* The tool is not one of the loop's: the model is told so.
Reject ==
    /\ exec.pc = "act"
    /\ ~Automatic(Tool) /\ ~ProposeOnly(Tool)
    /\ Answered
    /\ UNCHANGED <<mode, approved, list, workers, input, output, acts, stray>>

\* createProposal answers with an error, and the model is told.
ProposalFails ==
    /\ exec.pc = "act"
    /\ Automatic(Tool) \/ ProposeOnly(Tool)
    /\ Answered
    /\ UNCHANGED <<mode, approved, list, workers, input, output, acts, stray>>

\* createProposal: a gated tool's proposal waits for a person.
Propose ==
    /\ exec.pc = "act"
    /\ ProposeOnly(Tool)
    /\ acts' = acts \cup {<<Tool, "proposed">>}
    /\ Answered
    /\ UNCHANGED <<mode, approved, list, workers, input, output, stray>>

\* createProposal and execute. A tool that is gated is executed under the
\* first approval of the task, whatever it was given for.
Execute ==
    /\ exec.pc = "act"
    /\ Automatic(Tool)
    /\ \/ /\ Gated(Tool) => approved
          /\ acts' = acts \cup {<<Tool, "executed">>}
          /\ Answered
       \/ Answered /\ UNCHANGED acts
    /\ UNCHANGED <<mode, approved, list, workers, input, output, stray>>

\* Anything else that goes wrong is the end of the execution.
ToolThrows ==
    /\ exec.pc = "act"
    /\ Throw
    /\ UNCHANGED <<mode, approved, list, workers, input, output, acts, stray>>

---------------------------------------------------------------------------
(* crew-runner goes down, its workers with it or not, and begins the task
   again when it is back. *)

Crash ==
    /\ exec.attempt < MaxCrashes
    /\ exec.pc \notin {"done", "threw", "down"}
    /\ exec' = [exec EXCEPT !.pc = "down"]
    /\ workers' \in SUBSET workers
    /\ UNCHANGED <<mode, approved, list, input, output, acts, stray>>

Restart ==
    /\ exec.pc = "down"
    /\ exec' = Begin(exec.attempt + 1)
    /\ UNCHANGED <<mode, approved, list, workers, input, output, acts, stray>>

CallStep == CallInProcess \/ WriteInput \/ RemoveOutput \/ Spawn \/ Collect
WorkerStep ==
    \E w \in workers : WorkerReads(w) \/ WorkerAnswers(w) \/ WorkerDies(w)
ToolStep == Reject \/ ProposalFails \/ Propose \/ Execute \/ ToolThrows

Next == CallStep \/ WorkerStep \/ ToolStep \/ Crash \/ Restart

Spec == Init /\ [][Next]_vars

\* The event loop runs what is ready, a model call ends and a runner that
\* went down is started again.
Fairness == /\ WF_vars(CallStep) /\ WF_vars(WorkerStep)
            /\ WF_vars(ToolStep) /\ WF_vars(Restart)
FairSpec == Spec /\ Fairness

---------------------------------------------------------------------------
(***************************************************************************)
(* Whatever a worker does or leaves undone, the answer a turn goes on with *)
(* is the answer to that turn of this execution: not what an earlier turn, *)
(* or an execution before a crash, left in the output file.  Only a call   *)
(* that began beside a worker of the process that crashed may go on with   *)
(* that worker's answer (specialist-worker-runtime.ts:156-179).            *)
(***************************************************************************)
AnswersItsTurn == exec.pc \in {"act", "done"} => exec.heard = Prompt \/ stray

(***************************************************************************)
(* The loop executes only tools that read, and only proposes the gated     *)
(* ones: even if the lists have drifted from the policies and the task has *)
(* an approval that execute would accept (core index.ts:3237-3304).        *)
(***************************************************************************)
OnlyReadsDone ==
    \A tool \in Tools : /\ <<tool, "executed">> \in acts => ClassA(tool)
                        /\ <<tool, "proposed">> \in acts => Gated(tool)

\* The loop ends, however often the model asks for tools: the prompt of its
\* last turn allows none (core index.ts:3229-3312).
LoopEnds == <>(exec.pc \in {"done", "threw"})

=============================================================================
