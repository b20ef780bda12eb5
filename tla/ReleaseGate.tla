----------------------------- MODULE ReleaseGate -----------------------------
(***************************************************************************)
(* The autonomous release gate: the governed prompts are files that every  *)
(* process loads when it boots; a change since the last boot of any        *)
(* process is remembered in the store as a pending reevaluation; and the   *)
(* gate of a process is computed from its own prompts, the evaluation the  *)
(* store lists first and what is pending (prompt-governance.ts,            *)
(* observability.ts, the evaluations service of core).                     *)
(*                                                                         *)
(* A version of the prompts stands for their signature.                    *)
(***************************************************************************)
EXTENDS Naturals

CONSTANTS Procs,       \* crew-api and crew-runner
          Versions,    \* the versions of the prompts
          Thresholds,  \* what each version demands
          Measured,    \* the domains an evaluation scores
          MaxEvals,    \* bound: evaluations
          None         \* nothing

VARIABLES files,     \* the version on disk
          signature, \* promptGovernance.artifactSetSignature
          pending,   \* promptGovernance.reevaluationPending
          specs,     \* the version promptSpecs tells of
          proc,      \* the processes
          eval,      \* the evaluation each process runs
          evals,     \* how many evaluations were begun
          evidence,  \* the decision-quality files on disk
          top,       \* evaluationRuns[0]
          booted     \* history: the versions processes have booted with

vars == <<files, signature, pending, specs, proc, eval, evals, evidence, top, booted>>
store == <<signature, pending, specs>>

Init ==
    /\ files \in Versions
    /\ signature = None /\ pending = FALSE /\ specs = None
    /\ proc = [p \in Procs |-> [pc |-> "down", prompts |-> None]]
    /\ eval = [p \in Procs |-> None]
    /\ evals = 0 /\ evidence = {} /\ top = None
    /\ booted = {}

ChangeFiles ==
    /\ files' \in Versions
    /\ UNCHANGED <<store, proc, eval, evals, evidence, top, booted>>

\* loadPromptArtifacts, early in the boot
LoadPrompts(p) ==
    /\ proc[p].pc = "down"
    /\ proc' = [proc EXCEPT ![p] = [pc |-> "loaded", prompts |-> files]]
    /\ UNCHANGED <<files, store, eval, evals, evidence, top, booted>>

\* Mutant of PendingAfter: what is pending is forgotten at the next boot.
PendingOfThisBoot(p) == signature # None /\ signature # proc[p].prompts

PendingAfter(p) == signature # None /\ (signature # proc[p].prompts \/ pending)

\* syncPromptGovernanceState and syncPromptSpecRecords, in one write
SyncStore(p) ==
    /\ proc[p].pc = "loaded"
    /\ pending' = PendingAfter(p)
    /\ signature' = proc[p].prompts
    /\ specs' = proc[p].prompts
    /\ proc' = [proc EXCEPT ![p].pc = "up"]
    /\ booted' = booted \cup {proc[p].prompts}
    /\ UNCHANGED <<files, eval, evals, evidence, top>>

Down(p) ==
    /\ proc[p].pc # "down"
    /\ proc' = [proc EXCEPT ![p] = [pc |-> "down", prompts |-> None]]
    /\ eval' = [eval EXCEPT ![p] = None]
    /\ UNCHANGED <<files, store, evals, evidence, top, booted>>

\* runDecisionQualityEvaluation: the domains all of whose scenarios passed.
Outcomes == SUBSET Measured

\* evaluations.create: the harness is a boot of its own, over its own store,
\* and loads what is on disk now.
BeginEvaluation(p) ==
    /\ proc[p].pc = "up" /\ eval[p] = None /\ evals < MaxEvals
    /\ evals' = evals + 1
    /\ \E met \in Outcomes :
        eval' = [eval EXCEPT ![p] = [id |-> evals + 1, met |-> met]]
    /\ UNCHANGED <<files, store, proc, evidence, top, booted>>

WriteEvidence(p) ==
    /\ eval[p] # None /\ eval[p].id \notin evidence
    /\ evidence' = evidence \cup {eval[p].id}
    /\ UNCHANGED <<files, store, proc, eval, evals, top, booted>>

\* The JSON store lists what was written last first, the Postgres store what
\* has the lowest id: of a random one nobody knows where it comes.
RecordEvaluation(p) ==
    /\ eval[p] # None /\ eval[p].id \in evidence
    /\ top' = eval[p] \/ (top # None /\ UNCHANGED top)
    /\ eval' = [eval EXCEPT ![p] = None]
    /\ UNCHANGED <<files, store, proc, evals, evidence, booted>>

EvaluationFails(p) ==
    /\ eval[p] # None
    /\ eval' = [eval EXCEPT ![p] = None]
    /\ UNCHANGED <<files, store, proc, evals, evidence, top, booted>>

Next ==
    \/ ChangeFiles
    \/ \E p \in Procs :
         \/ LoadPrompts(p) \/ SyncStore(p) \/ Down(p) \/ BeginEvaluation(p)
         \/ WriteEvidence(p) \/ RecordEvaluation(p) \/ EvaluationFails(p)

Spec == Init /\ [][Next]_vars

---------------------------------------------------------------------------
\* buildAutonomousReleaseGate
ThresholdStatus(domain) ==
    IF domain \in Measured /\ top # None
    THEN IF domain \in top.met THEN "passed" ELSE "failed"
    ELSE "not_measured"

GatePassed(p) ==
    /\ ~pending /\ top # None
    /\ \A domain \in Thresholds[proc[p].prompts] : ThresholdStatus(domain) = "passed"

(***************************************************************************)
(* However boots, changes of the prompts and evaluations interleave, the   *)
(* gate passes only where everything speaks for it: every process that has *)
(* ever been up had the prompts this one has, so that those that are up    *)
(* agree; the prompt specs in the store tell of them; and the evaluation   *)
(* the store lists first is retained on disk and met everything they       *)
(* demand (prompt-governance.ts:251-280, observability.ts:115-186, 663).   *)
(* In the Postgres store that may be an older evaluation than the last;    *)
(* and which prompts were evaluated is not recorded: it may have been      *)
(* files that no process has loaded yet.                                   *)
(***************************************************************************)
GateHonest ==
    \A p \in Procs : proc[p].pc = "up" /\ GatePassed(p) =>
        /\ booted = {proc[p].prompts} /\ specs = proc[p].prompts
        /\ \A q \in Procs : proc[q].pc = "up" => GatePassed(q)
        /\ top.id \in evidence
        /\ Thresholds[proc[p].prompts] \subseteq top.met

=============================================================================
