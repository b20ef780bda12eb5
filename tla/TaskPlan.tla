------------------------------ MODULE TaskPlan ------------------------------
(***************************************************************************)
(* The tasks of a run: how a selection of specialists becomes tasks and    *)
(* delegation decisions, in which order these are executed although the    *)
(* store keeps none, and what selection a rerun takes from them            *)
(* (buildExecutionTasksForSelectedAgents, sortExecutionTasks,              *)
(* buildRerunSpecialistSelection).  The templates are those of the shipped *)
(* prompts, and named as they are there.                                   *)
(***************************************************************************)
EXTENDS Naturals, FiniteSets, SequencesExt

CONSTANTS Specialists,  \* the catalog entries
          Label,        \* their names: entries may share one
          Careful,      \* the entries whose manifest requires approval
          MaxRuns,      \* bound: a run and its reruns
          None          \* nobody

VARIABLES selection, \* the specialists of the run, the lead first
          first,     \* history: the selection of the first run
          risky,     \* whether the request itself requires approval
          catalog,   \* the entries that are still in the catalog
          tasks,     \* the tasks of the latest run
          decisions, \* its delegation decisions
          executed,  \* its tasks in the order they were executed
          runs       \* how many runs there were

vars == <<selection, first, risky, catalog, tasks, decisions, executed, runs>>

SelectionsOf(S) ==
    UNION {{s \in [1..n -> S] : \A i, j \in 1..n : s[i] = s[j] => i = j} :
           n \in 0..Cardinality(S)}

Init ==
    /\ selection \in SelectionsOf(Specialists)
    /\ first = selection
    /\ risky \in BOOLEAN
    /\ catalog = Specialists
    /\ tasks = {} /\ decisions = {} /\ executed = <<>>
    /\ runs = 0

Lead(chosen) == IF chosen = <<>> THEN None ELSE chosen[1]

\* The number of a task tells how far down its id sorts: ids are random.
Task(name, kind, agent, approval, number) ==
    [name |-> name, kind |-> kind, agent |-> agent,
     label |-> IF name = "specialist_contribution" THEN Label[agent] ELSE 0,
     approval |-> approval, id |-> number]

\* The three templates, and a contribution of each specialist but the lead.
Tasks(chosen, number) ==
    LET lead == Lead(chosen) IN
    {Task("analyze_request", "operational", lead, FALSE, 0),
     Task("execute_planned_work", "plan_step", lead, risky \/ lead \in Careful, 0),
     Task("summarize_outcome", "cleanup", None, FALSE, 0)}
    \cup {Task("specialist_contribution", "operational", chosen[i],
               chosen[i] \in Careful, number[i]) : i \in 2..Len(chosen)}

\* buildDelegationDecisions
Decisions(chosen) ==
    {[agent |-> chosen[i], role |-> IF i = 1 THEN "lead" ELSE "contributor"] :
     i \in DOMAIN chosen}

\* createRunFromRequest
Create(chosen) ==
    /\ runs' = runs + 1
    /\ \E number \in SelectionsOf(DOMAIN chosen) :
        Len(number) = Len(chosen) /\ tasks' = Tasks(chosen, number)
    /\ decisions' = Decisions(chosen)
    /\ executed' = <<>>

\* Mutant of Rank: a contribution is ranked by its kind.
RankUnnamed(task) ==
    CASE task.name = "analyze_request" -> 0
      [] task.name = "execute_planned_work" -> 1
      [] task.kind = "cleanup" -> 4
      [] OTHER -> 5

\* rankExecutionTask
Rank(task) ==
    CASE task.name = "analyze_request" -> 0
      [] task.name = "execute_planned_work" -> 1
      [] task.name = "specialist_contribution" -> 2
      [] task.kind = "cleanup" -> 4
      [] OTHER -> 5

\* By rank, then name, then id.
Before(t, u) ==
    \/ Rank(t) < Rank(u)
    \/ Rank(t) = Rank(u) /\ t.label < u.label
    \/ Rank(t) = Rank(u) /\ t.label = u.label /\ t.id < u.id

\* What sortExecutionTasks puts first.
First(some) == CHOOSE t \in some : \A u \in some \ {t} : Before(t, u)

CreateRun ==
    /\ runs = 0
    /\ Create(selection)
    /\ UNCHANGED <<selection, first, risky, catalog>>

\* executeRun takes the first task that is not done.
ExecuteNext ==
    LET queued == tasks \ ToSet(executed) IN
    /\ queued # {}
    /\ executed' = Append(executed, First(queued))
    /\ UNCHANGED <<selection, first, risky, catalog, tasks, decisions, runs>>

CatalogLoses ==
    /\ \E entry \in catalog : catalog' = catalog \ {entry}
    /\ UNCHANGED <<selection, first, risky, tasks, decisions, executed, runs>>

\* buildRerunSpecialistSelection: whom the tasks are assigned to and who is in
\* the catalog still, each once, where the sorted tasks first tell of them.
SelectionForRerun ==
    LET Mention(agent) == First({t \in tasks : t.agent = agent})
    IN CHOOSE s \in SetToSeqs({t.agent : t \in tasks} \cap catalog) :
        \A i, j \in DOMAIN s : i < j => Before(Mention(s[i]), Mention(s[j]))

\* The run has ended, with all its tasks executed or without.
Rerun ==
    /\ runs \in 1..(MaxRuns - 1)
    /\ selection' = SelectionForRerun
    /\ Create(SelectionForRerun)
    /\ UNCHANGED <<first, risky, catalog>>

Next == CreateRun \/ ExecuteNext \/ CatalogLoses \/ Rerun

Spec == Init /\ [][Next]_vars

---------------------------------------------------------------------------
(***************************************************************************)
(* Whatever names and ids the tasks have: the lead analyses before anybody *)
(* works, nothing comes after the summary, every specialist of the         *)
(* decisions has had a part by then, and none that requires approval       *)
(* worked without.  A rerun keeps the specialists that are still in the    *)
(* catalog, and the lead if it is among them (core index.ts:1049-1165).    *)
(***************************************************************************)
PlanKept ==
    /\ \A i \in DOMAIN executed :
         /\ executed[i].name = "analyze_request" <=> i = 1
         /\ executed[i].name = "summarize_outcome" =>
              /\ i = Cardinality(tasks)
              /\ {d.agent : d \in decisions} =
                    {executed[j].agent : j \in 1..i} \ {None}
         /\ i > 1 /\ executed[i].agent \in Careful => executed[i].approval
    /\ Cardinality({d \in decisions : d.role = "lead"}) <= 1
    /\ ToSet(selection) \subseteq ToSet(first)
    /\ catalog \cap ToSet(first) \subseteq ToSet(selection)
    /\ first # <<>> /\ first[1] \in catalog => selection[1] = first[1]

=============================================================================
