------------------------------ MODULE Services ------------------------------
(***************************************************************************)
(* The services around a run: its incidents, its event stream, the         *)
(* materialization of its specialists, the catalog, the people of the      *)
(* workspace, the release gate and the plan of the tasks.  They share no   *)
(* state; here each gets its variables.                                    *)
(***************************************************************************)
EXTENDS Naturals, FiniteSets

CONSTANTS None,
          Updates, MayReopen, MaxIncidents, MaxChanges, MaxMoves, \* Incidents
          Local, Remote, MaxConnects,                          \* EventStream
          MaxChecks,                                           \* Materialization
          Handlers, Entries, MaxVersion, MaxSyncs,             \* CatalogSync
          Requests, Users, Names, MaxCalls,                    \* Workspace
          Procs, Versions, Thresholds, Measured, MaxEvals,     \* ReleaseGate
          Specialists, Label, Careful, MaxRuns                 \* TaskPlan

\* The signature of prompts is a hash, never null.
ASSUME SignatureAssumption == None \notin Versions

\* Requests and the boot are different callers of ensureCatalogCheckout.
ASSUME CallersAssumption == "boot" \notin Handlers /\ None \notin Handlers \cup {"boot"}

\* An absent code or answer is none of those there are.
ASSUME CodesAssumption ==
    None \notin {"invalid_manifest", "self_check_failed", "materialization_io_error", "error"}

\* Labels stand for names, in the order of these.
ASSUME SpecialistsAssumption ==
    /\ IsFiniteSet(Specialists) /\ None \notin Specialists
    /\ Careful \subseteq Specialists
    /\ Label \in [Specialists -> Nat]

VARIABLES status, incidents, caller, notices, down, changes, moves,
          lone, single, touched, cut, had, missed,
          stored, unsent, client, since, got, connects,
          at, m, checks, disk, record, loaded,
          main, origin, tree, head, lock, up, call, memory, queue, catStored, pinned,
          clock, failed,
          users, memberships, listed, mode, threads, messages, wsCall, calls, revoked,
          files, signature, pending, specs, proc, eval, evals, evidence, top, booted,
          selection, first, risky, catalog, tasks, decisions, executed, runs

Inc == INSTANCE Incidents WITH Callers <- Updates

Stream == INSTANCE EventStream

Mat == INSTANCE Materialization

Cat == INSTANCE CatalogSync WITH stored <- catStored, Files <- Entries

Ws == INSTANCE Workspace WITH call <- wsCall

Gate == INSTANCE ReleaseGate

Plan == INSTANCE TaskPlan

\* A run that changed status has the incident that goes with it.
IncidentTellsRun == Inc!IncidentTellsRun

\* A parent hears of every end of its child.
ParentHearsEnds == Inc!ParentHearsEnds

\* A connected client is sent what it read and what its process stored since its
\* listener was there.
StreamComplete == Stream!StreamComplete

\* What the store calls ready can be executed.
ReadyIsWhole == Mat!ReadyIsWhole

\* No content is older than the commit it is recorded under, or pinned to.
CatalogHonest == Cat!CatalogHonest

\* Logins, roles, mode and messages agree.
WorkspaceSound == Ws!WorkspaceSound

\* The gate passes only where everything speaks for it.
GateHonest == Gate!GateHonest

\* The plan is executed in its order, and reruns keep it.
PlanKept == Plan!PlanKept

=============================================================================
