--------------------------- MODULE SpecCorrection ---------------------------
(***************************************************************************)
(* The tool propose_spec_correction: a correction of a catalog entry       *)
(* becomes a pull request against labor-commons, prepared in a worktree of *)
(* its own beside the checkout that catalog reads use                      *)
(* (labor-commons-correction.ts, executeProposeSpecCorrection).            *)
(*                                                                         *)
(* The calls are the executions of two actions; a failed action may be     *)
(* executed again, every time with a new worktree and a new branch.        *)
(***************************************************************************)
EXTENDS Naturals, FiniteSets

CONSTANTS Actions,   \* the actions that propose a correction
          Sound,     \* the actions whose entry and field are in origin/main
          MaxCalls,  \* bound: executions of an action
          MayCrash   \* whether crew-api may go down

VARIABLES call,      \* the execution of each action
          worktrees, \* the worktree directories on disk
          local,     \* the branches in the checkout: what is committed there
          remote,    \* the branches of labor-commons that were pushed
          pulls,     \* the pull requests, by their branch
          crashed    \* history: the calls a crash cut off

vars == <<call, worktrees, local, remote, pulls, crashed>>

Init ==
    /\ call = [a \in Actions |-> [pc |-> "idle", n |-> 0]]
    /\ worktrees = {} /\ local = {} /\ remote = {} /\ pulls = {}
    /\ crashed = {}

\* The worktree and the branch of a call have fresh random names.
Name(a) == <<a, call[a].n>>

GoTo(a, pc) == call' = [call EXCEPT ![a].pc = pc]
At(a, pc) == call[a].pc = pc

Execute(a) ==
    /\ call[a].pc \in {"idle", "failed"}
    /\ call[a].n < MaxCalls
    /\ call' = [call EXCEPT ![a] = [pc |-> "fetch", n |-> @.n + 1]]
    /\ UNCHANGED <<worktrees, local, remote, pulls, crashed>>

\* No token: the result says so, and nothing is touched.
Unavailable(a) ==
    /\ At(a, "fetch")
    /\ GoTo(a, "completed")
    /\ UNCHANGED <<worktrees, local, remote, pulls, crashed>>

Fetch(a) ==
    /\ At(a, "fetch")
    /\ GoTo(a, "add")
    /\ UNCHANGED <<worktrees, local, remote, pulls, crashed>>

AddWorktree(a) ==
    /\ At(a, "add")
    /\ worktrees' = worktrees \cup {Name(a)}
    /\ local' = local \cup {[name |-> Name(a), corrected |-> FALSE]}
    /\ GoTo(a, "edit")
    /\ UNCHANGED <<remote, pulls, crashed>>

\* The entry is read, corrected, written, added and committed.
Commit(a) ==
    /\ At(a, "edit")
    /\ a \in Sound
    /\ local' = {b \in local : b.name # Name(a)} \cup
                    {[name |-> Name(a), corrected |-> TRUE]}
    /\ GoTo(a, "push")
    /\ UNCHANGED <<worktrees, remote, pulls, crashed>>

\* Mutant of Push: the pull request is asked for, then the branch is pushed.
OpenUnpushed(a) ==
    /\ At(a, "push")
    /\ pulls' = pulls \cup {Name(a)}
    /\ GoTo(a, "open")
    /\ UNCHANGED <<worktrees, local, remote, crashed>>

Push(a) ==
    /\ At(a, "push")
    /\ remote' = remote \cup {b \in local : b.name = Name(a)}
    /\ GoTo(a, "open")
    /\ UNCHANGED <<worktrees, local, pulls, crashed>>

\* The answer to the request may be lost, or have no html_url.
OpenPull(a) ==
    /\ At(a, "open")
    /\ pulls' = pulls \cup {Name(a)}
    /\ \E end \in {"opened", "error"} : GoTo(a, end)
    /\ UNCHANGED <<worktrees, local, remote, crashed>>

Fails(a) ==
    /\ call[a].pc \in {"fetch", "add", "edit", "push", "open"}
    /\ GoTo(a, "error")
    /\ UNCHANGED <<worktrees, local, remote, pulls, crashed>>

\* Mutant of Cleanup: an error goes past it.
CleanupOnSuccess(a) ==
    \/ /\ At(a, "opened")
       /\ worktrees' = worktrees \ {Name(a)}
       /\ GoTo(a, "completed")
       /\ UNCHANGED <<local, remote, pulls, crashed>>
    \/ /\ At(a, "error")
       /\ GoTo(a, "failed")
       /\ UNCHANGED <<worktrees, local, remote, pulls, crashed>>

\* The finally block: git worktree remove, or else rm. The branch stays.
Cleanup(a) ==
    /\ call[a].pc \in {"opened", "error"}
    /\ worktrees' = worktrees \ {Name(a)}
    /\ GoTo(a, IF At(a, "opened") THEN "completed" ELSE "failed")
    /\ UNCHANGED <<local, remote, pulls, crashed>>

\* The action stays executing, and is not executed again.
Over == {"idle", "completed", "failed", "cut"}
Crash ==
    /\ MayCrash
    /\ \E a \in Actions : call[a].pc \notin Over
    /\ crashed' = crashed \cup {Name(a) : a \in {b \in Actions : call[b].pc \notin Over}}
    /\ call' = [a \in Actions |-> IF call[a].pc \in Over THEN call[a]
                                  ELSE [call[a] EXCEPT !.pc = "cut"]]
    /\ UNCHANGED <<worktrees, local, remote, pulls>>

Next ==
    \/ \E a \in Actions :
         \/ Execute(a) \/ Unavailable(a) \/ Fetch(a) \/ AddWorktree(a)
         \/ Commit(a) \/ Push(a) \/ OpenPull(a) \/ Fails(a) \/ Cleanup(a)
    \/ Crash

Spec == Init /\ [][Next]_vars

---------------------------------------------------------------------------
(***************************************************************************)
(* Whichever step of which call fails: a pull request that anybody can see *)
(* is of a pushed branch that holds the correction; a call under way has   *)
(* its worktree; and only a crash leaves one behind                        *)
(* (labor-commons-correction.ts:82-196).                                   *)
(***************************************************************************)
CorrectionsWhole ==
    /\ \A name \in pulls : [name |-> name, corrected |-> TRUE] \in remote
    /\ \A t \in worktrees \ crashed :
         \E a \in Actions : t = Name(a) /\ call[a].pc \notin Over
    /\ \A a \in Actions : call[a].pc \in {"edit", "push", "open"} =>
         Name(a) \in worktrees

=============================================================================
