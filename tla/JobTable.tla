----------------------------- MODULE JobTable -----------------------------
(***************************************************************************)
(* What a runner job promises, seen from outside: a single record that     *)
(* moves along RUNNER_JOB_STATUS_TRANSITIONS, is claimed in the name of    *)
(* one runner and started by the same, names nobody while it is queued,    *)
(* and is put back in the queue, other than from blocked or paused, only   *)
(* when a process starts.  An execution blocks or completes the job in the *)
(* name of the runner it found there when it began, and may repeat that.   *)
(***************************************************************************)
CONSTANTS RunnerIds, NoRunner

VARIABLE entry

Waits(e) == e = [status |-> "queued", runner |-> NoRunner]

Init == Waits(entry)

Moves(from, to) == entry.status \in from /\ entry' = [entry EXCEPT !.status = to]

Reports(from, to) ==
  /\ entry.status \in from
  /\ \E r \in RunnerIds \cup {NoRunner} : entry' = [status |-> to, runner |-> r]

Claim(r)  == Waits(entry) /\ entry' = [status |-> "claimed", runner |-> r]
Begin     == Moves({"claimed"}, "running")
Block     == Reports({"running", "blocked"}, "blocked")
Pause     == Moves({"queued", "claimed", "running"}, "paused")
Requeue   == entry.status \in {"blocked", "paused"} /\ Waits(entry')
Complete  == Reports({"running", "completed"}, "completed")
Fail      == Moves({"claimed", "running", "blocked"}, "failed")
Cancel    == Moves({"queued", "claimed", "running", "blocked", "paused"}, "cancelled")

\* restoreActiveRuns
Recover   == entry.status \in {"claimed", "running"} /\ Waits(entry')

Next == \/ \E r \in RunnerIds : Claim(r)
        \/ Begin \/ Block \/ Pause \/ Requeue \/ Complete \/ Fail \/ Cancel
        \/ Recover

Spec == Init /\ [][Next]_entry
============================================================================
