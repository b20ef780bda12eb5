---------------------------- MODULE MC_Services ----------------------------
(***************************************************************************)
(* A behaviour is one of a service, chosen in its first state, and leaves  *)
(* the variables of the others as they are.                                *)
(***************************************************************************)
EXTENDS Services, Naturals, TLC

CONSTANTS s1, s2, s3

\* Nothing measures what the first version demands.
TwoVersions == [v1 |-> {"routing", "approval safety"},
                v2 |-> {"routing", "clarification"}]

\* Two entries have one name.
TwoNames == s1 :> 1 @@ s2 :> 1 @@ s3 :> 2

\* Handlers of one kind are alike, and so are manifests.
Alike == Permutations(Updates) \cup Permutations(Handlers) \cup Permutations(Entries)

VARIABLE part

incVars == <<status, incidents, caller, notices, down, changes, moves,
             lone, single, touched, cut, had, missed>>
streamVars == <<stored, unsent, client, since, got, connects>>
matVars == <<at, m, checks, disk, record, loaded>>
catVars == <<main, origin, tree, head, lock, up, call, memory, queue, catStored, pinned,
             clock, failed>>
wsVars == <<users, memberships, listed, mode, threads, messages, wsCall, calls, revoked>>
gateVars == <<files, signature, pending, specs, proc, eval, evals, evidence, top, booted>>
planVars == <<selection, first, risky, catalog, tasks, decisions, executed, runs>>
mcVars == <<part, incVars, streamVars, matVars, catVars, wsVars, gateVars, planVars>>

McInit ==
    /\ part \in {"incidents", "stream", "materialization", "catalog", "workspace",
                 "gate", "plan"}
    /\ Inc!Init /\ Stream!Init /\ Cat!Init /\ Ws!Init
    /\ Mat!Init /\ (part = "materialization" \/ checks = 0)
    /\ Gate!Init /\ (part = "gate" \/ files = "v1")
    /\ Plan!Init /\ (part = "plan" \/ (selection = <<>> /\ risky = FALSE))

McNext ==
    \/ part = "incidents" /\ Inc!Next
         /\ UNCHANGED <<part, streamVars, matVars, catVars, wsVars, gateVars, planVars>>
    \/ part = "stream" /\ Stream!Next
         /\ UNCHANGED <<part, incVars, matVars, catVars, wsVars, gateVars, planVars>>
    \/ part = "materialization" /\ Mat!Next
         /\ UNCHANGED <<part, incVars, streamVars, catVars, wsVars, gateVars, planVars>>
    \/ part = "catalog" /\ Cat!Next
         /\ UNCHANGED <<part, incVars, streamVars, matVars, wsVars, gateVars, planVars>>
    \/ part = "workspace" /\ Ws!Next
         /\ UNCHANGED <<part, incVars, streamVars, matVars, catVars, gateVars, planVars>>
    \/ part = "gate" /\ Gate!Next
         /\ UNCHANGED <<part, incVars, streamVars, matVars, catVars, wsVars, planVars>>
    \/ part = "plan" /\ Plan!Next
         /\ UNCHANGED <<part, incVars, streamVars, matVars, catVars, wsVars, gateVars>>

McSpec == McInit /\ [][McNext]_mcVars

=============================================================================
