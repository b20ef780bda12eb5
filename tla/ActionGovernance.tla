------------------------- MODULE ActionGovernance -------------------------
(***************************************************************************)
(* Governed actions of commons-crew: proposing a tool call, binding it to  *)
(* an approval, executing it, and what the tool delegate_to_child does:    *)
(* it spawns a child run one layer down, which may delegate again.         *)
(*                                                                         *)
(* createProposal and execute are chains of awaited store accesses; a      *)
(* thread in between holds what it has read (busy).  Each run has one task *)
(* here, the one actions are proposed for, so a run stands for the pair    *)
(* run and task by which the code looks approvals up.  An action's target  *)
(* is left out, an approval has one only from the proposal it is bound to; *)
(* so is the work item, every client names that of the run, and the copy   *)
(* an action keeps of its approval's status, which no handler reads.       *)
(***************************************************************************)
EXTENDS Naturals, Sequences, FiniteSets

CONSTANTS
  Roots,         \* the layer of each run there is at first: "chair", for one
                 \* that is registered, or "none", for an ordinary run
  Tools,         \* the tools proposed in this instance
  OrgTiers,      \* the tiers operators set in this instance
  Keys,          \* the idempotency keys clients use
  Procs,         \* the processes sharing the store
  Threads,       \* the requests in flight, at most
  Home,          \* the process of a thread
  Store,         \* "json" or "postgres": the order approvals are listed in
  Cap,           \* AUTOPILOT_MAX_AUTO_APPROVED_DELEGATIONS_PER_ORG
  Env,           \* what the surroundings may do, see EnvEvents
  MaxProposals,  \* bound: proposals ever made
  MaxApprovals,  \* bound: approvals ever written
  MaxRuns,       \* bound: runs, the roots included
  MaxCrashes     \* bound: crashes

EnvEvents ==
  { "set_tier",              \* setOrgAutonomyTier
    "decide", "redecide",    \* approvals.decide, the second on a decided one
    "request",               \* requestDelegationApproval
    "lapse",                 \* an approval outlives its expiresAt
    "tool_error",            \* something fails before a tool had its effect
    "late_error",            \* something fails after it had its effect
    "crash" }

AllTools == { "read_file", "write_file", "deploy",
              "delegate_to_child", "propose_spec_correction" }
Tiers    == { "advisor", "orchestrator", "autopilot" }
Layers   == { "none", "chair", "director", "department", "worker" }
ApprovalStatus == { "pending", "approved", "denied", "expired" }
ProposalStatus == { "proposed", "executing", "completed", "failed" }

ASSUME RootsAssumption  == Roots \in Seq({"chair", "none"}) /\ Len(Roots) <= MaxApprovals
ASSUME ToolsAssumption  == Tools \subseteq AllTools
ASSUME TiersAssumption  == OrgTiers \subseteq Tiers
ASSUME ThreadsAssumption == Home \in [Threads -> Procs]
ASSUME StoreAssumption  == Store \in {"json", "postgres"}
ASSUME EnvAssumption    == Env \subseteq EnvEvents
ASSUME BoundsAssumption ==
  {Cap, MaxProposals, MaxApprovals, MaxRuns, MaxCrashes} \subseteq Nat

VARIABLES
  runs,       \* of each run: layer, its parent (0: none), whether in the org
  tier,       \* the org's OrgAutonomyProfileRecord.tier
  approvals,  \* the ApprovalRecords, in the order they were written
  proposals,  \* the ActionProposalRecords, in the order they were written
  granted,    \* history: <<a, p>> when a was approved while bound to p (0: to none)
  bound,      \* history: <<a, p>> when a was ever bound to p
  effects,    \* history: what had an effect, and under which approval (0: none)
  busy,       \* what each thread is doing
  crashes     \* how often a process crashed

\* History, read by no action: what two handlers held at a time that had read it
\* and were still to write.
VARIABLES
  racedActions,   \* by execute
  racedApprovals, \* by createProposal, to bind them
  racedKeys       \* by createProposal: <<r, key>> of a run

raced == <<racedActions, racedApprovals, racedKeys>>
store == <<runs, tier, approvals, proposals, granted, bound, effects>>
vars  == <<store, busy, crashes, raced>>

---------------------------------------------------------------------------
(* Policies *)

\* ACTION_TOOL_POLICIES; search_artifacts and inspect_workspace are like
\* read_file, edit_file is like write_file.
ClassC(tool)        == tool \in { "deploy", "delegate_to_child" }
NeedsApproval(tool) == ClassC(tool) \/ tool = "propose_spec_correction"

\* nextLayerDown
Below == [ chair |-> "director", director |-> "department",
           department |-> "worker", worker |-> "none" ]

\* A run that is in no chain of delegations delegates like a chair.
LayerOf(r) == IF runs[r].layer = "none" THEN "chair" ELSE runs[r].layer

Delegated == { r \in DOMAIN runs : runs[r].parent # 0 /\ runs[r].org }

\* computeDelegationRequiresApproval
DelegationNeedsApproval(r) ==
  \/ tier = "advisor"
  \/ Cardinality(Delegated) >= Cap
  \/ tier = "orchestrator" /\ Below[LayerOf(r)] \in { "worker", "none" }

\* effectiveRequiresApproval
Gated(r, tool) ==
  IF tool = "delegate_to_child" /\ runs[r].org THEN DelegationNeedsApproval(r)
                                               ELSE NeedsApproval(tool)

---------------------------------------------------------------------------
(* Approvals *)

ApprovalsOf(r) == { a \in DOMAIN approvals : approvals[a].run = r }

\* The JSON store lists what was written last first, the Postgres store lists
\* by random ids: a new approval gets the rank it will be listed at.
NewRanks ==
  IF Store = "json" THEN { MaxApprovals - Len(approvals) }
  ELSE (1..MaxApprovals) \ { approvals[a].rank : a \in DOMAIN approvals }

\* approvals.find: what is listed first, 0 when there is none.
Found(r, a) ==
  IF ApprovalsOf(r) = {} THEN a = 0
  ELSE /\ a \in ApprovalsOf(r)
       /\ \A b \in ApprovalsOf(r) : approvals[a].rank <= approvals[b].rank

Pending(r, p, life, rank) ==
  [ run |-> r, status |-> "pending", for |-> p, life |-> life, rank |-> rank ]

Room == Len(approvals) < MaxApprovals

---------------------------------------------------------------------------
(* Threads *)

Idle == [ at |-> "idle" ]
At(th, at)    == busy[th].at = at
Does(th, job) == busy' = [busy EXCEPT ![th] = job]

\* What execute holds: the action, and the approval it was checked under.
Holding(at, p, a) == [ at |-> at, proposal |-> p, under |-> a ]
On(th)            == busy[th].proposal
Under(th)         == busy[th].under

---------------------------------------------------------------------------
(* actions.createProposal *)

\* Variant: only an action that has been begun counts as a duplicate.
LiveBegun(p) == proposals[p].status = "executing"

Live(p) == proposals[p].status \in { "proposed", "executing" }

Proposal(r, tool, key, gated, a) ==
  [ run |-> r, tool |-> tool, key |-> key, gated |-> gated,
    required |-> gated, approval |-> a, status |-> "proposed" ]

\* Variant: whatever an approval is bound to, it can be bound again.
BindableAnyway(a) == TRUE

\* An approval that is bound to another proposal is refused.
Bindable(a) == a # 0 => approvals[a].for = 0

Drafting  == { u \in Threads : At(u, "propose") }
KeyOf(pr) == << pr.run, pr.key >>

\* The read, and everything createProposal checks on it.  A refusal changes
\* nothing but the evidence of a collision.
Propose(th) ==
  /\ At(th, "idle") /\ Len(proposals) < MaxProposals
  /\ \E r \in DOMAIN runs, tool \in Tools, key \in Keys, a \in 0..Len(approvals) :
       LET gated == Gated(r, tool)
       IN /\ IF gated /\ tool # "propose_spec_correction" THEN Found(r, a) ELSE a = 0
          /\ gated => \A b \in ApprovalsOf(r) : approvals[b].status # "denied"
          /\ Bindable(a)
          /\ \A p \in DOMAIN proposals :
               Live(p) => proposals[p].run # r \/ proposals[p].key # key
          /\ Does(th, [ at |-> "propose", draft |-> Proposal(r, tool, key, gated, a) ])
          /\ racedApprovals' = racedApprovals \cup
               { b \in {a} \ {0} : \E u \in Drafting : busy[u].draft.approval = b }
          /\ racedKeys' = racedKeys \cup
               { k \in {<<r, key>>} : \E u \in Drafting : KeyOf(busy[u].draft) = k }
  /\ UNCHANGED <<store, crashes, racedActions>>

\* Binding sets the expiry as well, half an hour from now, if there is none.
Bind(approval, p) ==
  [approval EXCEPT !.for = p,
                   !.life = IF @ = "open" THEN "running" ELSE @]

\* The write: the proposal, and its binding, which is not looked at again.  A
\* spec correction brings an approval of its own.
ProposeWrite(th) ==
  /\ At(th, "propose")
  /\ LET draft == busy[th].draft
         p     == Len(proposals) + 1
     IN \/ /\ draft.gated /\ draft.tool = "propose_spec_correction"
           /\ Room
           /\ \E rank \in NewRanks :
                approvals' = Append(approvals, Pending(draft.run, p, "running", rank))
           /\ proposals' = Append(proposals, [draft EXCEPT !.approval = Len(approvals) + 1])
           /\ bound' = bound \cup { <<Len(approvals) + 1, p>> }
        \/ /\ draft.approval # 0
           /\ approvals' = [approvals EXCEPT ![draft.approval] = Bind(@, p)]
           /\ proposals' = Append(proposals, draft)
           /\ bound' = bound \cup { <<draft.approval, p>> }
        \/ /\ draft.approval = 0
           /\ ~(draft.gated /\ draft.tool = "propose_spec_correction")
           /\ proposals' = Append(proposals, draft)
           /\ UNCHANGED <<approvals, bound>>
  /\ Does(th, Idle)
  /\ UNCHANGED <<runs, tier, granted, effects, crashes, raced>>

---------------------------------------------------------------------------
(* actions.execute *)

\* Variant: an action that was completed is not looked up.
RunnableAgain(p) == proposals[p].status # "executing"

\* Variant: an action being executed is not refused.
RunnableTwice(p) == proposals[p].status # "completed"

\* A completed action has its execution returned, one in progress is refused.
Runnable(p) == proposals[p].status \notin { "completed", "executing" }

Approved(p) ==
  LET a == proposals[p].approval IN
    a # 0 /\ approvals[a].status = "approved" /\ approvals[a].for = p

\* Variant: the gate is that of the class, not of the proposal.
ClassChecked(p) ==
  \/ ~ClassC(proposals[p].tool)
  \/ Approved(p) /\ approvals[proposals[p].approval].life # "over"

\* The approval gate of execute, passed.
Checked(p) ==
  \/ ~proposals[p].required
  \/ Approved(p) /\ approvals[proposals[p].approval].life # "over"

\* The read, passed.
Execute(th) ==
  /\ At(th, "idle")
  /\ \E p \in DOMAIN proposals :
       /\ Runnable(p) /\ Checked(p)
       /\ Does(th, Holding("prechecks", p,
                           IF proposals[p].required THEN proposals[p].approval ELSE 0))
       /\ racedActions' = racedActions \cup
            { q \in {p} : \E u \in Threads : At(u, "prechecks") /\ On(u) = q }
  /\ UNCHANGED <<store, crashes, racedApprovals, racedKeys>>

\* The read finds the approval too old.
ExecuteTooLate(th) ==
  /\ At(th, "idle")
  /\ \E p \in DOMAIN proposals :
       /\ Runnable(p) /\ proposals[p].required
       /\ Approved(p) /\ approvals[proposals[p].approval].life = "over"
       /\ Does(th, Holding("expire", p, proposals[p].approval))
  /\ UNCHANGED <<store, crashes, raced>>

ExpireWrite(th) ==
  /\ At(th, "expire")
  /\ approvals' = [approvals EXCEPT ![Under(th)].status = "expired"]
  /\ Does(th, Idle)
  /\ UNCHANGED <<runs, tier, proposals, granted, bound, effects, crashes, raced>>

\* proposalApproval, the binding that execute rebuilds: required for class_c
\* whether it was or not, and for nothing else.
Rebound(proposal, status) ==
  [proposal EXCEPT !.status = status,
                   !.required = ClassC(proposal.tool),
                   !.approval = IF ClassC(proposal.tool) THEN @ ELSE 0]

\* The event before the checks cannot be written: execute is rejected.
PrecheckFails(th) ==
  /\ "tool_error" \in Env
  /\ At(th, "prechecks")
  /\ Does(th, Idle)
  /\ UNCHANGED <<store, crashes, raced>>

\* The write of executing, whatever the status is by now.
BeginTool(th) ==
  /\ At(th, "prechecks")
  /\ proposals' = [proposals EXCEPT ![On(th)] = Rebound(@, "executing")]
  /\ Does(th, [busy[th] EXCEPT !.at = "tool"])
  /\ UNCHANGED <<runs, tier, approvals, granted, bound, effects, crashes, raced>>

Effect(th) ==
  /\ effects' = effects \cup { [proposal |-> On(th), under |-> Under(th)] }
  /\ Does(th, [busy[th] EXCEPT !.at = "record"])

\* A tool of the executor, or a spec correction, had its effect.
ToolDone(th) ==
  /\ At(th, "tool")
  /\ proposals[On(th)].tool # "delegate_to_child"
  /\ Effect(th)
  /\ UNCHANGED <<runs, tier, approvals, proposals, granted, bound, crashes, raced>>

\* executeDelegateToChild: the child run is written, with an approval pending
\* for its own delegations unless it is a worker.
ChildSpawned(th) ==
  /\ At(th, "tool")
  /\ proposals[On(th)].tool = "delegate_to_child"
  /\ LET r     == proposals[On(th)].run
         layer == Below[LayerOf(r)]
     IN /\ layer # "none" /\ Len(runs) < MaxRuns
        /\ runs' = Append(runs, [layer |-> layer, parent |-> r, org |-> runs[r].org])
        /\ IF layer = "worker" THEN UNCHANGED approvals
           ELSE /\ Room
                /\ \E rank \in NewRanks :
                     approvals' = Append(approvals, Pending(Len(runs) + 1, 0, "open", rank))
  /\ Effect(th)
  /\ UNCHANGED <<tier, proposals, granted, bound, crashes, raced>>

\* The tool fails; a worker's delegation always does.
ToolFails(th) ==
  /\ At(th, "tool")
  /\ \/ "tool_error" \in Env
     \/ /\ proposals[On(th)].tool = "delegate_to_child"
        /\ Below[LayerOf(proposals[On(th)].run)] = "none"
  /\ proposals' = [proposals EXCEPT ![On(th)].status = "failed"]
  /\ Does(th, Idle)
  /\ UNCHANGED <<runs, tier, approvals, granted, bound, effects, crashes, raced>>

\* Variant: an error after the effect is not caught.
EvidenceLost(th) ==
  /\ "late_error" \in Env
  /\ At(th, "record")
  /\ Does(th, Idle)
  /\ UNCHANGED <<store, crashes, raced>>

\* A piece of evidence cannot be written after the effect, or an event after
\* the outcome: either way the action is written as failed.
EvidenceFails(th) ==
  /\ "late_error" \in Env
  /\ At(th, "record") \/ At(th, "event")
  /\ proposals' = [proposals EXCEPT ![On(th)].status = "failed"]
  /\ Does(th, Idle)
  /\ UNCHANGED <<runs, tier, approvals, granted, bound, effects, crashes, raced>>

\* The write of the outcome, with the binding execute has built.
Completed(th) ==
  /\ At(th, "record")
  /\ proposals' = [proposals EXCEPT ![On(th)] = Rebound(@, "completed")]
  /\ Does(th, [busy[th] EXCEPT !.at = "event"])
  /\ UNCHANGED <<runs, tier, approvals, granted, bound, effects, crashes, raced>>

\* The event of the execution is written.
Returned(th) ==
  /\ At(th, "event")
  /\ Does(th, Idle)
  /\ UNCHANGED <<store, crashes, raced>>

---------------------------------------------------------------------------
(* Decisions, requests for approvals, tiers *)

\* approvals.decide, its one write; what it then does to the run does not
\* matter here, no action looks at the status of its run.
Decide ==
  /\ \E a \in DOMAIN approvals, verdict \in { "approved", "denied" } :
       /\ IF approvals[a].status = "pending" THEN "decide" \in Env ELSE "redecide" \in Env
       /\ approvals' = [approvals EXCEPT ![a].status = verdict]
       /\ granted' = IF verdict = "approved" THEN granted \cup { <<a, approvals[a].for>> }
                                             ELSE granted
  /\ UNCHANGED <<runs, tier, proposals, bound, effects, busy, crashes, raced>>

\* requestDelegationApproval; a pending approval, whatever it is for, is
\* returned instead.
Request(th) ==
  /\ "request" \in Env
  /\ At(th, "idle")
  /\ \E r \in DOMAIN runs :
       /\ runs[r].layer \notin { "none", "worker" }
       /\ \A a \in ApprovalsOf(r) : approvals[a].status # "pending"
       /\ Does(th, [ at |-> "request", run |-> r ])
  /\ UNCHANGED <<store, crashes, raced>>

RequestWrite(th) ==
  /\ At(th, "request") /\ Room
  /\ \E rank \in NewRanks :
       approvals' = Append(approvals, Pending(busy[th].run, 0, "open", rank))
  /\ Does(th, Idle)
  /\ UNCHANGED <<runs, tier, proposals, granted, bound, effects, crashes, raced>>

\* setOrgAutonomyTier
SetTier ==
  /\ "set_tier" \in Env
  /\ tier' \in OrgTiers \ {tier}
  /\ UNCHANGED <<runs, approvals, proposals, granted, bound, effects, busy, crashes, raced>>

\* Half an hour goes by.
Lapse ==
  /\ "lapse" \in Env
  /\ \E a \in DOMAIN approvals :
       /\ approvals[a].life = "running"
       /\ approvals' = [approvals EXCEPT ![a].life = "over"]
  /\ UNCHANGED <<runs, tier, proposals, granted, bound, effects, busy, crashes, raced>>

\* A process dies and is started again; nothing of this is recovered.
Crash(proc) ==
  /\ "crash" \in Env /\ crashes < MaxCrashes
  /\ busy' = [th \in Threads |-> IF Home[th] = proc THEN Idle ELSE busy[th]]
  /\ crashes' = crashes + 1
  /\ UNCHANGED <<store, raced>>

---------------------------------------------------------------------------
(* The specification *)

\* A registered chair, or a task held at its gate, has one pending approval.
Init ==
  /\ runs = [r \in DOMAIN Roots |->
               [layer |-> Roots[r], parent |-> 0, org |-> Roots[r] = "chair"]]
  /\ tier = "advisor"
  /\ approvals = [r \in DOMAIN Roots |-> Pending(r, 0, "open", (MaxApprovals - r) + 1)]
  /\ proposals = <<>>
  /\ granted = {}
  /\ bound = {}
  /\ effects = {}
  /\ busy = [th \in Threads |-> Idle]
  /\ crashes = 0
  /\ racedActions = {} /\ racedApprovals = {} /\ racedKeys = {}

ProposeStep(th) == Propose(th) \/ ProposeWrite(th)
ExecuteStep(th) ==
  \/ Execute(th) \/ ExecuteTooLate(th) \/ ExpireWrite(th)
  \/ PrecheckFails(th) \/ BeginTool(th)
  \/ ToolDone(th) \/ ChildSpawned(th) \/ ToolFails(th)
  \/ EvidenceFails(th) \/ Completed(th) \/ Returned(th)
RequestStep(th) == Request(th) \/ RequestWrite(th)

Next ==
  \/ \E th \in Threads : ProposeStep(th) \/ ExecuteStep(th) \/ RequestStep(th)
  \/ Decide \/ SetTier \/ Lapse
  \/ \E proc \in Procs : Crash(proc)

Spec == Init /\ [][Next]_vars

---------------------------------------------------------------------------
(* Properties *)

Runs      == [ layer : Layers, parent : Nat, org : BOOLEAN ]
Approvals == [ run : Nat, status : ApprovalStatus, for : Nat,
               life : { "open", "running", "over" }, rank : Nat ]
Proposals == [ run : Nat, tool : AllTools, key : Keys, gated : BOOLEAN,
               required : BOOLEAN, approval : Nat, status : ProposalStatus ]
Jobs == {Idle}
        \cup [ at : {"propose"}, draft : Proposals ]
        \cup [ at : {"expire", "prechecks", "tool", "record", "event"},
               proposal : Nat, under : Nat ]
        \cup [ at : {"request"}, run : Nat ]

\* The shape of the stored records, references to records that exist, and of
\* what threads hold; an approval has an expiry if and only if it is bound.
\* (What raced is kept by the step that makes it so and is no record.)
TypeOK ==
  /\ runs \in Seq(Runs) /\ tier \in Tiers
  /\ approvals \in Seq(Approvals)
  /\ proposals \in Seq(Proposals)
  /\ granted \subseteq Nat \X Nat /\ bound \subseteq Nat \X Nat
  /\ effects \subseteq [ proposal : Nat, under : Nat ]
  /\ busy \in [Threads -> Jobs]
  /\ crashes \in Nat
  /\ \A p \in DOMAIN proposals :
       proposals[p].run \in DOMAIN runs /\ proposals[p].approval <= Len(approvals)
  /\ \A a \in DOMAIN approvals :
       /\ approvals[a].run \in DOMAIN runs /\ approvals[a].for <= Len(proposals)
       /\ approvals[a].for # 0 <=> approvals[a].life # "open"

\* Somebody approved an approval that this action was bound to: for a spec
\* correction, while it was bound to it; for other tools possibly before.
Authorised(p) ==
  \E a \in 1..Len(approvals) :
    /\ <<a, p>> \in bound
    /\ IF proposals[p].tool = "propose_spec_correction"
       THEN <<a, p>> \in granted
       ELSE \E q \in 0..Len(proposals) : <<a, q>> \in granted

\* No action that needed an approval when it was proposed has an effect
\* before an approval it was bound to had been given, however often it is
\* executed again, and whatever is decided, bound or expires in between.
ActsAuthorised ==
  \A e \in effects : proposals[e.proposal].gated => Authorised(e.proposal)

\* One approval covers one action, however requests interleave: it takes two
\* createProposal that both read it unbound before either wrote to have two
\* actions act under it.
OneActPerApproval ==
  \A d, e \in effects :
    /\ d.under = e.under
    /\ d.under \notin racedApprovals \cup {0}
    => d.proposal = e.proposal

\* An action is executed by one request at a time, unless two execute calls
\* both read it before either wrote that it is executing: nothing else, not a
\* failure, an expiry or a crash in between, lets a second one through.
Executing(th) == busy[th].at \in { "tool", "record" }
OneExecution ==
  \A th, u \in Threads :
    Executing(th) /\ Executing(u) /\ On(th) = On(u)
      => th = u \/ On(th) \in racedActions

\* What is stored as executing is being executed, until a process crashes.
ExecutingIsDriven ==
  crashes = 0 =>
    \A p \in DOMAIN proposals :
      proposals[p].status = "executing"
        => \E th \in Threads : Executing(th) /\ On(th) = p

\* A completed action is not begun again: execute returns what there is, but
\* for a second call that had read the action before the first one wrote.
CompletedNotBegun ==
  [][\A p \in DOMAIN proposals \ racedActions :
       proposals[p].status = "completed" => proposals'[p].status # "executing"]_vars

\* A run never has two actions with one idempotency key that wait to be
\* executed, unless two createProposal looked for the key before either wrote.
\* (A failed action frees its key and can still be executed again, so two that
\* are live may share one.)
OneWaitsPerKey ==
  \A p, q \in DOMAIN proposals :
    /\ proposals[p].status = "proposed" /\ proposals[q].status = "proposed"
    /\ KeyOf(proposals[p]) = KeyOf(proposals[q])
    /\ KeyOf(proposals[p]) \notin racedKeys
    => p = q

\* What spawned a child without needing an approval.
AutoSpawned == { e \in effects : /\ proposals[e.proposal].tool = "delegate_to_child"
                                 /\ ~proposals[e.proposal].gated }

\* The backstop against runaway spawning: no more than Cap children of an org
\* are spawned without an approval.
CapHeld == Cardinality(AutoSpawned) <= Cap

\* An approval written last for a run, and not bound yet, is what a proposal
\* for the run finds: a chair that asked for a fresh one can delegate again.
Latest(r, a)  == a \in ApprovalsOf(r) /\ \A b \in ApprovalsOf(r) : b <= a
FreshIsFound ==
  \A r \in DOMAIN runs, a, b \in DOMAIN approvals :
    Latest(r, a) /\ approvals[a].for = 0 /\ Found(r, b) => approvals[b].for = 0
============================================================================
