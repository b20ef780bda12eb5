---------------------- MODULE ActionGovernanceProofs ----------------------
(***************************************************************************)
(* What holds of ActionGovernance whatever the runs, tools, threads and    *)
(* processes, whatever the surroundings do, and however the accesses of    *)
(* handlers interleave.                                                    *)
(***************************************************************************)
EXTENDS ActionGovernance, SequenceTheorems, TLAPS

---------------------------------------------------------------------------
(* The inductive invariant *)

SpecCorrection(p) == proposals[p].tool = "propose_spec_correction"
Granted(a) == \E q \in 0..Len(proposals) : <<a, q>> \in granted

\* An approval that is approved was granted, and for the spec correction it is
\* bound to if it is bound to one.
ApprovalInv(a) ==
  /\ approvals[a].for # 0 => <<a, approvals[a].for>> \in bound
  /\ approvals[a].status = "approved" => Granted(a)
  /\ approvals[a].status = "approved" /\ approvals[a].for # 0
       => (SpecCorrection(approvals[a].for) => <<a, approvals[a].for>> \in granted)

\* A gated action loses its required flag only once it is authorised.
ProposalInv(p) == proposals[p].gated => proposals[p].required \/ Authorised(p)

StoreInv ==
  /\ \A a \in DOMAIN approvals : ApprovalInv(a)
  /\ \A p \in DOMAIN proposals : ProposalInv(p)
  /\ \A e \in effects :
       /\ e.proposal \in DOMAIN proposals
       /\ proposals[e.proposal].gated => Authorised(e.proposal)

\* Where execute holds an action that has passed the approval gate.
Begun == {"prechecks", "tool", "record", "event"}

\* What a thread holds still refers to something, and an action it has begun
\* to execute is authorised.
JobOK(job) ==
  /\ job.at = "propose" =>
       /\ job.draft.run \in DOMAIN runs /\ job.draft.approval <= Len(approvals)
       /\ job.draft.required = job.draft.gated
       /\ job.draft.tool = "propose_spec_correction" => job.draft.approval = 0
  /\ job.at = "expire" => job.under \in DOMAIN approvals
  /\ job.at \in Begun =>
       /\ job.proposal \in DOMAIN proposals
       /\ proposals[job.proposal].gated => Authorised(job.proposal)
  /\ job.at = "request" => job.run \in DOMAIN runs

ThreadInv == \A th \in Threads : JobOK(busy[th])

IInv == TypeOK /\ StoreInv /\ ThreadInv

LEMMA Initially == Init => IInv
<1> SUFFICES ASSUME Init PROVE IInv
  OBVIOUS
<1>1. /\ Len(Roots) \in Nat /\ DOMAIN Roots = 1..Len(Roots) /\ Len(Roots) <= MaxApprovals
      /\ \A r \in DOMAIN Roots : Roots[r] \in {"chair", "none"}
      /\ MaxApprovals \in Nat
  BY RootsAssumption, BoundsAssumption, LenProperties, ElementOfSeq
<1>2. runs \in Seq(Runs) /\ DOMAIN runs = DOMAIN Roots
  <2>1. runs = [r \in 1..Len(Roots) |->
                  [layer |-> Roots[r], parent |-> 0, org |-> Roots[r] = "chair"]]
    BY <1>1 DEF Init
  <2>2. \A r \in 1..Len(Roots) :
          [layer |-> Roots[r], parent |-> 0, org |-> Roots[r] = "chair"] \in Runs
    BY <1>1 DEF Runs, Layers
  <2>. QED  BY <1>1, <2>1, <2>2, IsASeq
<1>3. /\ approvals \in Seq(Approvals) /\ DOMAIN approvals = DOMAIN Roots
      /\ \A a \in DOMAIN approvals :
           /\ approvals[a].run = a /\ approvals[a].for = 0
           /\ approvals[a].life = "open" /\ approvals[a].status = "pending"
  <2>1. approvals = [r \in 1..Len(Roots) |-> Pending(r, 0, "open", (MaxApprovals - r) + 1)]
    BY <1>1 DEF Init
  <2>2. \A r \in 1..Len(Roots) :
          Pending(r, 0, "open", (MaxApprovals - r) + 1) \in Approvals
    BY <1>1 DEF Pending, Approvals, ApprovalStatus
  <2>. QED  BY <1>1, <2>1, <2>2, IsASeq DEF Pending
<1>4. proposals \in Seq(Proposals) /\ DOMAIN proposals = {} /\ Len(proposals) = 0
  BY EmptySeq DEF Init
<1>5. TypeOK
  BY <1>2, <1>3, <1>4 DEF Init, TypeOK, Tiers, Jobs
<1>6. StoreInv
  BY <1>3, <1>4 DEF Init, StoreInv, ApprovalInv
<1>7. ThreadInv
  BY DEF Init, ThreadInv, JobOK, Idle, Begun
<1>. QED  BY <1>5, <1>6, <1>7 DEF IInv

---------------------------------------------------------------------------
(* Threads *)

\* What a thread holds at each point.
LEMMA JobShape ==
  ASSUME IInv, NEW th \in Threads
  PROVE  /\ At(th, "propose") =>
              /\ busy[th].draft \in Proposals
              /\ busy[th].draft.run \in DOMAIN runs
              /\ busy[th].draft.approval <= Len(approvals)
              /\ busy[th].draft.required = busy[th].draft.gated
              /\ busy[th].draft.tool = "propose_spec_correction"
                   => busy[th].draft.approval = 0
         /\ At(th, "expire") => Under(th) \in DOMAIN approvals
         /\ busy[th].at \in Begun =>
              /\ On(th) \in DOMAIN proposals /\ Under(th) \in Nat
              /\ busy[th] \in [ at : {"expire"} \cup Begun,
                                proposal : Nat, under : Nat ]
              /\ proposals[On(th)].gated => Authorised(On(th))
         /\ At(th, "request") => busy[th].run \in DOMAIN runs
<1>1. busy[th] \in Jobs /\ JobOK(busy[th])
  BY DEF IInv, TypeOK, ThreadInv
<1>2. At(th, "propose") => busy[th].draft \in Proposals
  BY <1>1 DEF At, Begun, Jobs, Idle
<1>3. busy[th].at \in Begun =>
        busy[th] \in [ at : {"expire"} \cup Begun,
                       proposal : Nat, under : Nat ]
  BY <1>1 DEF At, Begun, Jobs, Idle
<1>. QED  BY <1>1, <1>2, <1>3 DEF JobOK, Begun, At, On, Under

LEMMA IdleFine == Idle \in Jobs /\ JobOK(Idle)
  BY DEF Idle, Jobs, JobOK, Begun

\* A step that reads, and remembers what it read.
LEMMA ReadStep ==
  ASSUME IInv, NEW th \in Threads, NEW job \in Jobs, JobOK(job),
         Does(th, job), UNCHANGED <<store, crashes>>
  PROVE  IInv'
<1>1. TypeOK'
  BY DEF IInv, TypeOK, Does, store
<1>2. StoreInv'
  BY DEF IInv, StoreInv, store, ApprovalInv, ProposalInv, Granted, SpecCorrection, Authorised
<1>3. ThreadInv'
  <2> SUFFICES ASSUME NEW u \in Threads PROVE JobOK(busy[u])'
    BY DEF ThreadInv
  <2>1. busy'[u] = job \/ busy'[u] = busy[u]
    BY DEF Does, IInv, TypeOK
  <2>2. JobOK(busy'[u])
    BY <2>1 DEF IInv, ThreadInv
  <2>. QED  BY <2>2 DEF JobOK, store, Authorised
<1>. QED  BY <1>1, <1>2, <1>3 DEF IInv

---------------------------------------------------------------------------
(* Steps that take nothing away *)

\* Records are added and rewritten, and keep what they are about.
Grows ==
  /\ TypeOK'
  /\ Len(runs) <= Len(runs') /\ Len(approvals) <= Len(approvals')
  /\ granted \subseteq granted' /\ bound \subseteq bound'
  /\ \A p \in DOMAIN proposals :
       /\ p \in DOMAIN proposals'
       /\ proposals'[p].tool = proposals[p].tool
       /\ proposals'[p].gated = proposals[p].gated

LEMMA Lengths ==
  ASSUME IInv, Grows
  PROVE  /\ DOMAIN runs \subseteq DOMAIN runs' /\ DOMAIN approvals \subseteq DOMAIN approvals'
         /\ Len(proposals) <= Len(proposals')
<1>1. /\ Len(runs) \in Nat /\ DOMAIN runs = 1..Len(runs)
      /\ Len(approvals) \in Nat /\ DOMAIN approvals = 1..Len(approvals)
      /\ Len(proposals) \in Nat /\ DOMAIN proposals = 1..Len(proposals)
  BY LenProperties DEF IInv, TypeOK
<1>2. /\ Len(runs') \in Nat /\ DOMAIN runs' = 1..Len(runs')
      /\ Len(approvals') \in Nat /\ DOMAIN approvals' = 1..Len(approvals')
      /\ Len(proposals') \in Nat /\ DOMAIN proposals' = 1..Len(proposals')
  BY LenProperties DEF Grows, TypeOK
<1>3. Len(proposals) # 0 => Len(proposals) \in DOMAIN proposals'
  BY <1>1 DEF Grows
<1>. QED  BY <1>1, <1>2, <1>3 DEF Grows

LEMMA AuthorisedKept ==
  ASSUME IInv, Grows, NEW p \in DOMAIN proposals, Authorised(p)
  PROVE  Authorised(p)'
<1>1. PICK a \in 1..Len(approvals) :
        /\ <<a, p>> \in bound
        /\ SpecCorrection(p) => <<a, p>> \in granted
        /\ ~SpecCorrection(p) => \E q \in 0..Len(proposals) : <<a, q>> \in granted
  BY DEF Authorised, SpecCorrection
<1>2. /\ Len(approvals) \in Nat /\ Len(proposals) \in Nat
      /\ Len(approvals') \in Nat /\ Len(proposals') \in Nat
  BY LenProperties DEF IInv, Grows, TypeOK
<1>3. a \in 1..Len(approvals') /\ <<a, p>> \in bound'
  BY <1>1, <1>2 DEF Grows
<1>4. CASE SpecCorrection(p)
  BY <1>1, <1>3, <1>4 DEF Grows, Authorised, SpecCorrection
<1>5. CASE ~SpecCorrection(p)
  <2>1. \E q \in 0..Len(proposals') : <<a, q>> \in granted'
    BY <1>1, <1>2, <1>5, Lengths DEF Grows
  <2>. QED  BY <1>3, <1>5, <2>1 DEF Grows, Authorised, SpecCorrection
<1>. QED  BY <1>4, <1>5

\* Threads keep what they hold, but for one that has something new.
LEMMA ThreadsKept ==
  ASSUME IInv, Grows,
         \A u \in Threads : busy'[u] = busy[u] \/ JobOK(busy[u])'
  PROVE  ThreadInv'
<1> SUFFICES ASSUME NEW u \in Threads, busy'[u] = busy[u] PROVE JobOK(busy[u])'
  BY DEF ThreadInv
<1>1. JobOK(busy[u])
  BY DEF IInv, ThreadInv
<1>2. Len(approvals) \in Nat /\ Len(approvals') \in Nat
  BY LenProperties DEF IInv, Grows, TypeOK
<1>3. busy[u].at = "propose" =>
        busy[u].draft.run \in DOMAIN runs' /\ busy[u].draft.approval <= Len(approvals')
  <2> SUFFICES ASSUME At(u, "propose")
               PROVE  busy[u].draft.run \in DOMAIN runs'
                      /\ busy[u].draft.approval <= Len(approvals')
    BY DEF At
  <2>1. busy[u].draft.run \in DOMAIN runs /\ busy[u].draft.approval <= Len(approvals)
        /\ busy[u].draft.approval \in Nat
    BY JobShape DEF Proposals
  <2>. QED  BY <2>1, <1>2, Lengths DEF Grows
<1>4. busy[u].at \in Begun =>
        /\ busy[u].proposal \in DOMAIN proposals'
        /\ proposals'[busy[u].proposal].gated => Authorised(busy[u].proposal)'
  <2> SUFFICES ASSUME busy[u].at \in Begun
               PROVE  /\ busy[u].proposal \in DOMAIN proposals'
                      /\ proposals'[busy[u].proposal].gated => Authorised(busy[u].proposal)'
    OBVIOUS
  <2>1. PICK p : p = busy[u].proposal
    OBVIOUS
  <2>2. p \in DOMAIN proposals /\ (proposals[p].gated => Authorised(p))
    BY <1>1, <2>1 DEF JobOK, Begun
  <2>3. p \in DOMAIN proposals' /\ (proposals'[p].gated => Authorised(p)')
    BY <2>2, AuthorisedKept DEF Grows
  <2>. QED  BY <2>1, <2>3 DEF Authorised
<1>. QED  BY <1>1, <1>3, <1>4, Lengths DEF JobOK, Begun

\* The stored records that are not changed in what the invariant says of them.
LEMMA RecordsKept ==
  ASSUME IInv, Grows
  PROVE  /\ \A a \in DOMAIN approvals :
              /\ approvals'[a].for = approvals[a].for
              /\ approvals'[a].status = "approved" => approvals[a].status = "approved"
              => ApprovalInv(a)'
         /\ \A p \in DOMAIN proposals :
              proposals'[p].required = proposals[p].required => ProposalInv(p)'
         /\ \A e \in effects :
              /\ e.proposal \in DOMAIN proposals'
              /\ proposals'[e.proposal].gated => Authorised(e.proposal)'
<1>1. ASSUME NEW a \in DOMAIN approvals,
             approvals'[a].for = approvals[a].for,
             approvals'[a].status = "approved" => approvals[a].status = "approved"
      PROVE  ApprovalInv(a)'
  <2>1. ApprovalInv(a)
    BY DEF IInv, StoreInv
  <2>2. Granted(a) => Granted(a)'
    <3>1. Len(proposals) \in Nat /\ Len(proposals') \in Nat
      BY LenProperties DEF IInv, Grows, TypeOK
    <3>2. 0..Len(proposals) \subseteq 0..Len(proposals')
      BY <3>1, Lengths
    <3>. QED  BY <3>2 DEF Grows, Granted
  <2>3. approvals[a].for # 0 => approvals[a].for \in DOMAIN proposals
    <3>1. approvals[a] \in Approvals /\ approvals[a].for <= Len(proposals)
      BY ElementOfSeq, LenProperties DEF IInv, TypeOK
    <3>. QED  BY <3>1, LenProperties DEF IInv, TypeOK, Approvals
  <2>4. approvals[a].for # 0 => (SpecCorrection(approvals[a].for)'
                                   => SpecCorrection(approvals[a].for))
    BY <1>1, <2>3 DEF Grows, SpecCorrection
  <2>. QED  BY <1>1, <2>1, <2>2, <2>4 DEF ApprovalInv, Grows, SpecCorrection
<1>2. ASSUME NEW p \in DOMAIN proposals, proposals'[p].required = proposals[p].required
      PROVE  ProposalInv(p)'
  BY <1>2, AuthorisedKept DEF IInv, StoreInv, ProposalInv, Grows
<1>3. ASSUME NEW e \in effects
      PROVE  /\ e.proposal \in DOMAIN proposals'
             /\ proposals'[e.proposal].gated => Authorised(e.proposal)'
  BY <1>3, AuthorisedKept DEF IInv, StoreInv, Grows
<1>. QED  BY <1>1, <1>2, <1>3

---------------------------------------------------------------------------
(* Every step keeps the invariant *)

\* The parts that do not depend on a thread's work.
LEMMA Together ==
  ASSUME IInv, Grows,
         \A u \in Threads : busy'[u] = busy[u] \/ JobOK(busy[u])',
         \A a \in DOMAIN approvals' : ApprovalInv(a)',
         \A p \in DOMAIN proposals' : ProposalInv(p)',
         \A e \in effects' \ effects :
           /\ e.proposal \in DOMAIN proposals'
           /\ proposals'[e.proposal].gated => Authorised(e.proposal)'
  PROVE  IInv'
<1>1. StoreInv'
  BY RecordsKept DEF StoreInv
<1>. QED  BY <1>1, ThreadsKept DEF IInv, Grows

\* The stored records by their positions.
LEMMA Shapes ==
  ASSUME TypeOK
  PROVE  /\ Len(approvals) \in Nat /\ DOMAIN approvals = 1..Len(approvals)
         /\ Len(proposals) \in Nat /\ DOMAIN proposals = 1..Len(proposals)
         /\ \A p \in DOMAIN proposals :
              /\ p \in Nat \ {0} /\ proposals[p] \in Proposals
              /\ proposals[p].approval <= Len(approvals)
         /\ \A a \in DOMAIN approvals :
              approvals[a] \in Approvals /\ approvals[a].for \in 0..Len(proposals)
<1>1. /\ Len(approvals) \in Nat /\ DOMAIN approvals = 1..Len(approvals)
      /\ Len(proposals) \in Nat /\ DOMAIN proposals = 1..Len(proposals)
  BY LenProperties DEF TypeOK
<1>2. \A p \in DOMAIN proposals : proposals[p] \in Proposals
  BY ElementOfSeq, <1>1 DEF TypeOK
<1>3. \A a \in DOMAIN approvals : approvals[a] \in Approvals
  BY ElementOfSeq, <1>1 DEF TypeOK
<1>4. \A a \in DOMAIN approvals : approvals[a].for \in 0..Len(proposals)
  BY <1>1, <1>3 DEF TypeOK, Approvals
<1>. QED  BY <1>1, <1>2, <1>3, <1>4 DEF TypeOK

LEMMA ReadSteps ==
  ASSUME IInv, NEW th \in Threads,
         \/ Propose(th) \/ Execute(th) \/ ExecuteTooLate(th) \/ Request(th)
         \/ PrecheckFails(th) \/ Returned(th)
  PROVE  IInv'
<1>0. TypeOK
  BY DEF IInv
<1>1. CASE Propose(th)
  <2>1. PICK r \in DOMAIN runs, tool \in Tools, key \in Keys, a \in 0..Len(approvals) :
          /\ tool = "propose_spec_correction" => a = 0
          /\ Does(th, [ at |-> "propose",
                        draft |-> Proposal(r, tool, key, Gated(r, tool), a) ])
    BY <1>1, Zenon DEF Propose
  <2>2. Gated(r, tool) \in BOOLEAN
    <3>1. runs[r] \in Runs
      BY ElementOfSeq DEF IInv, TypeOK
    <3>2. DelegationNeedsApproval(r) \in BOOLEAN /\ NeedsApproval(tool) \in BOOLEAN
      BY DEF DelegationNeedsApproval, NeedsApproval, ClassC
    <3>. QED  BY <3>1, <3>2 DEF Gated
  <2>3. r \in Nat /\ tool \in AllTools /\ a \in Nat
    BY <1>0, Shapes, ToolsAssumption, LenProperties DEF IInv, TypeOK
  <2>4. PICK draft : draft = Proposal(r, tool, key, Gated(r, tool), a)
    OBVIOUS
  <2>5. /\ draft \in Proposals /\ draft.run = r /\ draft.approval = a
        /\ draft.required = draft.gated /\ draft.tool = tool
    BY <2>2, <2>3, <2>4 DEF Proposal, Proposals, ProposalStatus
  <2>6. [ at |-> "propose", draft |-> draft ] \in Jobs
    BY <2>5 DEF Jobs
  <2>7. JobOK([ at |-> "propose", draft |-> draft ])
    BY <2>1, <2>5 DEF JobOK, Begun
  <2>. QED  BY <1>1, <2>1, <2>4, <2>6, <2>7, ReadStep DEF Propose
<1>2. CASE Execute(th)
  <2>1. PICK p \in DOMAIN proposals :
          /\ Checked(p)
          /\ Does(th, Holding("prechecks", p,
                              IF proposals[p].required THEN proposals[p].approval ELSE 0))
    BY <1>2 DEF Execute
  <2>2. PICK a : a = IF proposals[p].required THEN proposals[p].approval ELSE 0
    OBVIOUS
  <2>3. a \in Nat
    BY <1>0, Shapes, <2>2 DEF Proposals
  <2>4. proposals[p].gated => Authorised(p)
    <3>1. CASE ~proposals[p].required
      BY <3>1 DEF IInv, StoreInv, ProposalInv
    <3>2. CASE proposals[p].required
      <4>1. /\ a \in DOMAIN approvals /\ approvals[a].for = p
            /\ approvals[a].status = "approved"
        BY <1>0, Shapes, <2>1, <2>2, <2>3, <3>2 DEF Checked, Approved
      <4>2. ApprovalInv(a)
        BY <4>1 DEF IInv, StoreInv
      <4>. QED  BY <1>0, Shapes, <4>1, <4>2 DEF ApprovalInv, Granted, SpecCorrection, Authorised
    <3>. QED  BY <3>1, <3>2
  <2>5. Holding("prechecks", p, a) \in Jobs
    BY <1>0, Shapes, <2>3 DEF Holding, Jobs, Begun
  <2>6. JobOK(Holding("prechecks", p, a))
    BY <2>4 DEF JobOK, Holding, Begun
  <2>. QED  BY <1>2, <2>1, <2>2, <2>5, <2>6, ReadStep DEF Execute
<1>3. CASE ExecuteTooLate(th)
  <2>1. PICK p \in DOMAIN proposals :
          Approved(p) /\ Does(th, Holding("expire", p, proposals[p].approval))
    BY <1>3 DEF ExecuteTooLate
  <2>2. PICK a : a = proposals[p].approval
    OBVIOUS
  <2>3. a \in DOMAIN approvals
    BY <1>0, Shapes, <2>1, <2>2 DEF Approved, Proposals
  <2>4. Holding("expire", p, a) \in Jobs /\ JobOK(Holding("expire", p, a))
    BY <1>0, Shapes, <2>3 DEF Holding, Jobs, JobOK, Begun
  <2>. QED  BY <1>3, <2>1, <2>2, <2>4, ReadStep DEF ExecuteTooLate
<1>4. CASE Request(th)
  <2>1. PICK r \in DOMAIN runs : Does(th, [ at |-> "request", run |-> r ])
    BY <1>4 DEF Request
  <2>2. r \in Nat
    BY LenProperties DEF IInv, TypeOK
  <2>3. /\ [ at |-> "request", run |-> r ] \in Jobs
        /\ JobOK([ at |-> "request", run |-> r ])
    BY <2>2 DEF Jobs, JobOK, Begun
  <2>. QED  BY <1>4, <2>1, <2>3, ReadStep DEF Request
<1>5. CASE PrecheckFails(th) \/ Returned(th)
  BY <1>5, IdleFine, ReadStep DEF PrecheckFails, Returned
<1>. QED  BY <1>1, <1>2, <1>3, <1>4, <1>5

\* A step that rewrites an action which is being executed: that action is
\* authorised if it was gated, whatever becomes of its binding.
LEMMA RewriteStep ==
  ASSUME IInv, NEW th \in Threads, busy[th].at \in Begun,
         NEW new \in Proposals, new.tool = proposals[On(th)].tool,
         new.gated = proposals[On(th)].gated, new.run = proposals[On(th)].run,
         new.approval <= Len(approvals),
         proposals' = [proposals EXCEPT ![On(th)] = new],
         \/ Does(th, Idle)
         \/ \E at \in {"tool", "event"} : Does(th, [busy[th] EXCEPT !.at = at]),
         UNCHANGED <<runs, tier, approvals, granted, bound, effects, crashes>>
  PROVE  IInv'
<1>0. /\ On(th) \in DOMAIN proposals
      /\ busy[th] \in [ at : {"expire"} \cup Begun,
                        proposal : Nat, under : Nat ]
      /\ proposals[On(th)].gated => Authorised(On(th))
  BY JobShape
<1>1. proposals' \in Seq(Proposals) /\ DOMAIN proposals' = DOMAIN proposals
      /\ Len(proposals') = Len(proposals)
  BY <1>0, ExceptSeq DEF IInv, TypeOK
<1>2. busy' \in [Threads -> Jobs]
  <2>1. Idle \in Jobs /\ \A at \in {"tool", "event"} : [busy[th] EXCEPT !.at = at] \in Jobs
    BY <1>0 DEF Jobs, Begun
  <2>. QED  BY <2>1 DEF Does, IInv, TypeOK
<1>3. TypeOK'
  BY <1>0, <1>1, <1>2 DEF IInv, TypeOK
<1>4. Grows
  <2>1. Len(runs) \in Nat /\ Len(approvals) \in Nat
    BY LenProperties DEF IInv, TypeOK
  <2>2. \A p \in DOMAIN proposals :
          proposals'[p].tool = proposals[p].tool /\ proposals'[p].gated = proposals[p].gated
    BY <1>0 DEF IInv, TypeOK
  <2>. QED  BY <1>1, <1>3, <2>1, <2>2 DEF Grows
<1>5. \A u \in Threads : busy'[u] = busy[u] \/ JobOK(busy[u])'
  <2>1. CASE Does(th, Idle)
    BY <2>1 DEF Does, IInv, TypeOK, JobOK, Idle, Begun
  <2>2. ASSUME NEW at \in {"tool", "event"}, Does(th, [busy[th] EXCEPT !.at = at])
        PROVE  \A u \in Threads : busy'[u] = busy[u] \/ JobOK(busy[u])'
    <3>1. \A u \in Threads \ {th} : busy'[u] = busy[u]
      BY <2>2 DEF Does, IInv, TypeOK
    <3>2. busy'[th].at \in {"tool", "event"} /\ busy'[th].proposal = On(th)
      BY <1>0, <2>2 DEF Does, On, IInv, TypeOK
    <3>3. PICK p : p = On(th)
      OBVIOUS
    <3>4. p \in DOMAIN proposals' /\ (proposals'[p].gated => Authorised(p)')
      BY <1>0, <1>4, <3>3, AuthorisedKept DEF Grows
    <3>5. JobOK(busy[th])'
      BY <3>2, <3>3, <3>4 DEF JobOK, Begun, Authorised
    <3>. QED  BY <3>1, <3>5
  <2>. QED  BY <2>1, <2>2
<1>6. \A a \in DOMAIN approvals' : ApprovalInv(a)'
  BY <1>4, RecordsKept
<1>7. \A p \in DOMAIN proposals' : ProposalInv(p)'
  <2> SUFFICES ASSUME NEW p \in DOMAIN proposals PROVE ProposalInv(p)'
    BY <1>1
  <2>1. CASE p = On(th)
    <3>1. proposals[p].gated => Authorised(p)'
      BY <1>0, <1>4, <2>1, AuthorisedKept
    <3>. QED  BY <3>1, <1>4 DEF Grows, ProposalInv
  <2>2. CASE p # On(th)
    BY <1>4, <2>2, RecordsKept DEF IInv, TypeOK
  <2>. QED  BY <2>1, <2>2
<1>. QED  BY <1>4, <1>5, <1>6, <1>7, Together

LEMMA RewriteSteps ==
  ASSUME IInv, NEW th \in Threads,
         BeginTool(th) \/ ToolFails(th) \/ EvidenceFails(th) \/ Completed(th)
  PROVE  IInv'
<1>0. /\ busy[th].at \in Begun
      /\ On(th) \in DOMAIN proposals /\ proposals[On(th)] \in Proposals
      /\ proposals[On(th)].approval <= Len(approvals) /\ Len(approvals) \in Nat
  BY JobShape, Shapes DEF IInv, BeginTool, ToolFails, EvidenceFails, Completed, At, Begun
<1>1. ASSUME NEW status \in {"executing", "completed"}
      PROVE  LET new == Rebound(proposals[On(th)], status) IN
               /\ new \in Proposals /\ new.tool = proposals[On(th)].tool
               /\ new.gated = proposals[On(th)].gated /\ new.run = proposals[On(th)].run
               /\ new.approval <= Len(approvals)
  <2>1. PICK old \in Proposals : old = proposals[On(th)]
    BY <1>0
  <2>2. PICK c \in BOOLEAN : c = ClassC(old.tool)
    <3>1. ClassC(old.tool) \in BOOLEAN
      BY DEF ClassC
    <3>. QED  BY <3>1
  <2>3. [old EXCEPT !.status = status, !.required = c,
                    !.approval = IF c THEN @ ELSE 0] \in Proposals
    BY <2>1, <2>2 DEF Proposals, ProposalStatus
  <2>. QED  BY <1>0, <2>1, <2>2, <2>3 DEF Rebound, Proposals
<1>2. LET new == [proposals[On(th)] EXCEPT !.status = "failed"] IN
        /\ new \in Proposals /\ new.tool = proposals[On(th)].tool
        /\ new.gated = proposals[On(th)].gated /\ new.run = proposals[On(th)].run
        /\ new.approval <= Len(approvals)
  BY <1>0 DEF Proposals, ProposalStatus
<1>3. CASE BeginTool(th)
  <2>1. proposals' = [proposals EXCEPT ![On(th)] = Rebound(proposals[On(th)], "executing")]
    BY <1>3 DEF BeginTool
  <2>. QED  BY <1>0, <1>1, <1>3, <2>1, RewriteStep DEF BeginTool
<1>4. CASE Completed(th)
  <2>1. proposals' = [proposals EXCEPT ![On(th)] = Rebound(proposals[On(th)], "completed")]
    BY <1>4 DEF Completed
  <2>. QED  BY <1>0, <1>1, <1>4, <2>1, RewriteStep DEF Completed
<1>5. CASE ToolFails(th) \/ EvidenceFails(th)
  <2>1. proposals' = [proposals EXCEPT ![On(th)] =
                        [proposals[On(th)] EXCEPT !.status = "failed"]]
    BY <1>5 DEF ToolFails, EvidenceFails
  <2>. QED  BY <1>0, <1>2, <1>5, <2>1, RewriteStep DEF ToolFails, EvidenceFails
<1>. QED  BY <1>3, <1>4, <1>5

\* A step that decides an approval, or lets it expire: what it is bound to
\* stays, and one that is approved has been granted.
LEMMA ApprovalStep ==
  ASSUME IInv, NEW a \in DOMAIN approvals, NEW new \in Approvals,
         new.run = approvals[a].run, new.for = approvals[a].for,
         new.for # 0 <=> new.life # "open",
         approvals' = [approvals EXCEPT ![a] = new],
         granted \subseteq granted', granted' \subseteq Nat \X Nat,
         new.status = "approved" =>
           approvals[a].status = "approved" \/ <<a, new.for>> \in granted',
         busy' \in [Threads -> Jobs],
         \A u \in Threads : busy'[u] = busy[u] \/ busy'[u] = Idle,
         UNCHANGED <<runs, tier, proposals, bound, effects, crashes>>
  PROVE  IInv'
<1>0. TypeOK
  BY DEF IInv
<1>1. approvals' \in Seq(Approvals) /\ DOMAIN approvals' = DOMAIN approvals
      /\ Len(approvals') = Len(approvals)
  BY ExceptSeq DEF IInv, TypeOK
<1>2. TypeOK'
  BY <1>1 DEF IInv, TypeOK
<1>3. Grows
  <2>1. Len(runs) \in Nat /\ Len(approvals) \in Nat
    BY LenProperties DEF IInv, TypeOK
  <2>. QED  BY <1>1, <1>2, <2>1 DEF Grows
<1>4. \A u \in Threads : busy'[u] = busy[u] \/ JobOK(busy[u])'
  BY DEF JobOK, Idle, Begun
<1>5. \A b \in DOMAIN approvals' : ApprovalInv(b)'
  <2> SUFFICES ASSUME NEW b \in DOMAIN approvals PROVE ApprovalInv(b)'
    BY <1>1
  <2>1. CASE approvals'[b].status = "approved" => approvals[b].status = "approved"
    <3>1. approvals'[b].for = approvals[b].for
      BY DEF IInv, TypeOK
    <3>. QED  BY <2>1, <3>1, <1>3, RecordsKept
  <2>2. CASE ~(approvals'[b].status = "approved" => approvals[b].status = "approved")
    <3>1. b = a /\ approvals'[b] = new /\ <<b, new.for>> \in granted'
      BY <2>2 DEF IInv, TypeOK
    <3>2. new.for \in 0..Len(proposals')
      BY <1>0, Shapes
    <3>3. new.for # 0 => <<b, new.for>> \in bound'
      BY <3>1 DEF IInv, StoreInv, ApprovalInv
    <3>. QED  BY <3>1, <3>2, <3>3 DEF ApprovalInv, Granted
  <2>. QED  BY <2>1, <2>2
<1>6. \A p \in DOMAIN proposals' : ProposalInv(p)'
  BY <1>3, RecordsKept
<1>. QED  BY <1>3, <1>4, <1>5, <1>6, Together

LEMMA ApprovalSteps ==
  ASSUME IInv, \/ \E th \in Threads : ExpireWrite(th)
               \/ Decide \/ Lapse
  PROVE  IInv'
<1>0. TypeOK
  BY DEF IInv
<1>1. ASSUME NEW th \in Threads, ExpireWrite(th) PROVE IInv'
  <2>1. PICK a \in DOMAIN approvals : a = Under(th)
    BY <1>1, JobShape DEF ExpireWrite
  <2>2. PICK new : new = [approvals[a] EXCEPT !.status = "expired"]
    OBVIOUS
  <2>3. new \in Approvals /\ new.run = approvals[a].run /\ new.for = approvals[a].for
        /\ new.status = "expired" /\ new.life = approvals[a].life
    BY <1>0, <2>2, Shapes DEF Approvals, ApprovalStatus
  <2>4. new.for # 0 <=> new.life # "open"
    BY <1>0, <2>3 DEF TypeOK
  <2>5. approvals' = [approvals EXCEPT ![a] = new]
    BY <1>1, <2>1, <2>2 DEF ExpireWrite
  <2>6. /\ busy' \in [Threads -> Jobs]
        /\ \A u \in Threads : busy'[u] = busy[u] \/ busy'[u] = Idle
    BY <1>1, IdleFine DEF ExpireWrite, Does, IInv, TypeOK
  <2>7. granted' \subseteq Nat \X Nat
    BY <1>0, <1>1 DEF ExpireWrite, TypeOK
  <2>. QED  BY <1>1, <2>3, <2>4, <2>5, <2>6, <2>7, ApprovalStep DEF ExpireWrite
<1>2. CASE Decide
  <2>1. PICK a \in DOMAIN approvals, verdict \in { "approved", "denied" } :
          /\ approvals' = [approvals EXCEPT ![a].status = verdict]
          /\ granted' = IF verdict = "approved" THEN granted \cup { <<a, approvals[a].for>> }
                                                ELSE granted
    BY <1>2 DEF Decide
  <2>2. PICK new : new = [approvals[a] EXCEPT !.status = verdict]
    OBVIOUS
  <2>3. new \in Approvals /\ new.run = approvals[a].run /\ new.for = approvals[a].for
        /\ new.status = verdict /\ new.life = approvals[a].life
    BY <1>0, <2>2, Shapes DEF Approvals, ApprovalStatus
  <2>4. new.for # 0 <=> new.life # "open"
    BY <1>0, <2>3 DEF TypeOK
  <2>5. a \in Nat /\ approvals[a].for \in Nat
    BY <1>0, Shapes DEF Approvals
  <2>6. /\ granted \subseteq granted' /\ granted' \subseteq Nat \X Nat
        /\ verdict = "approved" => <<a, new.for>> \in granted'
    BY <1>0, <2>1, <2>3, <2>5 DEF TypeOK
  <2>7. approvals' = [approvals EXCEPT ![a] = new]
    BY <2>1, <2>2
  <2>8. busy' \in [Threads -> Jobs] /\ \A u \in Threads : busy'[u] = busy[u]
    BY <1>0, <1>2 DEF Decide, TypeOK
  <2>. QED  BY <1>2, <2>3, <2>4, <2>6, <2>7, <2>8, ApprovalStep DEF Decide
<1>3. CASE Lapse
  <2>1. PICK a \in DOMAIN approvals :
          /\ approvals[a].life = "running"
          /\ approvals' = [approvals EXCEPT ![a].life = "over"]
    BY <1>3 DEF Lapse
  <2>2. PICK new : new = [approvals[a] EXCEPT !.life = "over"]
    OBVIOUS
  <2>3. new \in Approvals /\ new.run = approvals[a].run /\ new.for = approvals[a].for
        /\ new.status = approvals[a].status /\ new.life = "over"
    BY <1>0, <2>2, Shapes DEF Approvals
  <2>4. new.for # 0
    BY <1>0, <2>1, <2>3 DEF TypeOK
  <2>5. approvals' = [approvals EXCEPT ![a] = new]
    BY <2>1, <2>2
  <2>6. busy' \in [Threads -> Jobs] /\ granted' \subseteq Nat \X Nat
        /\ \A u \in Threads : busy'[u] = busy[u]
    BY <1>0, <1>3 DEF Lapse, TypeOK
  <2>. QED  BY <1>3, <2>3, <2>4, <2>5, <2>6, ApprovalStep DEF Lapse
<1>. QED  BY <1>1, <1>2, <1>3

\* Tiers and crashes touch no record.
LEMMA OtherSteps ==
  ASSUME IInv, SetTier \/ \E proc \in Procs : Crash(proc)
  PROVE  IInv'
<1>1. /\ UNCHANGED <<runs, approvals, proposals, granted, bound, effects>>
      /\ tier' \in Tiers /\ crashes' \in Nat
  BY TiersAssumption DEF IInv, TypeOK, SetTier, Crash, store
<1>2. /\ busy' \in [Threads -> Jobs]
      /\ \A u \in Threads : busy'[u] = busy[u] \/ busy'[u] = Idle
  BY IdleFine DEF IInv, TypeOK, SetTier, Crash
<1>3. TypeOK'
  BY <1>1, <1>2 DEF IInv, TypeOK
<1>4. Grows
  BY <1>1, <1>3, LenProperties DEF IInv, TypeOK, Grows
<1>5. \A u \in Threads : busy'[u] = busy[u] \/ JobOK(busy[u])'
  BY <1>2 DEF JobOK, Idle, Begun
<1>6. /\ \A a \in DOMAIN approvals' : ApprovalInv(a)'
      /\ \A p \in DOMAIN proposals' : ProposalInv(p)'
  BY <1>1, <1>4, RecordsKept
<1>. QED  BY <1>1, <1>4, <1>5, <1>6, Together

---------------------------------------------------------------------------
(* Steps that add records *)

LEMMA AppendShape ==
  ASSUME NEW S, NEW s \in Seq(S), NEW x \in S
  PROVE  /\ Append(s, x) \in Seq(S)
         /\ Len(s) \in Nat /\ Len(Append(s, x)) = Len(s) + 1
         /\ DOMAIN s = 1..Len(s) /\ DOMAIN Append(s, x) = 1..(Len(s) + 1)
         /\ \A i \in DOMAIN s : Append(s, x)[i] = s[i]
         /\ Append(s, x)[Len(s) + 1] = x
  BY AppendProperties, LenProperties

LEMMA NewApproval ==
  ASSUME IInv, NEW new \in Approvals, approvals' = Append(approvals, new)
  PROVE  /\ approvals' \in Seq(Approvals)
         /\ Len(approvals) \in Nat /\ Len(approvals') = Len(approvals) + 1
         /\ DOMAIN approvals = 1..Len(approvals)
         /\ DOMAIN approvals' = DOMAIN approvals \cup {Len(approvals) + 1}
         /\ \A a \in DOMAIN approvals : approvals'[a] = approvals[a]
         /\ approvals'[Len(approvals) + 1] = new
<1>1. approvals \in Seq(Approvals)
  BY DEF IInv, TypeOK
<1>. QED  BY <1>1, AppendShape

\* The ranks an approval can be listed at.
LEMMA RanksAreNumbers ==
  ASSUME IInv, Room
  PROVE  NewRanks \subseteq Nat
<1>1. Len(approvals) \in Nat /\ MaxApprovals \in Nat
  BY LenProperties, BoundsAssumption DEF IInv, TypeOK
<1>. QED  BY <1>1 DEF NewRanks, Room

\* An approval that is bound to nothing, for a run there is.
Fresh(new, rs) ==
  /\ new \in Approvals /\ new.run \in DOMAIN rs
  /\ new.status = "pending" /\ new.for = 0 /\ new.life = "open"

\* A step that adds runs, such an approval, or effects of authorised actions.
LEMMA AddStep ==
  ASSUME IInv,
         runs' \in Seq(Runs), Len(runs) <= Len(runs'),
         \/ approvals' = approvals
         \/ \E new : Fresh(new, runs') /\ approvals' = Append(approvals, new),
         \A e \in effects' \ effects :
           /\ e \in [ proposal : Nat, under : Nat ] /\ e.proposal \in DOMAIN proposals
           /\ proposals[e.proposal].gated => Authorised(e.proposal),
         busy' \in [Threads -> Jobs],
         \A u \in Threads :
           \/ busy'[u] = busy[u] \/ busy'[u] = Idle
           \/ \E p \in DOMAIN proposals :
                /\ busy'[u].at = "record" /\ busy'[u].proposal = p
                /\ proposals[p].gated => Authorised(p),
         UNCHANGED <<tier, proposals, granted, bound, crashes>>
  PROVE  IInv'
<1> DEFINE Extended ==
      /\ approvals' \in Seq(Approvals)
      /\ Len(approvals) \in Nat /\ Len(approvals') \in Nat
      /\ Len(approvals) <= Len(approvals') /\ DOMAIN approvals \subseteq DOMAIN approvals'
      /\ \A a \in DOMAIN approvals : approvals'[a] = approvals[a]
      /\ \A a \in DOMAIN approvals' : a \in DOMAIN approvals \/ Fresh(approvals'[a], runs')
<1>1. Extended
  <2>1. CASE approvals' = approvals
    BY <2>1, Shapes DEF IInv, TypeOK
  <2>2. ASSUME NEW new, Fresh(new, runs'), approvals' = Append(approvals, new)
        PROVE  Extended
    BY <2>2, NewApproval DEF Fresh
  <2>. QED  BY <2>1, <2>2
<1>2. DOMAIN runs \subseteq DOMAIN runs'
  BY LenProperties DEF IInv, TypeOK
<1>3. TypeOK'
  <2>1. \A p \in DOMAIN proposals :
          proposals[p].run \in DOMAIN runs' /\ proposals[p].approval <= Len(approvals')
    <3>1. \A p \in DOMAIN proposals :
            /\ proposals[p].approval \in Nat /\ proposals[p].approval <= Len(approvals)
            /\ proposals[p].run \in DOMAIN runs
      BY Shapes DEF IInv, Proposals, TypeOK
    <3>. QED  BY <1>1, <1>2, <3>1
  <2>2. \A a \in DOMAIN approvals' :
          /\ approvals'[a].run \in DOMAIN runs' /\ approvals'[a].for <= Len(proposals)
          /\ approvals'[a].for # 0 <=> approvals'[a].life # "open"
    BY <1>1, <1>2, Shapes DEF IInv, TypeOK, Fresh
  <2>3. effects' \subseteq [ proposal : Nat, under : Nat ]
    BY DEF IInv, TypeOK
  <2>. QED  BY <1>1, <2>1, <2>2, <2>3 DEF IInv, TypeOK
<1>4. Grows
  BY <1>1, <1>3 DEF Grows
<1>5. \A u \in Threads : busy'[u] = busy[u] \/ JobOK(busy[u])'
  <2> SUFFICES ASSUME NEW u \in Threads, busy'[u] # busy[u] PROVE JobOK(busy[u])'
    OBVIOUS
  <2>1. CASE busy'[u] = Idle
    BY <2>1 DEF JobOK, Idle, Begun
  <2>2. ASSUME NEW p \in DOMAIN proposals,
               busy'[u].at = "record", busy'[u].proposal = p,
               proposals[p].gated => Authorised(p)
        PROVE  JobOK(busy[u])'
    <3>1. proposals'[p].gated => Authorised(p)'
      BY <1>4, <2>2, AuthorisedKept
    <3>. QED  BY <2>2, <3>1 DEF JobOK, Authorised
  <2>. QED  BY <2>1, <2>2
<1>6. \A a \in DOMAIN approvals' : ApprovalInv(a)'
  <2> SUFFICES ASSUME NEW a \in DOMAIN approvals' PROVE ApprovalInv(a)'
    OBVIOUS
  <2>1. CASE a \in DOMAIN approvals
    BY <1>1, <1>4, <2>1, RecordsKept
  <2>2. CASE Fresh(approvals'[a], runs')
    BY <2>2 DEF ApprovalInv, Fresh
  <2>. QED  BY <1>1, <2>1, <2>2
<1>7. \A p \in DOMAIN proposals' : ProposalInv(p)'
  BY <1>4, RecordsKept
<1>8. \A e \in effects' \ effects :
        /\ e.proposal \in DOMAIN proposals'
        /\ proposals'[e.proposal].gated => Authorised(e.proposal)'
  BY <1>4, AuthorisedKept
<1>. QED  BY <1>4, <1>5, <1>6, <1>7, <1>8, Together

LEMMA AddSteps ==
  ASSUME IInv, NEW th \in Threads,
         RequestWrite(th) \/ ToolDone(th) \/ ChildSpawned(th)
  PROVE  IInv'
<1>0. runs \in Seq(Runs) /\ DOMAIN runs = 1..Len(runs) /\ Len(runs) \in Nat
  BY LenProperties DEF IInv, TypeOK
<1>1. CASE RequestWrite(th)
  <2>1. PICK rank \in Nat :
          approvals' = Append(approvals, Pending(busy[th].run, 0, "open", rank))
    BY <1>1, RanksAreNumbers DEF RequestWrite
  <2>2. Fresh(Pending(busy[th].run, 0, "open", rank), runs)
    BY <1>0, <1>1, JobShape DEF RequestWrite, Fresh, Pending, Approvals, ApprovalStatus
  <2>3. /\ busy' \in [Threads -> Jobs]
        /\ \A u \in Threads : busy'[u] = busy[u] \/ busy'[u] = Idle
    BY <1>1, IdleFine DEF RequestWrite, Does, IInv, TypeOK
  <2>. QED  BY <1>0, <1>1, <2>1, <2>2, <2>3, AddStep DEF RequestWrite
<1>a. ASSUME At(th, "tool") PROVE busy[th].at \in Begun
  BY <1>a DEF At, Begun
<1>2. ASSUME Effect(th), At(th, "tool")
      PROVE  /\ \A e \in effects' \ effects :
                  /\ e \in [ proposal : Nat, under : Nat ] /\ e.proposal \in DOMAIN proposals
                  /\ proposals[e.proposal].gated => Authorised(e.proposal)
             /\ busy' \in [Threads -> Jobs]
             /\ \A u \in Threads :
                  \/ busy'[u] = busy[u]
                  \/ \E p \in DOMAIN proposals :
                       /\ busy'[u].at = "record" /\ busy'[u].proposal = p
                       /\ proposals[p].gated => Authorised(p)
  <2>1. PICK p \in DOMAIN proposals, a \in Nat :
          /\ p = On(th) /\ a = Under(th)
          /\ proposals[p].gated => Authorised(p)
    BY <1>2, <1>a, JobShape
  <2>2. effects' = effects \cup { [proposal |-> p, under |-> a] } /\ p \in Nat
    BY <1>2, <2>1, Shapes DEF Effect, IInv
  <2>3. [busy[th] EXCEPT !.at = "record"] \in Jobs
        /\ [busy[th] EXCEPT !.at = "record"].at = "record"
        /\ [busy[th] EXCEPT !.at = "record"].proposal = p
    BY <1>2, <1>a, <2>1, JobShape DEF Jobs, Begun, On
  <2>. QED  BY <1>2, <2>1, <2>2, <2>3 DEF Effect, Does, IInv, TypeOK
<1>3. CASE ToolDone(th)
  BY <1>0, <1>2, <1>3, AddStep DEF ToolDone
<1>4. CASE ChildSpawned(th)
  <2>1. PICK r, child, layer :
          /\ r \in DOMAIN runs /\ layer = Below[LayerOf(r)]
          /\ child = [layer |-> layer, parent |-> r, org |-> runs[r].org]
          /\ runs' = Append(runs, child)
          /\ \/ approvals' = approvals
             \/ Room /\ \E rank \in NewRanks :
                  approvals' = Append(approvals, Pending(Len(runs) + 1, 0, "open", rank))
    <3>1. On(th) \in DOMAIN proposals
      BY <1>4, <1>a, JobShape DEF ChildSpawned
    <3>. QED  BY <1>4, <3>1, Zenon DEF ChildSpawned, IInv, TypeOK
  <2>2. child \in Runs
    <3>1. runs[r] \in Runs /\ r \in Nat
      BY <1>0, <2>1, ElementOfSeq
    <3>2. LayerOf(r) \in {"chair", "director", "department", "worker"}
      BY <3>1 DEF Runs, Layers, LayerOf
    <3>3. layer \in Layers
      BY <2>1, <3>2 DEF Below, Layers
    <3>. QED  BY <2>1, <3>1, <3>3 DEF Runs
  <2>3. runs' \in Seq(Runs) /\ Len(runs') = Len(runs) + 1 /\ Len(runs) + 1 \in DOMAIN runs'
    BY <1>0, <2>1, <2>2, AppendShape
  <2>4. \/ approvals' = approvals
        \/ \E new : Fresh(new, runs') /\ approvals' = Append(approvals, new)
    <3> SUFFICES ASSUME Room, NEW rank \in NewRanks,
                        approvals' = Append(approvals, Pending(Len(runs) + 1, 0, "open", rank))
                 PROVE  Fresh(Pending(Len(runs) + 1, 0, "open", rank), runs')
      BY <2>1
    <3>1. rank \in Nat
      BY RanksAreNumbers
    <3>. QED  BY <1>0, <2>3, <3>1 DEF Fresh, Pending, Approvals, ApprovalStatus
  <2>. QED  BY <1>0, <1>2, <1>4, <2>3, <2>4, AddStep DEF ChildSpawned
<1>. QED  BY <1>1, <1>3, <1>4

\* The write of createProposal: an action that is gated is written with its
\* required flag set, and an approval bound to it says nothing yet of it.
LEMMA ProposeWrites ==
  ASSUME IInv, NEW th \in Threads, ProposeWrite(th)
  PROVE  IInv'
<1>0. TypeOK /\ proposals \in Seq(Proposals)
  BY DEF IInv, TypeOK
<1>p. PICK p \in Nat \ {0} : p = Len(proposals) + 1
  BY <1>0, LenProperties
<1>1. PICK draft \in Proposals :
        /\ draft = busy[th].draft
        /\ draft.run \in DOMAIN runs /\ draft.approval \in 0..Len(approvals)
        /\ draft.required = draft.gated
        /\ draft.tool = "propose_spec_correction" => draft.approval = 0
  BY JobShape DEF ProposeWrite, Proposals
<1>2. PICK new \in Proposals :
        /\ proposals' = Append(proposals, new)
        /\ new.run = draft.run /\ new.gated = draft.gated /\ new.required = draft.gated
        /\ new.tool = draft.tool
        /\ new.approval \in 0..Len(approvals')
        /\ \/ /\ Room /\ draft.tool = "propose_spec_correction"
              /\ \E rank \in NewRanks :
                   approvals' = Append(approvals, Pending(draft.run, p, "running", rank))
              /\ bound' = bound \cup { <<Len(approvals) + 1, p>> }
           \/ /\ draft.approval # 0
              /\ approvals' = [approvals EXCEPT ![draft.approval] = Bind(@, p)]
              /\ bound' = bound \cup { <<draft.approval, p>> }
           \/ UNCHANGED <<approvals, bound>>
  <2>1. CASE /\ Room /\ draft.tool = "propose_spec_correction"
             /\ \E rank \in NewRanks :
                  approvals' = Append(approvals, Pending(draft.run, Len(proposals) + 1, "running", rank))
             /\ proposals' = Append(proposals, [draft EXCEPT !.approval = Len(approvals) + 1])
             /\ bound' = bound \cup { <<Len(approvals) + 1, Len(proposals) + 1>> }
    <3>1. Len(approvals') = Len(approvals) + 1 /\ Len(approvals) \in Nat
      BY <2>1, <1>0, LenProperties, AppendProperties DEF TypeOK
    <3>2. [draft EXCEPT !.approval = Len(approvals) + 1] \in Proposals
      BY <3>1 DEF Proposals
    <3>. QED  BY <1>1, <1>p, <2>1, <3>1, <3>2 DEF Proposals
  <2>2. CASE /\ draft.approval # 0
             /\ approvals' = [approvals EXCEPT ![draft.approval] = Bind(@, Len(proposals) + 1)]
             /\ proposals' = Append(proposals, draft)
             /\ bound' = bound \cup { <<draft.approval, Len(proposals) + 1>> }
    <3>1. Len(approvals') = Len(approvals)
      BY <2>2, <1>0, LenProperties DEF TypeOK
    <3>. QED  BY <1>1, <1>p, <2>2, <3>1
  <2>3. CASE proposals' = Append(proposals, draft) /\ UNCHANGED <<approvals, bound>>
    BY <1>1, <2>3
  <2>. QED  BY <1>1, <2>1, <2>2, <2>3, Zenon DEF ProposeWrite
<1>3. /\ proposals' \in Seq(Proposals)
      /\ Len(proposals) \in Nat /\ Len(proposals') = p
      /\ DOMAIN proposals = 1..Len(proposals) /\ DOMAIN proposals' = 1..p
      /\ \A q \in DOMAIN proposals : proposals'[q] = proposals[q]
      /\ proposals'[p] = new
  BY <1>0, <1>2, <1>p, AppendShape
<1> DEFINE Named(a) ==
      /\ approvals'[a] \in Approvals
      /\ approvals'[a].run \in DOMAIN runs
      /\ approvals'[a].for = p /\ approvals'[a].life # "open"
      /\ <<a, p>> \in bound'
      /\ approvals'[a].status = "approved" =>
           /\ a \in DOMAIN approvals /\ approvals[a].status = "approved"
           /\ new.tool # "propose_spec_correction"
<1> DEFINE Extended ==
      /\ approvals' \in Seq(Approvals)
      /\ Len(approvals) \in Nat /\ Len(approvals') \in Nat
      /\ Len(approvals) <= Len(approvals') /\ DOMAIN approvals \subseteq DOMAIN approvals'
      /\ bound \subseteq bound' /\ bound' \subseteq Nat \X Nat
      /\ \A a \in DOMAIN approvals' :
           \/ a \in DOMAIN approvals /\ approvals'[a] = approvals[a]
           \/ Named(a)
<1>4. Extended
  <2>1. ASSUME Room, draft.tool = "propose_spec_correction", NEW rank \in NewRanks,
               approvals' = Append(approvals, Pending(draft.run, p, "running", rank)),
               bound' = bound \cup { <<Len(approvals) + 1, p>> }
        PROVE  Extended
    <3>1. PICK fresh : fresh = Pending(draft.run, p, "running", rank)
      OBVIOUS
    <3>2. fresh \in Approvals
      BY <1>1, <1>3, <2>1, <3>1, RanksAreNumbers DEF Pending, Approvals, ApprovalStatus, Proposals
    <3>3. /\ fresh.run = draft.run /\ fresh.for = p
          /\ fresh.life = "running" /\ fresh.status = "pending"
      BY <3>1 DEF Pending
    <3>4. approvals' = Append(approvals, fresh)
      BY <2>1, <3>1
    <3>5. Named(Len(approvals) + 1)
      BY <1>1, <2>1, <3>2, <3>3, <3>4, NewApproval
    <3>6. bound \subseteq bound' /\ bound' \subseteq Nat \X Nat
      BY <1>0, <1>3, <2>1, <3>2, <3>4, NewApproval DEF TypeOK
    <3> HIDE DEF Named
    <3>7. \A a \in DOMAIN approvals' :
            (a \in DOMAIN approvals /\ approvals'[a] = approvals[a]) \/ Named(a)
      BY <3>2, <3>4, <3>5, NewApproval
    <3>. QED  BY <3>2, <3>4, <3>6, <3>7, NewApproval
  <2>2. ASSUME draft.approval # 0,
               approvals' = [approvals EXCEPT ![draft.approval] = Bind(@, p)],
               bound' = bound \cup { <<draft.approval, p>> }
        PROVE  Extended
    <3>1. PICK a \in DOMAIN approvals : a = draft.approval
      BY <1>0, <1>1, <2>2, Shapes
    <3>2. PICK fresh : fresh = Bind(approvals[a], p)
      OBVIOUS
    <3>3. /\ fresh \in Approvals /\ fresh.run = approvals[a].run /\ fresh.for = p
          /\ fresh.life # "open" /\ fresh.status = approvals[a].status
      <4>1. PICK old \in Approvals : old = approvals[a]
        BY <1>0, Shapes
      <4>. QED  BY <1>3, <3>2, <4>1 DEF Bind, Approvals
    <3>4. approvals' = [approvals EXCEPT ![a] = fresh]
      BY <2>2, <3>1, <3>2
    <3>5. approvals \in Seq(Approvals) /\ approvals[a].run \in DOMAIN runs
      BY <1>0 DEF TypeOK
    <3>6. /\ approvals' \in Seq(Approvals) /\ Len(approvals') = Len(approvals)
          /\ DOMAIN approvals' = DOMAIN approvals /\ Len(approvals) \in Nat
          /\ \A b \in DOMAIN approvals \ {a} : approvals'[b] = approvals[b]
          /\ approvals'[a] = fresh
      BY <3>3, <3>4, <3>5, ExceptSeq, LenProperties
    <3>7. Named(a)
      BY <1>1, <1>2, <2>2, <3>1, <3>3, <3>5, <3>6
    <3>8. bound \subseteq bound' /\ bound' \subseteq Nat \X Nat
      BY <1>0, <1>1, <1>3, <2>2 DEF TypeOK, Proposals
    <3> HIDE DEF Named
    <3>9. \A b \in DOMAIN approvals' :
            (b \in DOMAIN approvals /\ approvals'[b] = approvals[b]) \/ Named(b)
      BY <3>6, <3>7
    <3>. QED  BY <3>6, <3>8, <3>9
  <2>3. CASE UNCHANGED <<approvals, bound>>
    <3>1. /\ approvals \in Seq(Approvals) /\ Len(approvals) \in Nat
          /\ bound \subseteq Nat \X Nat
      BY <1>0, Shapes DEF TypeOK
    <3>2. \A a \in DOMAIN approvals' : a \in DOMAIN approvals /\ approvals'[a] = approvals[a]
      BY <2>3
    <3>. QED  BY <2>3, <3>1, <3>2
  <2>. QED  BY <1>2, <2>1, <2>2, <2>3
<1>5. TypeOK'
  <2>1. \A q \in DOMAIN proposals' :
          proposals'[q].run \in DOMAIN runs /\ proposals'[q].approval <= Len(approvals')
    <3> SUFFICES ASSUME NEW q \in DOMAIN proposals'
                 PROVE  proposals'[q].run \in DOMAIN runs
                        /\ proposals'[q].approval <= Len(approvals')
      OBVIOUS
    <3>1. CASE q \in DOMAIN proposals
      <4>1. /\ proposals[q].approval \in Nat /\ proposals[q].approval <= Len(approvals)
            /\ proposals[q].run \in DOMAIN runs
        BY <1>0, <3>1, Shapes DEF Proposals, TypeOK
      <4>. QED  BY <1>3, <1>4, <3>1, <4>1
    <3>2. CASE q = p
      BY <1>1, <1>2, <1>3, <3>2
    <3>. QED  BY <1>3, <1>p, <3>1, <3>2
  <2>2. \A a \in DOMAIN approvals' :
          /\ approvals'[a].run \in DOMAIN runs /\ approvals'[a].for <= Len(proposals')
          /\ approvals'[a].for # 0 <=> approvals'[a].life # "open"
    <3> SUFFICES ASSUME NEW a \in DOMAIN approvals'
                 PROVE  /\ approvals'[a].run \in DOMAIN runs
                        /\ approvals'[a].for <= Len(proposals')
                        /\ approvals'[a].for # 0 <=> approvals'[a].life # "open"
      OBVIOUS
    <3>1. CASE a \in DOMAIN approvals /\ approvals'[a] = approvals[a]
      <4>1. approvals[a].for \in 0..Len(proposals) /\ approvals[a].run \in DOMAIN runs
        BY <1>0, <3>1, Shapes DEF TypeOK
      <4>. QED  BY <1>0, <1>3, <1>p, <3>1, <4>1 DEF TypeOK
    <3>2. CASE Named(a)
      BY <1>3, <3>2
    <3>. QED  BY <1>4, <3>1, <3>2
  <2>3. busy' \in [Threads -> Jobs]
    BY <1>0, IdleFine DEF ProposeWrite, Does, TypeOK
  <2>. QED  BY <1>0, <1>3, <1>4, <2>1, <2>2, <2>3 DEF ProposeWrite, TypeOK
<1>6. Grows
  BY <1>3, <1>4, <1>5, LenProperties DEF ProposeWrite, Grows, TypeOK
<1>7. \A u \in Threads : busy'[u] = busy[u] \/ JobOK(busy[u])'
  BY <1>0 DEF ProposeWrite, Does, TypeOK, JobOK, Idle, Begun
<1>8. \A a \in DOMAIN approvals' : ApprovalInv(a)'
  <2> SUFFICES ASSUME NEW a \in DOMAIN approvals' PROVE ApprovalInv(a)'
    OBVIOUS
  <2>1. CASE a \in DOMAIN approvals /\ approvals'[a] = approvals[a]
    BY <1>6, <2>1, RecordsKept
  <2>2. CASE Named(a)
    <3>1. ~SpecCorrection(p)' \/ approvals'[a].status # "approved"
      BY <1>3, <2>2 DEF SpecCorrection
    <3>2. approvals'[a].status = "approved" => Granted(a)'
      <4> SUFFICES ASSUME a \in DOMAIN approvals, approvals[a].status = "approved"
                   PROVE  Granted(a)'
        BY <2>2
      <4>1. PICK q \in 0..Len(proposals) : <<a, q>> \in granted
        BY DEF IInv, StoreInv, ApprovalInv, Granted
      <4>2. q \in 0..Len(proposals') /\ granted' = granted
        BY <1>3, <4>1 DEF ProposeWrite
      <4>. QED  BY <4>1, <4>2 DEF Granted
    <3>. QED  BY <2>2, <3>1, <3>2 DEF ApprovalInv, SpecCorrection
  <2>. QED  BY <1>4, <2>1, <2>2
<1>9. \A q \in DOMAIN proposals' : ProposalInv(q)'
  <2> SUFFICES ASSUME NEW q \in DOMAIN proposals' PROVE ProposalInv(q)'
    OBVIOUS
  <2>1. CASE q \in DOMAIN proposals
    BY <1>3, <1>6, <2>1, RecordsKept
  <2>2. CASE q = p
    BY <1>2, <1>3, <2>2 DEF ProposalInv
  <2>. QED  BY <1>3, <1>p, <2>1, <2>2
<1>. QED  BY <1>6, <1>7, <1>8, <1>9, Together DEF ProposeWrite

---------------------------------------------------------------------------
(* Theorems *)

LEMMA Stepwise == IInv /\ [Next]_vars => IInv'
<1> SUFFICES ASSUME IInv, [Next]_vars PROVE IInv'
  OBVIOUS
<1>1. CASE UNCHANGED vars
  BY <1>1 DEF vars, store, IInv, TypeOK, StoreInv, ThreadInv, ApprovalInv, ProposalInv,
              Granted, SpecCorrection, Authorised, JobOK
<1>2. ASSUME NEW th \in Threads, ProposeStep(th) \/ ExecuteStep(th) \/ RequestStep(th)
      PROVE  IInv'
  BY <1>2, ReadSteps, ProposeWrites, RewriteSteps, ApprovalSteps, AddSteps
     DEF ProposeStep, ExecuteStep, RequestStep
<1>3. CASE Decide \/ SetTier \/ Lapse \/ \E proc \in Procs : Crash(proc)
  BY <1>3, ApprovalSteps, OtherSteps
<1>. QED  BY <1>1, <1>2, <1>3 DEF Next

\* In every state the program can reach, the stored records have the shapes
\* the code gives them, refer to records that exist, and an approval has an
\* expiry exactly if it is bound to an action.
THEOREM RecordsCorrect == Spec => []TypeOK
<1>1. IInv => TypeOK
  BY DEF IInv
<1>. QED  BY Initially, Stepwise, <1>1, PTL DEF Spec

\* execute's approval gate holds: whatever is proposed, approved, bound to
\* other actions, expired, decided again, executed twice or interrupted, an
\* action that needed an approval when it was proposed has no effect before
\* an approval it was bound to was given.
THEOREM ActsAuthorisedHolds == Spec => []ActsAuthorised
<1>1. IInv => ActsAuthorised
  BY DEF IInv, StoreInv, ActsAuthorised
<1>. QED  BY Initially, Stepwise, <1>1, PTL DEF Spec

---------------------------------------------------------------------------
(* What is executing is driven *)

\* By position: what a step does to the status of the action it is about.
LEMMA Rewritten ==
  ASSUME IInv, NEW p \in DOMAIN proposals, NEW new,
         proposals' = [proposals EXCEPT ![p] = new]
  PROVE  /\ DOMAIN proposals' = DOMAIN proposals
         /\ proposals'[p] = new
         /\ \A q \in DOMAIN proposals : q # p => proposals'[q] = proposals[q]
  BY DEF IInv, TypeOK

LEMMA ReboundStatus ==
  ASSUME NEW proposal \in Proposals, NEW status
  PROVE  Rebound(proposal, status).status = status
  BY DEF Rebound, Proposals

LEMMA StatusSet ==
  ASSUME IInv, NEW p \in DOMAIN proposals, NEW status,
         \/ proposals' = [proposals EXCEPT ![p] = Rebound(@, status)]
         \/ proposals' = [proposals EXCEPT ![p].status = status]
  PROVE  /\ DOMAIN proposals' = DOMAIN proposals
         /\ proposals'[p].status = status
         /\ \A q \in DOMAIN proposals : q # p => proposals'[q] = proposals[q]
<1>1. proposals[p] \in Proposals
  BY Shapes DEF IInv
<1>2. CASE proposals' = [proposals EXCEPT ![p] = Rebound(@, status)]
  <2>1. proposals' = [proposals EXCEPT ![p] = Rebound(proposals[p], status)]
    BY <1>2
  <2>. QED  BY <1>1, <2>1, Rewritten, ReboundStatus
<1>3. CASE proposals' = [proposals EXCEPT ![p].status = status]
  <2>1. [proposals[p] EXCEPT !.status = status].status = status
    BY <1>1 DEF Proposals
  <2>. QED  BY <1>3, <2>1, Rewritten
<1>. QED  BY <1>2, <1>3

\* What the steps of execute after the gate do.
LEMMA ExecuteSteps ==
  ASSUME IInv, NEW th \in Threads, busy[th].at \in Begun
  PROVE  LET p == On(th) IN
         /\ p \in DOMAIN proposals
         /\ BeginTool(th) =>
              /\ busy' = [busy EXCEPT ![th] = [busy[th] EXCEPT !.at = "tool"]]
              /\ DOMAIN proposals' = DOMAIN proposals
              /\ proposals'[p].status = "executing"
              /\ \A q \in DOMAIN proposals : q # p => proposals'[q] = proposals[q]
         /\ ToolFails(th) \/ EvidenceFails(th) =>
              /\ busy' = [busy EXCEPT ![th] = Idle]
              /\ DOMAIN proposals' = DOMAIN proposals
              /\ proposals'[p].status = "failed"
              /\ \A q \in DOMAIN proposals : q # p => proposals'[q] = proposals[q]
         /\ Completed(th) =>
              /\ busy' = [busy EXCEPT ![th] = [busy[th] EXCEPT !.at = "event"]]
              /\ DOMAIN proposals' = DOMAIN proposals
              /\ proposals'[p].status = "completed"
              /\ \A q \in DOMAIN proposals : q # p => proposals'[q] = proposals[q]
<1> DEFINE p == On(th)
<1>1. p \in DOMAIN proposals
  BY JobShape
<1> HIDE DEF p
<1>2. ASSUME BeginTool(th)
      PROVE  /\ busy' = [busy EXCEPT ![th] = [busy[th] EXCEPT !.at = "tool"]]
             /\ proposals' = [proposals EXCEPT ![p] = Rebound(@, "executing")]
  BY <1>2 DEF BeginTool, Does, p
<1>3. ASSUME ToolFails(th) \/ EvidenceFails(th)
      PROVE  /\ busy' = [busy EXCEPT ![th] = Idle]
             /\ proposals' = [proposals EXCEPT ![p].status = "failed"]
  BY <1>3 DEF ToolFails, EvidenceFails, Does, p
<1>4. ASSUME Completed(th)
      PROVE  /\ busy' = [busy EXCEPT ![th] = [busy[th] EXCEPT !.at = "event"]]
             /\ proposals' = [proposals EXCEPT ![p] = Rebound(@, "completed")]
  BY <1>4 DEF Completed, Does, p
<1>. QED  BY <1>1, <1>2, <1>3, <1>4, StatusSet DEF p

\* A job that moves on is about the same action.
LEMMA Moved ==
  ASSUME IInv, NEW th \in Threads, busy[th].at \in Begun, NEW at,
         busy' = [busy EXCEPT ![th] = [busy[th] EXCEPT !.at = at]]
  PROVE  /\ busy'[th].at = at
         /\ busy'[th].proposal = busy[th].proposal /\ busy'[th].under = busy[th].under
         /\ \A u \in Threads \ {th} : busy'[u] = busy[u]
<1>1. busy[th] \in [ at : {"expire"} \cup Begun, proposal : Nat, under : Nat ]
  BY JobShape
<1>. QED  BY <1>1 DEF IInv, TypeOK

\* A proposal that is written is new, and proposed.
LEMMA ProposalAdded ==
  ASSUME IInv, NEW th \in Threads, ProposeWrite(th)
  PROVE  /\ DOMAIN proposals \subseteq DOMAIN proposals'
         /\ \A p \in DOMAIN proposals : proposals'[p] = proposals[p]
         /\ \A p \in DOMAIN proposals' \ DOMAIN proposals :
              /\ proposals'[p].status = busy[th].draft.status
              /\ proposals'[p].run = busy[th].draft.run
              /\ proposals'[p].key = busy[th].draft.key
              /\ \A q \in DOMAIN proposals' \ DOMAIN proposals : p = q
<1>1. busy[th].draft \in Proposals /\ proposals \in Seq(Proposals)
  BY JobShape DEF ProposeWrite, IInv, TypeOK
<1>2. PICK new \in Proposals :
        /\ proposals' = Append(proposals, new)
        /\ new.status = busy[th].draft.status
        /\ new.run = busy[th].draft.run /\ new.key = busy[th].draft.key
  <2>1. Len(approvals) + 1 \in Nat
    BY LenProperties DEF IInv, TypeOK
  <2>2. LET new == [busy[th].draft EXCEPT !.approval = Len(approvals) + 1]
        IN  /\ new \in Proposals /\ new.status = busy[th].draft.status
            /\ new.run = busy[th].draft.run /\ new.key = busy[th].draft.key
    BY <1>1, <2>1 DEF Proposals
  <2>. QED  BY <1>1, <2>2, Zenon DEF ProposeWrite
<1>. QED  BY <1>1, <1>2, AppendShape

\* Only createProposal prepares a proposal.
LEMMA OnlyProposeDrafts ==
  ASSUME IInv, [Next]_vars, NEW u \in Threads, busy'[u].at = "propose"
  PROVE  busy'[u] = busy[u] \/ Propose(u)
<1>0. busy \in [Threads -> Jobs]
  BY DEF IInv, TypeOK
<1>i. busy'[u] # Idle
  BY DEF Idle
<1>1. ASSUME NEW th \in Threads, Propose(th)
      PROVE  busy'[u] = busy[u] \/ Propose(u)
  <2>1. PICK job : busy' = [busy EXCEPT ![th] = job]
    BY <1>1 DEF Propose, Does
  <2>. QED  BY <1>0, <1>1, <2>1
<1>2. ASSUME NEW th \in Threads,
             \/ Execute(th) \/ ExecuteTooLate(th) \/ Request(th)
      PROVE  busy'[u] = busy[u]
  <2>1. PICK job : job.at # "propose" /\ busy' = [busy EXCEPT ![th] = job]
    BY <1>2 DEF Execute, ExecuteTooLate, Request, Does, Holding
  <2>. QED  BY <1>0, <2>1
<1>3. ASSUME NEW th \in Threads,
             \/ ProposeWrite(th) \/ ExpireWrite(th) \/ PrecheckFails(th) \/ Returned(th)
             \/ RequestWrite(th) \/ ToolFails(th) \/ EvidenceFails(th)
      PROVE  busy'[u] = busy[u]
  <2>1. busy' = [busy EXCEPT ![th] = Idle]
    BY <1>3 DEF ProposeWrite, ExpireWrite, PrecheckFails, Returned, RequestWrite,
                ToolFails, EvidenceFails, Does
  <2>. QED  BY <1>0, <1>i, <2>1
<1>4. ASSUME NEW th \in Threads,
             BeginTool(th) \/ ToolDone(th) \/ ChildSpawned(th) \/ Completed(th)
      PROVE  busy'[u] = busy[u]
  <2>1. PICK at : /\ at # "propose" /\ busy[th].at \in Begun
                  /\ busy' = [busy EXCEPT ![th] = [busy[th] EXCEPT !.at = at]]
    BY <1>4 DEF BeginTool, ToolDone, ChildSpawned, Completed, Effect, Does, At, Begun
  <2>2. busy'[th].at = at /\ \A v \in Threads \ {th} : busy'[v] = busy[v]
    BY <2>1, Moved
  <2>. QED  BY <2>1, <2>2
<1>5. CASE Decide \/ SetTier \/ Lapse \/ UNCHANGED vars
  BY <1>5 DEF Decide, SetTier, Lapse, vars, store
<1>6. CASE \E proc \in Procs : Crash(proc)
  BY <1>i, <1>6 DEF Crash
<1>. QED
  BY <1>1, <1>2, <1>3, <1>4, <1>5, <1>6
     DEF Next, ProposeStep, ExecuteStep, RequestStep

LEMMA Drafted ==
  ASSUME IInv, NEW u \in Threads, Propose(u)
  PROVE  /\ busy'[u].draft.status = "proposed"
         /\ \A p \in DOMAIN proposals :
              proposals[p].status = "proposed" /\ proposals[p].run = busy'[u].draft.run
                => proposals[p].key # busy'[u].draft.key
<1>1. PICK r \in DOMAIN runs, tool \in Tools, key \in Keys, a \in 0..Len(approvals) :
        /\ \A p \in DOMAIN proposals :
             Live(p) => proposals[p].run # r \/ proposals[p].key # key
        /\ Does(u, [ at |-> "propose",
                     draft |-> Proposal(r, tool, key, Gated(r, tool), a) ])
  BY Zenon DEF Propose
<1>2. LET draft == Proposal(r, tool, key, Gated(r, tool), a)
      IN  draft.status = "proposed" /\ draft.run = r /\ draft.key = key
  BY DEF Proposal
<1>3. busy'[u].draft = Proposal(r, tool, key, Gated(r, tool), a)
  BY <1>1 DEF Does, IInv, TypeOK
<1>. QED  BY <1>1, <1>2, <1>3 DEF Live

\* What a request is about to write has not been begun.
DraftsProposed ==
  \A th \in Threads : busy[th].at = "propose" => busy[th].draft.status = "proposed"

LEMMA DraftsStay == IInv /\ DraftsProposed /\ [Next]_vars => DraftsProposed'
  BY OnlyProposeDrafts, Drafted DEF DraftsProposed

DrivenInv == IInv /\ DraftsProposed /\ ExecutingIsDriven

LEMMA DrivenStep == DrivenInv /\ [Next]_vars => DrivenInv'
<1> SUFFICES ASSUME DrivenInv, [Next]_vars, crashes' = 0,
                    NEW p \in DOMAIN proposals', proposals'[p].status = "executing"
             PROVE  \E th \in Threads : (Executing(th) /\ On(th) = p)'
  BY Stepwise, DraftsStay DEF DrivenInv, ExecutingIsDriven
<1> IInv /\ IInv'
  BY Stepwise DEF DrivenInv
<1> busy \in [Threads -> Jobs] /\ crashes \in Nat
  BY DEF IInv, TypeOK
<1>a. crashes = 0 => \A q \in DOMAIN proposals : proposals[q].status = "executing"
        => \E th \in Threads : busy[th].at \in {"tool", "record"} /\ busy[th].proposal = q
  BY DEF DrivenInv, ExecutingIsDriven, Executing, On
<1> SUFFICES \E th \in Threads : busy'[th].at \in {"tool", "record"} /\ busy'[th].proposal = p
  BY DEF Executing, On
\* Steps that leave the status, and whoever is executing.
<1>b. ASSUME crashes' = crashes, p \in DOMAIN proposals,
             proposals[p].status = "executing",
             \A th \in Threads : busy[th].at \in {"tool", "record"} /\ busy[th].proposal = p
               => busy'[th].at \in {"tool", "record"} /\ busy'[th].proposal = p
      PROVE  \E th \in Threads : busy'[th].at \in {"tool", "record"} /\ busy'[th].proposal = p
  BY <1>a, <1>b
<1>1. ASSUME NEW th \in Threads,
             \/ Propose(th) \/ Execute(th) \/ ExecuteTooLate(th) \/ ExpireWrite(th)
             \/ PrecheckFails(th) \/ Returned(th) \/ Request(th) \/ RequestWrite(th)
      PROVE  \E u \in Threads : busy'[u].at \in {"tool", "record"} /\ busy'[u].proposal = p
  <2>1. crashes' = crashes /\ proposals' = proposals
    BY <1>1 DEF Propose, Execute, ExecuteTooLate, ExpireWrite, PrecheckFails, Returned,
                Request, RequestWrite, store
  <2>2. /\ busy[th].at \notin {"tool", "record"}
        /\ \A u \in Threads \ {th} : busy'[u] = busy[u]
    BY <1>1 DEF Propose, Execute, ExecuteTooLate, ExpireWrite, PrecheckFails, Returned,
                Request, RequestWrite, At, Does
  <2>. QED  BY <1>b, <2>1, <2>2
<1>2. ASSUME NEW th \in Threads, ProposeWrite(th)
      PROVE  \E u \in Threads : busy'[u].at \in {"tool", "record"} /\ busy'[u].proposal = p
  <2>1. /\ crashes' = crashes /\ busy[th].at = "propose"
        /\ \A u \in Threads \ {th} : busy'[u] = busy[u]
    BY <1>2 DEF ProposeWrite, At, Does
  <2>2. p \in DOMAIN proposals /\ proposals'[p] = proposals[p]
    <3>1. busy[th].draft.status = "proposed"
      BY <2>1 DEF DrivenInv, DraftsProposed
    <3>. QED  BY <1>2, <3>1, ProposalAdded
  <2>. QED  BY <1>b, <2>1, <2>2
<1>3. ASSUME NEW th \in Threads, BeginTool(th)
      PROVE  \E u \in Threads : busy'[u].at \in {"tool", "record"} /\ busy'[u].proposal = p
  <2>1. crashes' = crashes /\ busy[th].at = "prechecks" /\ busy[th].at \in Begun
    BY <1>3 DEF BeginTool, At, Begun
  <2>2. /\ busy'[th].at = "tool" /\ busy'[th].proposal = On(th)
        /\ \A u \in Threads \ {th} : busy'[u] = busy[u]
    BY <1>3, <2>1, ExecuteSteps, Moved DEF On
  <2>3. CASE p = On(th)
    BY <2>2, <2>3
  <2>4. CASE p # On(th)
    <3>1. p \in DOMAIN proposals /\ proposals[p].status = "executing"
      BY <1>3, <2>1, <2>4, ExecuteSteps
    <3>. QED  BY <1>b, <2>1, <2>2, <3>1
  <2>. QED  BY <2>3, <2>4
<1>4. ASSUME NEW th \in Threads, ToolDone(th) \/ ChildSpawned(th)
      PROVE  \E u \in Threads : busy'[u].at \in {"tool", "record"} /\ busy'[u].proposal = p
  <2>1. /\ crashes' = crashes /\ proposals' = proposals /\ busy[th].at \in Begun
        /\ busy' = [busy EXCEPT ![th] = [busy[th] EXCEPT !.at = "record"]]
    BY <1>4 DEF ToolDone, ChildSpawned, Effect, Does, At, Begun
  <2>. QED  BY <1>b, <2>1, Moved
<1>5. ASSUME NEW th \in Threads, ToolFails(th) \/ EvidenceFails(th) \/ Completed(th)
      PROVE  \E u \in Threads : busy'[u].at \in {"tool", "record"} /\ busy'[u].proposal = p
  <2>1. crashes' = crashes /\ busy[th].at \in Begun
    BY <1>5 DEF ToolFails, EvidenceFails, Completed, At, Begun
  <2>2. /\ p # On(th) /\ p \in DOMAIN proposals /\ proposals[p].status = "executing"
    BY <1>5, <2>1, ExecuteSteps
  <2>3. \A u \in Threads \ {th} : busy'[u] = busy[u]
    BY <1>5, <2>1, ExecuteSteps
  <2>. QED  BY <1>b, <2>1, <2>2, <2>3 DEF On
<1>6. CASE Decide \/ SetTier \/ Lapse \/ UNCHANGED vars
  BY <1>b, <1>6 DEF Decide, SetTier, Lapse, vars, store
<1>7. CASE \E proc \in Procs : Crash(proc)
  BY <1>7 DEF Crash
<1>. QED
  BY <1>1, <1>2, <1>3, <1>4, <1>5, <1>6, <1>7
     DEF Next, ProposeStep, ExecuteStep, RequestStep

\* An action stored as executing is held by a request that is executing it, as
\* long as no process has crashed (core index.ts:6781-7250): also with accesses
\* interleaving, whatever fails.
THEOREM ExecutingIsDrivenHolds == Spec => []ExecutingIsDriven
<1>1. Init => DrivenInv
  BY Initially DEF Init, DrivenInv, DraftsProposed, Idle, ExecutingIsDriven
<1>2. DrivenInv => ExecutingIsDriven
  BY DEF DrivenInv
<1>. QED  BY <1>1, <1>2, DrivenStep, PTL DEF Spec

---------------------------------------------------------------------------
(* What one step does *)

\* A thread that waits to write keeps what it holds, and what raced stays so.
LEMMA RacedGrow ==
  ASSUME [Next]_vars
  PROVE  /\ racedActions \subseteq racedActions'
         /\ racedApprovals \subseteq racedApprovals'
         /\ racedKeys \subseteq racedKeys'
<1>1. ASSUME NEW th \in Threads, Propose(th)
      PROVE  /\ racedActions \subseteq racedActions'
             /\ racedApprovals \subseteq racedApprovals'
             /\ racedKeys \subseteq racedKeys'
  BY <1>1 DEF Propose
<1>2. ASSUME NEW th \in Threads, Execute(th)
      PROVE  /\ racedActions \subseteq racedActions'
             /\ racedApprovals \subseteq racedApprovals'
             /\ racedKeys \subseteq racedKeys'
  BY <1>2 DEF Execute
<1>3. CASE UNCHANGED raced
  BY <1>3 DEF raced
<1>. QED
  BY <1>1, <1>2, <1>3
     DEF Next, ProposeStep, ExecuteStep, RequestStep, ProposeWrite, ExecuteTooLate,
         ExpireWrite, PrecheckFails, BeginTool, ToolDone, ChildSpawned, ToolFails,
         EvidenceFails, Completed, Returned, Request, RequestWrite, Decide, SetTier,
         Lapse, Crash, vars

\* Only execute's read begins an action; what holds one moves on with it.
LEMMA OnlyExecuteBegins ==
  ASSUME IInv, [Next]_vars, NEW u \in Threads, busy'[u].at \in Begun
  PROVE  \/ Execute(u)
         \/ busy'[u] = busy[u]
         \/ BeginTool(u) \/ ToolDone(u) \/ ChildSpawned(u) \/ Completed(u)
<1>0. busy \in [Threads -> Jobs]
  BY DEF IInv, TypeOK
<1>i. busy'[u] # Idle
  BY DEF Idle, Begun
<1>1. ASSUME NEW th \in Threads, NEW job, Does(th, job), th # u PROVE busy'[u] = busy[u]
  BY <1>0, <1>1 DEF Does
<1>2. ASSUME NEW th \in Threads,
             \/ Execute(th) \/ BeginTool(th) \/ ToolDone(th) \/ ChildSpawned(th)
             \/ Completed(th), th # u
      PROVE  busy'[u] = busy[u]
  BY <1>1, <1>2, Zenon DEF Execute, BeginTool, ToolDone, ChildSpawned, Completed, Effect
<1>3. ASSUME NEW th \in Threads, Propose(th) \/ ExecuteTooLate(th) \/ Request(th)
      PROVE  busy'[u] = busy[u]
  <2>1. PICK job : job.at \notin Begun /\ busy' = [busy EXCEPT ![th] = job]
    BY <1>3 DEF Propose, ExecuteTooLate, Request, Does, Holding, Begun
  <2>. QED  BY <1>0, <2>1
<1>4. ASSUME NEW th \in Threads,
             \/ ProposeWrite(th) \/ ExpireWrite(th) \/ PrecheckFails(th) \/ Returned(th)
             \/ RequestWrite(th) \/ ToolFails(th) \/ EvidenceFails(th)
      PROVE  busy'[u] = busy[u]
  <2>1. busy' = [busy EXCEPT ![th] = Idle]
    BY <1>4 DEF ProposeWrite, ExpireWrite, PrecheckFails, Returned, RequestWrite,
                ToolFails, EvidenceFails, Does
  <2>. QED  BY <1>0, <1>i, <2>1
<1>5. CASE Decide \/ SetTier \/ Lapse \/ UNCHANGED vars
  BY <1>5 DEF Decide, SetTier, Lapse, vars
<1>6. CASE \E proc \in Procs : Crash(proc)
  BY <1>i, <1>6 DEF Crash
<1>. QED
  BY <1>2, <1>3, <1>4, <1>5, <1>6
     DEF Next, ProposeStep, ExecuteStep, RequestStep

\* The status of an action is set by who has begun it.
Sets(v) == BeginTool(v) \/ ToolFails(v) \/ EvidenceFails(v) \/ Completed(v)

LEMMA StatusBy ==
  ASSUME IInv, [Next]_vars, NEW p \in DOMAIN proposals
  PROVE  /\ p \in DOMAIN proposals'
         /\ \/ proposals'[p] = proposals[p]
            \/ \E v \in Threads : busy[v].at \in Begun /\ busy[v].proposal = p /\ Sets(v)
<1>1. ASSUME NEW th \in Threads, Sets(th)
      PROVE  /\ p \in DOMAIN proposals'
             /\ \/ proposals'[p] = proposals[p]
                \/ \E v \in Threads : /\ busy[v].at \in Begun /\ busy[v].proposal = p
                                      /\ Sets(v)
  <2>1. busy[th].at \in Begun
    BY <1>1 DEF Sets, BeginTool, ToolFails, EvidenceFails, Completed, At, Begun
  <2>. QED  BY <1>1, <2>1, ExecuteSteps DEF Sets, On
<1>2. ASSUME NEW th \in Threads, ProposeWrite(th)
      PROVE  p \in DOMAIN proposals' /\ proposals'[p] = proposals[p]
  BY <1>2, ProposalAdded
<1>3. ASSUME NEW th \in Threads,
             \/ Propose(th) \/ Execute(th) \/ ExecuteTooLate(th) \/ ExpireWrite(th)
             \/ PrecheckFails(th) \/ ToolDone(th) \/ ChildSpawned(th) \/ Returned(th)
             \/ Request(th) \/ RequestWrite(th)
      PROVE  proposals' = proposals
  BY <1>3 DEF Propose, Execute, ExecuteTooLate, ExpireWrite, PrecheckFails, ToolDone,
              ChildSpawned, Returned, Request, RequestWrite, store
<1>4. CASE Decide \/ SetTier \/ Lapse \/ UNCHANGED vars \/ \E proc \in Procs : Crash(proc)
  BY <1>4 DEF Decide, SetTier, Lapse, vars, Crash, store
<1>. QED
  BY <1>1, <1>2, <1>3, <1>4 DEF Next, ProposeStep, ExecuteStep, RequestStep, Sets

---------------------------------------------------------------------------
(* One execution *)

\* The action that execute has read: it has passed the gate, and if another
\* one waits to begin it, the two race for it.
LEMMA Began ==
  ASSUME IInv, NEW u \in Threads, Execute(u)
  PROVE  /\ busy'[u].at = "prechecks" /\ UNCHANGED <<store, racedApprovals>>
         /\ \A v \in Threads \ {u} : busy'[v] = busy[v]
         /\ busy'[u].proposal \in DOMAIN proposals /\ Runnable(busy'[u].proposal)
         /\ busy'[u].under # 0 =>
              /\ busy'[u].under \in DOMAIN approvals
              /\ approvals[busy'[u].under].for = busy'[u].proposal
         /\ \A v \in Threads :
              At(v, "prechecks") /\ busy[v].proposal = busy'[u].proposal
                => busy'[u].proposal \in racedActions'
<1>0. busy \in [Threads -> Jobs]
  BY DEF IInv, TypeOK
<1>1. PICK p \in DOMAIN proposals :
        /\ Runnable(p) /\ Checked(p)
        /\ Does(u, Holding("prechecks", p,
                           IF proposals[p].required THEN proposals[p].approval ELSE 0))
        /\ racedActions' = racedActions \cup
             { q \in {p} : \E v \in Threads : At(v, "prechecks") /\ On(v) = q }
  BY Zenon DEF Execute
<1>2. PICK job : job = Holding("prechecks", p,
                           IF proposals[p].required THEN proposals[p].approval ELSE 0)
  OBVIOUS
<1>3. /\ job.at = "prechecks" /\ job.proposal = p
      /\ job.under # 0 => proposals[p].required /\ job.under = proposals[p].approval
  BY <1>2 DEF Holding
<1>4. busy'[u] = job /\ \A v \in Threads \ {u} : busy'[v] = busy[v]
  BY <1>0, <1>1, <1>2 DEF Does
<1>5. job.under # 0 => job.under \in DOMAIN approvals /\ approvals[job.under].for = p
  <2>1. proposals[p].approval \in Nat /\ proposals[p].approval <= Len(approvals)
        /\ DOMAIN approvals = 1..Len(approvals) /\ Len(approvals) \in Nat
    BY Shapes DEF IInv, Proposals
  <2>. QED  BY <1>1, <1>3, <2>1 DEF Checked, Approved
<1>6. \A v \in Threads : At(v, "prechecks") /\ busy[v].proposal = p => p \in racedActions'
  BY <1>1 DEF On
<1>7. UNCHANGED <<store, racedApprovals>>
  BY DEF Execute
<1>. QED  BY <1>1, <1>3, <1>4, <1>5, <1>6, <1>7

\* The status of an action is what the one that has begun it has made of it.
Status(job) ==
  job.at \in Begun /\ job.proposal \notin racedActions =>
    /\ job.at = "prechecks" =>
         proposals[job.proposal].status \notin {"completed", "executing"}
    /\ job.at \in {"tool", "record"} => proposals[job.proposal].status = "executing"
    /\ job.at = "event" => proposals[job.proposal].status = "completed"

Alone ==
  \A th, u \in Threads :
    /\ busy[th].at \in Begun /\ busy[u].at \in Begun
    /\ busy[th].proposal = busy[u].proposal
    => th = u \/ busy[th].proposal \in racedActions

ExecInv == IInv /\ Alone /\ \A th \in Threads : Status(busy[th])

\* What becomes of a thread that has begun an action already.
LEMMA MovesOn ==
  ASSUME IInv, [Next]_vars, NEW u \in Threads, busy'[u].at \in Begun, ~Execute(u)
  PROVE  /\ busy[u].at \in Begun
         /\ busy'[u].proposal = busy[u].proposal /\ busy'[u].under = busy[u].under
<1>1. CASE busy'[u] = busy[u]
  BY <1>1
<1>2. CASE BeginTool(u) \/ ToolDone(u) \/ ChildSpawned(u) \/ Completed(u)
  <2>1. /\ busy[u].at \in Begun
        /\ \E at \in {"tool", "record", "event"} :
             busy' = [busy EXCEPT ![u] = [busy[u] EXCEPT !.at = at]]
    BY <1>2 DEF BeginTool, ToolDone, ChildSpawned, Completed, Effect, Does, At, Begun
  <2>. QED  BY <2>1, Moved
<1>. QED  BY <1>1, <1>2, OnlyExecuteBegins

LEMMA AloneStays == ExecInv /\ [Next]_vars => Alone'
<1> SUFFICES ASSUME ExecInv, [Next]_vars, NEW th \in Threads, NEW u \in Threads,
                    busy'[th].at \in Begun, busy'[u].at \in Begun,
                    busy'[th].proposal = busy'[u].proposal, th # u
             PROVE  busy'[th].proposal \in racedActions'
  BY DEF Alone
<1> IInv
  BY DEF ExecInv
<1>1. ASSUME NEW v \in Threads, NEW w \in Threads, v # w, Execute(v),
             busy'[w].at \in Begun, busy'[w].proposal = busy'[v].proposal
      PROVE  busy'[v].proposal \in racedActions'
  <2> DEFINE p == busy'[v].proposal
  <2>1. busy[w].at \in Begun /\ busy[w].proposal = p
    BY <1>1, Began
  <2>2. CASE busy[w].at = "prechecks"
    BY <1>1, <2>1, <2>2, Began DEF At
  <2>3. CASE busy[w].at # "prechecks"
    <3>1. proposals[p].status \notin {"completed", "executing"}
      BY <1>1, Began DEF Runnable
    <3>2. p \in racedActions
      BY <2>1, <2>3, <3>1 DEF ExecInv, Status, Begun
    <3>. QED  BY <3>2, RacedGrow
  <2>. QED  BY <2>2, <2>3
<1>2. CASE Execute(th) \/ Execute(u)
  BY <1>1, <1>2
<1>3. CASE ~Execute(th) /\ ~Execute(u)
  <2>1. busy[th].proposal \in racedActions /\ busy'[th].proposal = busy[th].proposal
    BY <1>3, MovesOn DEF ExecInv, Alone
  <2>. QED  BY <2>1, RacedGrow
<1>. QED  BY <1>2, <1>3

LEMMA StatusStays == ExecInv /\ [Next]_vars => \A th \in Threads : Status(busy[th])'
<1> SUFFICES ASSUME ExecInv, [Next]_vars, NEW u \in Threads,
                    busy'[u].at \in Begun, busy'[u].proposal \notin racedActions'
             PROVE  Status(busy[u])'
  BY DEF Status
<1> IInv
  BY DEF ExecInv
<1>r. busy'[u].proposal \notin racedActions
  BY RacedGrow
<1>1. CASE Execute(u)
  BY <1>1, Began DEF Status, Runnable, store, Begun
<1>2. CASE ~Execute(u)
  <2>1. busy[u].at \in Begun /\ busy'[u].proposal = busy[u].proposal
    BY <1>2, MovesOn
  <2>2. busy[u].proposal \in DOMAIN proposals
    BY <2>1, JobShape DEF On
  <2>3. Status(busy[u])
    BY DEF ExecInv
  <2>4. CASE BeginTool(u) \/ Completed(u)
    <3>1. CASE BeginTool(u)
      <4>1. busy'[u].at = "tool" /\ proposals'[busy[u].proposal].status = "executing"
        BY <2>1, <3>1, ExecuteSteps, Moved DEF On
      <4>. QED  BY <2>1, <4>1 DEF Status
    <3>2. CASE Completed(u)
      <4>1. busy'[u].at = "event" /\ proposals'[busy[u].proposal].status = "completed"
        BY <2>1, <3>2, ExecuteSteps, Moved DEF On
      <4>. QED  BY <2>1, <4>1 DEF Status
    <3>. QED  BY <2>4, <3>1, <3>2
  <2>5. CASE ToolDone(u) \/ ChildSpawned(u)
    <3>1. /\ busy[u].at = "tool" /\ proposals' = proposals
          /\ busy' = [busy EXCEPT ![u] = [busy[u] EXCEPT !.at = "record"]]
      BY <2>5 DEF ToolDone, ChildSpawned, Effect, Does, At
    <3>2. busy'[u].at = "record"
      BY <2>1, <3>1, Moved
    <3>. QED  BY <1>r, <2>1, <2>3, <3>1, <3>2 DEF Status
  <2>6. CASE /\ busy'[u] = busy[u]
             /\ ~(BeginTool(u) \/ Completed(u) \/ ToolDone(u) \/ ChildSpawned(u))
    <3>1. ASSUME NEW v \in Threads, busy[v].at \in Begun,
                 busy[v].proposal = busy[u].proposal, Sets(v)
          PROVE  FALSE
      <4>1. v = u
        BY <1>r, <2>1, <3>1 DEF ExecInv, Alone
      <4>2. busy'[u] = Idle
        BY <2>6, <3>1, <4>1, ExecuteSteps DEF Sets, IInv, TypeOK
      <4>. QED  BY <4>2 DEF Idle, Begun
    <3>2. proposals'[busy[u].proposal] = proposals[busy[u].proposal]
      BY <2>2, <3>1, StatusBy
    <3>. QED  BY <1>r, <2>1, <2>3, <2>6, <3>2 DEF Status
  <2>. QED  BY <1>2, <2>4, <2>5, <2>6, OnlyExecuteBegins
<1>. QED  BY <1>1, <1>2

LEMMA ExecStep == ExecInv /\ [Next]_vars => ExecInv'
  BY Stepwise, AloneStays, StatusStays DEF ExecInv

LEMMA ExecInit == Init => ExecInv
  BY Initially DEF Init, Idle, ExecInv, Alone, Status, Begun

\* One request at a time executes an action (core index.ts:6781-7250), for any
\* number of requests and processes and with tools that take any time, unless
\* two execute calls had read it before either wrote that it is executing.
THEOREM OneExecutionHolds == Spec => []OneExecution
<1>1. ExecInv => OneExecution
  BY DEF ExecInv, Alone, OneExecution, Executing, On, Begun
<1>. QED  BY <1>1, ExecInit, ExecStep, PTL DEF Spec

\* An action that is stored as completed is not begun again, with the same
\* exception: a request that is about to begin one that did not race has read
\* the status it still has.
THEOREM CompletedNotBegunHolds == Spec => CompletedNotBegun
<1> DEFINE Stays == \A p \in DOMAIN proposals \ racedActions :
                      proposals[p].status = "completed" => proposals'[p].status # "executing"
<1>1. ExecInv /\ [Next]_vars => [Stays]_vars
  <2> SUFFICES ASSUME ExecInv, Next, NEW p \in DOMAIN proposals \ racedActions,
                      proposals[p].status = "completed", proposals'[p].status = "executing"
               PROVE  FALSE
    OBVIOUS
  <2>0. IInv
    BY DEF ExecInv
  <2>1. PICK v \in Threads : busy[v].at \in Begun /\ busy[v].proposal = p /\ Sets(v)
    BY <2>0, StatusBy
  <2>2. BeginTool(v)
    BY <2>0, <2>1, ExecuteSteps DEF Sets, On
  <2>3. Status(busy[v]) /\ busy[v].at = "prechecks"
    BY <2>2 DEF ExecInv, BeginTool, At
  <2>. QED  BY <2>1, <2>3 DEF Status
<1>. QED  BY <1>1, ExecInit, ExecStep, PTL DEF Spec, CompletedNotBegun

---------------------------------------------------------------------------
(* One act per approval *)

\* What createProposal has read: a free key, and an approval that is bound to
\* nothing; if another one is about to write the same, the two race for it.
LEMMA Read ==
  ASSUME IInv, NEW u \in Threads, Propose(u)
  PROVE  LET draft == busy'[u].draft IN
         /\ UNCHANGED store
         /\ \A v \in Threads \ {u} : busy'[v] = busy[v]
         /\ draft.approval # 0 => approvals[draft.approval].for = 0
         /\ \A v \in Threads : At(v, "propose") =>
              /\ draft.approval # 0 /\ busy[v].draft.approval = draft.approval
                   => draft.approval \in racedApprovals'
              /\ KeyOf(busy[v].draft) = KeyOf(draft) => KeyOf(draft) \in racedKeys'
<1>1. PICK r \in DOMAIN runs, tool \in Tools, key \in Keys, a \in 0..Len(approvals) :
        /\ Bindable(a)
        /\ Does(u, [ at |-> "propose",
                     draft |-> Proposal(r, tool, key, Gated(r, tool), a) ])
        /\ racedApprovals' = racedApprovals \cup
             { b \in {a} \ {0} : \E v \in Drafting : busy[v].draft.approval = b }
        /\ racedKeys' = racedKeys \cup
             { k \in {<<r, key>>} : \E v \in Drafting : KeyOf(busy[v].draft) = k }
  BY Zenon DEF Propose
<1>2. PICK draft : draft = Proposal(r, tool, key, Gated(r, tool), a)
  OBVIOUS
<1>3. draft.approval = a /\ KeyOf(draft) = <<r, key>>
  BY <1>2 DEF Proposal, KeyOf
<1>4. busy'[u].draft = draft /\ \A v \in Threads \ {u} : busy'[v] = busy[v]
  BY <1>1, <1>2 DEF Does, IInv, TypeOK
<1>5. a # 0 => approvals[a].for = 0
  BY <1>1 DEF Bindable
<1>6. ASSUME NEW v \in Threads, At(v, "propose")
      PROVE  /\ a # 0 /\ busy[v].draft.approval = a => a \in racedApprovals'
             /\ KeyOf(busy[v].draft) = <<r, key>> => <<r, key>> \in racedKeys'
  BY <1>1, <1>6 DEF Drafting
<1>7. UNCHANGED store
  BY DEF Propose
<1>. QED  BY <1>3, <1>4, <1>5, <1>6, <1>7

\* An approval stays bound to what it is bound to.
BindingsKept ==
  \A a \in DOMAIN approvals :
    a \in DOMAIN approvals' /\ approvals'[a].for = approvals[a].for

LEMMA ForSet ==
  ASSUME IInv, NEW a \in DOMAIN approvals, NEW status, NEW life,
         \/ approvals' = [approvals EXCEPT ![a].status = status]
         \/ approvals' = [approvals EXCEPT ![a].life = life]
  PROVE  BindingsKept
<1>1. approvals[a] \in Approvals
  BY Shapes DEF IInv
<1>2. /\ [approvals[a] EXCEPT !.status = status].for = approvals[a].for
      /\ [approvals[a] EXCEPT !.life = life].for = approvals[a].for
  BY <1>1 DEF Approvals
<1>. QED  BY <1>2 DEF BindingsKept, IInv, TypeOK

LEMMA BindingsGrow ==
  ASSUME IInv, NEW run \in Nat, NEW p \in Nat, NEW life \in {"open", "running"},
         NEW rank \in Nat, approvals' = Append(approvals, Pending(run, p, life, rank))
  PROVE  BindingsKept
<1>1. Pending(run, p, life, rank) \in Approvals
  BY DEF Pending, Approvals, ApprovalStatus
<1>. QED  BY <1>1, NewApproval DEF BindingsKept

\* Only createProposal's write binds one that was there.
LEMMA OnlyProposeBinds ==
  ASSUME IInv, [Next]_vars, \A th \in Threads : ~ProposeWrite(th)
  PROVE  BindingsKept
<1>1. CASE UNCHANGED approvals
  BY <1>1 DEF BindingsKept
<1>2. ASSUME NEW th \in Threads, ExpireWrite(th) PROVE BindingsKept
  <2>1. /\ Under(th) \in DOMAIN approvals
        /\ approvals' = [approvals EXCEPT ![Under(th)].status = "expired"]
    BY <1>2, JobShape DEF ExpireWrite
  <2>. QED  BY <2>1, ForSet
<1>3. ASSUME NEW th \in Threads, RequestWrite(th) PROVE BindingsKept
  <2>1. PICK rank \in Nat :
          approvals' = Append(approvals, Pending(busy[th].run, 0, "open", rank))
    BY <1>3, RanksAreNumbers DEF RequestWrite
  <2>2. busy[th].run \in Nat
    BY <1>3, JobShape, LenProperties DEF RequestWrite, IInv, TypeOK
  <2>. QED  BY <2>1, <2>2, BindingsGrow
<1>4. ASSUME NEW th \in Threads, ChildSpawned(th) PROVE BindingsKept
  <2>1. ASSUME Room, NEW rank \in NewRanks,
               approvals' = Append(approvals, Pending(Len(runs) + 1, 0, "open", rank))
        PROVE  BindingsKept
    <3>1. Len(runs) + 1 \in Nat /\ rank \in Nat
      BY <2>1, LenProperties, RanksAreNumbers DEF IInv, TypeOK
    <3>. QED  BY <2>1, <3>1, BindingsGrow
  <2>. QED  BY <1>1, <1>4, <2>1 DEF ChildSpawned
<1>5. CASE Decide \/ Lapse
  <2>1. PICK a \in DOMAIN approvals : \E new :
          \/ approvals' = [approvals EXCEPT ![a].status = new]
          \/ approvals' = [approvals EXCEPT ![a].life = new]
    BY <1>5 DEF Decide, Lapse
  <2>. QED  BY <2>1, ForSet
<1>. QED
  BY <1>1, <1>2, <1>3, <1>4, <1>5
     DEF Next, ProposeStep, ExecuteStep, RequestStep, Propose, Execute, ExecuteTooLate,
         PrecheckFails, BeginTool, ToolDone, ToolFails, EvidenceFails, Completed,
         Returned, Request, SetTier, Crash, vars, store

\* That write binds the approval it has read, and no other.
LEMMA Binds ==
  ASSUME IInv, NEW th \in Threads, ProposeWrite(th), NEW a \in DOMAIN approvals
  PROVE  /\ a \in DOMAIN approvals'
         /\ approvals'[a].for = approvals[a].for \/ a = busy[th].draft.approval
<1> DEFINE draft == busy[th].draft
           p == Len(proposals) + 1
<1>1. /\ draft.run \in Nat /\ p \in Nat
      /\ draft.approval \in Nat /\ draft.approval <= Len(approvals)
      /\ DOMAIN approvals = 1..Len(approvals) /\ Len(approvals) \in Nat
  <2>1. draft \in Proposals /\ draft.approval <= Len(approvals)
    BY JobShape DEF ProposeWrite
  <2>. QED  BY <2>1, Shapes DEF Proposals, IInv
<1>2. ASSUME Room, NEW rank \in NewRanks,
             approvals' = Append(approvals, Pending(draft.run, p, "running", rank))
      PROVE  BindingsKept
  <2>1. rank \in Nat
    BY <1>2, RanksAreNumbers
  <2> HIDE DEF draft, p
  <2>. QED  BY <1>1, <1>2, <2>1, BindingsGrow
<1>3. ASSUME draft.approval # 0,
             approvals' = [approvals EXCEPT ![draft.approval] = Bind(@, p)]
      PROVE  a \in DOMAIN approvals' /\ (approvals'[a] = approvals[a] \/ a = draft.approval)
  BY <1>1, <1>3
<1>. QED  BY <1>2, <1>3 DEF ProposeWrite, BindingsKept

\* An effect is had under what its action was read with.
LEMMA EffectBy ==
  ASSUME IInv, [Next]_vars, NEW e \in effects' \ effects
  PROVE  \E v \in Threads : /\ busy[v].at \in Begun
                            /\ e.proposal = busy[v].proposal /\ e.under = busy[v].under
<1>1. ASSUME NEW th \in Threads, ToolDone(th) \/ ChildSpawned(th)
      PROVE  /\ busy[th].at \in Begun
             /\ e.proposal = busy[th].proposal /\ e.under = busy[th].under
  <2>1. /\ busy[th].at \in Begun
        /\ e = [proposal |-> On(th), under |-> Under(th)]
    BY <1>1 DEF ToolDone, ChildSpawned, Effect, At, Begun
  <2>. QED  BY <2>1 DEF On, Under
<1>. QED
  BY <1>1
     DEF Next, ProposeStep, ExecuteStep, RequestStep, Propose, ProposeWrite, Execute,
         ExecuteTooLate, ExpireWrite, PrecheckFails, BeginTool, ToolFails, EvidenceFails,
         Completed, Returned, Request, RequestWrite, Decide, SetTier, Lapse, Crash, vars,
         store

\* Of the approvals that no two requests race for: one request is about to
\* bind it, and it is free; what is done under it is what it is bound to.
OneBinds ==
  \A th, u \in Threads :
    /\ busy[th].at = "propose" /\ busy[u].at = "propose"
    /\ busy[th].draft.approval = busy[u].draft.approval
    => th = u \/ busy[th].draft.approval \in racedApprovals \cup {0}

Free(job) ==
  job.at = "propose" /\ job.draft.approval \notin racedApprovals \cup {0} =>
    approvals[job.draft.approval].for = 0

BoundTo(a, p) ==
  a # 0 => /\ a \in DOMAIN approvals
           /\ a \notin racedApprovals => approvals[a].for = p

BindInv ==
  /\ IInv /\ OneBinds
  /\ \A th \in Threads : Free(busy[th])
  /\ \A th \in Threads : busy[th].at \in Begun => BoundTo(busy[th].under, busy[th].proposal)
  /\ \A e \in effects : BoundTo(e.under, e.proposal)

LEMMA OneBindsStays == BindInv /\ [Next]_vars => OneBinds'
<1> SUFFICES ASSUME BindInv, [Next]_vars, NEW th \in Threads, NEW u \in Threads,
                    busy'[th].at = "propose", busy'[u].at = "propose", th # u,
                    busy'[th].draft.approval = busy'[u].draft.approval,
                    busy'[th].draft.approval # 0
             PROVE  busy'[th].draft.approval \in racedApprovals'
  BY DEF OneBinds
<1> IInv
  BY DEF BindInv
<1>1. CASE busy'[th] = busy[th] /\ busy'[u] = busy[u]
  BY <1>1, RacedGrow DEF BindInv, OneBinds
<1>2. CASE Propose(th)
  BY <1>2, Read DEF At
<1>3. CASE Propose(u)
  BY <1>3, Read DEF At
<1>. QED  BY <1>1, <1>2, <1>3, OnlyProposeDrafts

LEMMA FreeStays == BindInv /\ [Next]_vars => \A th \in Threads : Free(busy[th])'
<1> SUFFICES ASSUME BindInv, [Next]_vars, NEW u \in Threads, busy'[u].at = "propose",
                    busy'[u].draft.approval # 0,
                    busy'[u].draft.approval \notin racedApprovals'
             PROVE  approvals'[busy'[u].draft.approval].for = 0
  BY DEF Free
<1> IInv
  BY DEF BindInv
<1>1. CASE Propose(u)
  BY <1>1, Read DEF store
<1>2. CASE busy'[u] = busy[u]
  <2> DEFINE a == busy[u].draft.approval
  <2>1. a \notin racedApprovals /\ a # 0 /\ busy[u].at = "propose"
    BY <1>2, RacedGrow
  <2>2. approvals[a].for = 0
    BY <2>1 DEF BindInv, Free
  <2>3. a \in DOMAIN approvals
    <3>1. busy[u].draft \in Proposals /\ a <= Len(approvals)
      BY <2>1, JobShape DEF At
    <3>. QED  BY <2>1, <3>1, Shapes DEF Proposals, IInv
  <2>4. ASSUME NEW th \in Threads, ProposeWrite(th), busy[th].draft.approval = a
        PROVE  FALSE
    <3>1. busy[th].at = "propose" /\ busy' = [busy EXCEPT ![th] = Idle]
      BY <2>4 DEF ProposeWrite, At, Does
    <3>2. th = u
      BY <2>1, <2>4, <3>1 DEF BindInv, OneBinds
    <3>3. busy'[u] = Idle
      BY <3>1, <3>2 DEF IInv, TypeOK
    <3>. QED  BY <3>3 DEF Idle
  <2>5. approvals'[a].for = approvals[a].for
    BY <2>3, <2>4, Binds, OnlyProposeBinds DEF BindingsKept
  <2>. QED  BY <1>2, <2>2, <2>5
<1>. QED  BY <1>1, <1>2, OnlyProposeDrafts

\* What is bound stays so: the approval is not free, and who is about to bind
\* one that does not race has found it free.
LEMMA BoundStays ==
  ASSUME BindInv, [Next]_vars, NEW a, NEW p \in Nat \ {0}, BoundTo(a, p)
  PROVE  BoundTo(a, p)'
<1> SUFFICES ASSUME a # 0, a \in DOMAIN approvals
             PROVE  /\ a \in DOMAIN approvals'
                    /\ a \notin racedApprovals' => approvals'[a].for = p
  BY DEF BoundTo
<1> IInv
  BY DEF BindInv
<1>1. CASE \A th \in Threads : ~ProposeWrite(th)
  BY <1>1, OnlyProposeBinds, RacedGrow DEF BindingsKept, BoundTo
<1>2. ASSUME NEW th \in Threads, ProposeWrite(th)
      PROVE  /\ a \in DOMAIN approvals'
             /\ a \notin racedApprovals' => approvals'[a].for = p
  <2>1. ASSUME a \notin racedApprovals', a = busy[th].draft.approval PROVE FALSE
    <3>1. a \notin racedApprovals /\ busy[th].at = "propose"
      BY <1>2, <2>1, RacedGrow DEF ProposeWrite, At
    <3>2. approvals[a].for = 0 /\ approvals[a].for = p
      BY <2>1, <3>1 DEF BindInv, Free, BoundTo
    <3>. QED  BY <3>2
  <2>. QED  BY <1>2, <2>1, Binds, RacedGrow DEF BoundTo
<1>. QED  BY <1>1, <1>2

LEMMA BindStep == BindInv /\ [Next]_vars => BindInv'
<1> SUFFICES ASSUME BindInv, [Next]_vars PROVE BindInv'
  OBVIOUS
<1> IInv
  BY DEF BindInv
<1>1. IInv' /\ OneBinds' /\ \A th \in Threads : Free(busy[th])'
  BY Stepwise, OneBindsStays, FreeStays
<1>2. ASSUME NEW v \in Threads, busy[v].at \in Begun
      PROVE  BoundTo(busy[v].under, busy[v].proposal)
             /\ busy[v].proposal \in Nat \ {0}
  BY <1>2, JobShape, Shapes DEF BindInv, IInv, On
<1>3. ASSUME NEW u \in Threads, busy'[u].at \in Begun
      PROVE  BoundTo(busy[u].under, busy[u].proposal)'
  <2>1. CASE Execute(u)
    BY <2>1, Began DEF BoundTo, store
  <2>2. CASE ~Execute(u)
    <3>1. /\ busy[u].at \in Begun
          /\ busy'[u].proposal = busy[u].proposal /\ busy'[u].under = busy[u].under
      BY <1>3, <2>2, MovesOn
    <3>2. PICK a, p : a = busy[u].under /\ p = busy[u].proposal
      OBVIOUS
    <3>3. BoundTo(a, p)'
      BY <1>2, <3>1, <3>2, BoundStays
    <3>. QED  BY <3>1, <3>2, <3>3 DEF BoundTo
  <2>. QED  BY <2>1, <2>2
<1>4. ASSUME NEW e \in effects' PROVE BoundTo(e.under, e.proposal)'
  <2>1. BoundTo(e.under, e.proposal) /\ e.proposal \in Nat \ {0}
    <3>1. CASE e \in effects
      BY <3>1, Shapes DEF BindInv, IInv, StoreInv
    <3>2. CASE e \notin effects
      BY <1>2, <3>2, EffectBy
    <3>. QED  BY <3>1, <3>2
  <2>. QED  BY <2>1, BoundStays
<1>. QED  BY <1>1, <1>3, <1>4 DEF BindInv

\* Whatever is executed under an approval is the action the approval is bound
\* to, so one approval covers one action (core index.ts:6495-6778, 6781-7250),
\* however requests interleave: unless two createProposal had read it unbound
\* before either wrote.
THEOREM OneActPerApprovalHolds == Spec => []OneActPerApproval
<1>1. Init => BindInv
  BY Initially DEF Init, Idle, BindInv, OneBinds, Free, Begun
<1>2. BindInv => OneActPerApproval
  BY DEF BindInv, BoundTo, OneActPerApproval
<1>. QED  BY <1>1, <1>2, BindStep, PTL DEF Spec

---------------------------------------------------------------------------
(* One waits per key *)

\* No action enters the store as proposed but a new one, and none returns there.
LEMMA NoneReturns ==
  ASSUME IInv, [Next]_vars, \A th \in Threads : ~ProposeWrite(th)
  PROVE  /\ DOMAIN proposals' = DOMAIN proposals
         /\ \A p \in DOMAIN proposals :
              proposals'[p].status = "proposed" => proposals'[p] = proposals[p]
<1>1. ASSUME NEW th \in Threads,
             BeginTool(th) \/ ToolFails(th) \/ EvidenceFails(th) \/ Completed(th)
      PROVE  /\ DOMAIN proposals' = DOMAIN proposals
             /\ \A p \in DOMAIN proposals :
                  proposals'[p].status = "proposed" => proposals'[p] = proposals[p]
  <2>1. busy[th].at \in Begun
    BY <1>1 DEF BeginTool, ToolFails, EvidenceFails, Completed, At, Begun
  <2>. QED  BY <1>1, <2>1, ExecuteSteps
<1>2. ASSUME NEW th \in Threads,
             \/ Propose(th) \/ Execute(th) \/ ExecuteTooLate(th) \/ ExpireWrite(th)
             \/ PrecheckFails(th) \/ ToolDone(th) \/ ChildSpawned(th) \/ Returned(th)
             \/ Request(th) \/ RequestWrite(th)
      PROVE  proposals' = proposals
  BY <1>2 DEF Propose, Execute, ExecuteTooLate, ExpireWrite, PrecheckFails, ToolDone,
              ChildSpawned, Returned, Request, RequestWrite, store
<1>3. CASE Decide \/ SetTier \/ Lapse \/ UNCHANGED vars \/ \E proc \in Procs : Crash(proc)
  BY <1>3 DEF Decide, SetTier, Lapse, vars, Crash, store
<1>. QED
  BY <1>1, <1>2, <1>3 DEF Next, ProposeStep, ExecuteStep, RequestStep

\* Of the keys that no two requests race for: one request is about to write an
\* action with it, and no action that waits has it.
OneWrites ==
  \A th, u \in Threads :
    /\ busy[th].at = "propose" /\ busy[u].at = "propose"
    /\ KeyOf(busy[th].draft) = KeyOf(busy[u].draft)
    => th = u \/ KeyOf(busy[th].draft) \in racedKeys

KeyFree(job) ==
  job.at = "propose" /\ KeyOf(job.draft) \notin racedKeys =>
    \A p \in DOMAIN proposals :
      proposals[p].status = "proposed" => KeyOf(proposals[p]) # KeyOf(job.draft)

WaitInv == IInv /\ OneWaitsPerKey /\ OneWrites /\ \A th \in Threads : KeyFree(busy[th])

LEMMA OneWritesStays == WaitInv /\ [Next]_vars => OneWrites'
<1> SUFFICES ASSUME WaitInv, [Next]_vars, NEW th \in Threads, NEW u \in Threads,
                    busy'[th].at = "propose", busy'[u].at = "propose", th # u,
                    KeyOf(busy'[th].draft) = KeyOf(busy'[u].draft)
             PROVE  KeyOf(busy'[th].draft) \in racedKeys'
  BY DEF OneWrites, KeyOf
<1> IInv
  BY DEF WaitInv
<1>1. CASE busy'[th] = busy[th] /\ busy'[u] = busy[u]
  BY <1>1, RacedGrow DEF WaitInv, OneWrites
<1>2. CASE Propose(th)
  BY <1>2, Read DEF At
<1>3. CASE Propose(u)
  BY <1>3, Read DEF At
<1>. QED  BY <1>1, <1>2, <1>3, OnlyProposeDrafts

LEMMA WaitStep == WaitInv /\ [Next]_vars => WaitInv'
<1> SUFFICES ASSUME WaitInv, [Next]_vars
             PROVE  OneWaitsPerKey' /\ \A th \in Threads : KeyFree(busy[th])'
  BY Stepwise, OneWritesStays DEF WaitInv
<1>0. IInv /\ busy \in [Threads -> Jobs]
  BY DEF WaitInv, IInv, TypeOK
\* The proposals that wait, and the keys requests are about to write.
<1>1. ASSUME NEW u \in Threads, busy'[u].at = "propose",
             KeyOf(busy'[u].draft) \notin racedKeys',
             NEW p \in DOMAIN proposals, proposals[p].status = "proposed"
      PROVE  KeyOf(proposals[p]) # KeyOf(busy'[u].draft)
  <2>1. CASE Propose(u)
    BY <1>0, <1>1, <2>1, Drafted DEF KeyOf
  <2>2. CASE busy'[u] = busy[u]
    BY <1>1, <2>2, RacedGrow DEF WaitInv, KeyFree
  <2>. QED  BY <1>0, <1>1, <2>1, <2>2, OnlyProposeDrafts
<1>2. ASSUME NEW th \in Threads, ProposeWrite(th)
      PROVE  OneWaitsPerKey' /\ \A u \in Threads : KeyFree(busy[u])'
  <2>1. /\ busy[th].at = "propose"
        /\ busy'[th] = Idle /\ \A u \in Threads \ {th} : busy'[u] = busy[u]
    BY <1>0, <1>2 DEF ProposeWrite, At, Does
  <2>2. /\ \A p \in DOMAIN proposals : p \in DOMAIN proposals' /\ proposals'[p] = proposals[p]
        /\ \A p \in DOMAIN proposals' \ DOMAIN proposals :
             /\ KeyOf(proposals'[p]) = KeyOf(busy[th].draft)
             /\ \A q \in DOMAIN proposals' \ DOMAIN proposals : p = q
    BY <1>0, <1>2, ProposalAdded DEF KeyOf
  <2>3. ASSUME NEW p \in DOMAIN proposals, proposals[p].status = "proposed",
               KeyOf(proposals[p]) = KeyOf(busy[th].draft)
        PROVE  KeyOf(proposals[p]) \in racedKeys'
    BY <2>1, <2>3, RacedGrow DEF WaitInv, KeyFree
  <2>4. OneWaitsPerKey'
    <3> SUFFICES ASSUME NEW p \in DOMAIN proposals', NEW q \in DOMAIN proposals',
                        proposals'[p].status = "proposed", proposals'[q].status = "proposed",
                        KeyOf(proposals'[p]) = KeyOf(proposals'[q]),
                        KeyOf(proposals'[p]) \notin racedKeys'
                 PROVE  p = q
      BY DEF OneWaitsPerKey, KeyOf
    <3>1. CASE p \in DOMAIN proposals /\ q \in DOMAIN proposals
      BY <2>2, <3>1, RacedGrow DEF WaitInv, OneWaitsPerKey
    <3>2. CASE p \notin DOMAIN proposals \/ q \notin DOMAIN proposals
      BY <2>2, <2>3, <3>2
    <3>. QED  BY <3>1, <3>2
  <2>5. ASSUME NEW u \in Threads, busy'[u].at = "propose",
               KeyOf(busy'[u].draft) \notin racedKeys',
               NEW p \in DOMAIN proposals', proposals'[p].status = "proposed"
        PROVE  KeyOf(proposals'[p]) # KeyOf(busy'[u].draft)
    <3>1. CASE p \in DOMAIN proposals
      BY <1>1, <2>2, <2>5, <3>1
    <3>2. CASE p \notin DOMAIN proposals
      <4>1. u # th /\ busy[u].at = "propose" /\ busy'[u] = busy[u]
        BY <2>1, <2>5 DEF Idle
      <4>2. KeyOf(busy[u].draft) \notin racedKeys
        BY <2>5, <4>1, RacedGrow
      <4>3. KeyOf(busy[th].draft) # KeyOf(busy[u].draft)
        BY <2>1, <4>1, <4>2 DEF WaitInv, OneWrites
      <4>. QED  BY <2>2, <3>2, <4>1, <4>3
    <3>. QED  BY <3>1, <3>2
  <2>. QED  BY <2>4, <2>5 DEF KeyFree, KeyOf
<1>3. ASSUME \A th \in Threads : ~ProposeWrite(th)
      PROVE  OneWaitsPerKey' /\ \A u \in Threads : KeyFree(busy[u])'
  <2>1. /\ DOMAIN proposals' = DOMAIN proposals
        /\ \A p \in DOMAIN proposals :
             proposals'[p].status = "proposed" => proposals'[p] = proposals[p]
    BY <1>0, <1>3, NoneReturns
  <2>2. OneWaitsPerKey'
    <3> SUFFICES ASSUME NEW p \in DOMAIN proposals, NEW q \in DOMAIN proposals,
                        proposals'[p].status = "proposed", proposals'[q].status = "proposed",
                        KeyOf(proposals'[p]) = KeyOf(proposals'[q]),
                        KeyOf(proposals'[p]) \notin racedKeys'
                 PROVE  p = q
      BY <2>1 DEF OneWaitsPerKey, KeyOf
    <3>. QED  BY <2>1, RacedGrow DEF WaitInv, OneWaitsPerKey
  <2>3. ASSUME NEW u \in Threads, busy'[u].at = "propose",
               KeyOf(busy'[u].draft) \notin racedKeys',
               NEW p \in DOMAIN proposals', proposals'[p].status = "proposed"
        PROVE  KeyOf(proposals'[p]) # KeyOf(busy'[u].draft)
    BY <1>1, <2>1, <2>3
  <2>. QED  BY <2>2, <2>3 DEF KeyFree, KeyOf
<1>. QED  BY <1>2, <1>3

\* A run never has two actions with one idempotency key waiting to be executed
\* (core index.ts:6617-6684), however requests interleave: unless two
\* createProposal had looked for the key before either wrote, one that found it
\* free finds it free when it writes.
THEOREM OneWaitsPerKeyHolds == Spec => []OneWaitsPerKey
<1>1. Init => WaitInv
  BY Initially DEF Init, WaitInv, OneWaitsPerKey, OneWrites, KeyFree, Idle
<1>2. WaitInv => OneWaitsPerKey
  BY DEF WaitInv
<1>. QED  BY <1>1, <1>2, WaitStep, PTL DEF Spec
=============================================================================
