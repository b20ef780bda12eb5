---------------------------- MODULE MC_Governed ----------------------------
(***************************************************************************)
(* A behaviour is one of two instances, chosen in its first state: of a    *)
(* chair that delegates and files corrections, as the tools of the         *)
(* configuration say; or of an ordinary class C and an ordinary class B    *)
(* tool, in which what two requests read at a time is told apart.          *)
(***************************************************************************)
EXTENDS MC_ActionGovernance

VARIABLE part

Plainly == INSTANCE ActionGovernance WITH
    Tools <- {"deploy", "write_file"}, OrgTiers <- {"advisor"},
    Env <- {"decide", "lapse", "tool_error", "late_error", "crash"},
    MaxApprovals <- 1, MaxRuns <- 1

mcVars == <<vars, part>>

\* What the actions of a part and the properties it is for read: states that
\* differ in nothing else are one state.
View == IF part = "delegating" THEN <<part, store, busy, crashes>>
        ELSE <<part, runs, tier, approvals, proposals, effects, busy, crashes, raced>>

McInit == part \in {"delegating", "plain"} /\ Init

McNext ==
    \/ part = "delegating" /\ Next /\ UNCHANGED part
    \/ part = "plain" /\ Plainly!Next /\ UNCHANGED part

McSpec == McInit /\ [][McNext]_mcVars
============================================================================
