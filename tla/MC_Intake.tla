------------------------------ MODULE MC_Intake ------------------------------
(***************************************************************************)
(* A behaviour is one of two instances, chosen in its first state: of a    *)
(* session in which one handler is under way at a time, with threads,      *)
(* plans and reruns; or of one in which all handlers interleave, with less *)
(* around the questions and their answers.                                 *)
(***************************************************************************)
EXTENDS Intake, TLC

CONSTANTS m1, m2, m3

VARIABLE part

Crossed == INSTANCE Intake WITH Overlap <- TRUE, MaxThreads <- 1, MaxPlans <- 0

mcVars == <<vars, part>>

\* The messages differ in nothing but when they are posted.
Symmetry == Permutations(Msgs)

\* The status of the session is kept in threads and handlers, and nothing of the
\* requests, questions and runs depends on it.
View == IF part = "in turn" THEN mcVars
        ELSE <<requests, clars, threads, plans, runs, hand, raced>>

McInit == part \in {"in turn", "crossed"} /\ Init

McNext ==
    \/ part = "in turn" /\ Next /\ UNCHANGED part
    \/ part = "crossed" /\ Crossed!Next /\ UNCHANGED part

McSpec == McInit /\ [][McNext]_mcVars

=============================================================================
