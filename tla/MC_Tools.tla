------------------------------ MODULE MC_Tools ------------------------------
(***************************************************************************)
(* What specialists do with tools: a behaviour is one of the runner's tool *)
(* loop, of spec corrections, of the file tools' workspaces or of the      *)
(* editor's sessions, chosen in its first state, and leaves the variables  *)
(* of the others as they are.                                              *)
(***************************************************************************)
EXTENDS SpecialistTools

CONSTANTS a1, a2, w1, e1, t1, t2, c1, c2

\* The lists as they are, with every tool on both, and swapped.
DriftedLists ==
    {TheLists,
     [automatic |-> Tools, offered |-> Tools],
     [automatic |-> TheLists.offered, offered |-> TheLists.automatic]}

VARIABLE part

correctionVars == <<scCall, worktrees, local, remote, pulls, crashed>>
filesVars == <<source, copy, atCall, calls, result, edits, spoiled>>
editorVars == <<steps, chat, cancelled, file, edActs>>
mcVars == <<part, vars, correctionVars, filesVars, editorVars>>

McInit ==
    /\ part \in {"loop", "correction", "files", "editor"}
    /\ IF part = "loop" THEN Init
       ELSE /\ mode = "shared_runner" /\ approved = FALSE /\ list = TheLists
            /\ exec = [Begin(0) EXCEPT !.pc = "threw"] /\ workers = {} /\ input = None
            /\ output = None /\ acts = {} /\ stray = FALSE
    /\ Correction!Init
    /\ IF part = "files" THEN FileTools!Init
       ELSE FileTools!Init /\ source = None
    /\ IF part = "editor" THEN Editor!Init
       ELSE Editor!Init /\ steps = [c \in Chats |-> 1]

McNext ==
    \/ part = "loop" /\ Next
         /\ UNCHANGED <<part, correctionVars, filesVars, editorVars>>
    \/ part = "correction" /\ Correction!Next
         /\ UNCHANGED <<part, vars, filesVars, editorVars>>
    \/ part = "files" /\ FileTools!Next
         /\ UNCHANGED <<part, vars, correctionVars, editorVars>>
    \/ part = "editor" /\ Editor!Next
         /\ UNCHANGED <<part, vars, correctionVars, filesVars>>

McSpec == McInit /\ [][McNext]_mcVars /\ (part = "loop" => Fairness)

=============================================================================
