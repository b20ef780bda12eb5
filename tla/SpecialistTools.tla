-------------------------- MODULE SpecialistTools --------------------------
(***************************************************************************)
(* What specialists do with tools: the runner's tool loop, the spec        *)
(* corrections it may propose, the file tools in their workspaces and the  *)
(* sessions of the editor.  They share no state; here each gets its        *)
(* variables.                                                              *)
(***************************************************************************)
EXTENDS ToolLoop

CONSTANTS Corrections, Sound, MayCrash,            \* SpecCorrection
          Requests, Writes, Edits, MaxEdits,       \* ActionTools
          MaxExecutions,                           \* both: executions of an action
          Chats, AutoApprove, MaxSteps, MaxIterations, MaxAsked \* EditorSession

\* No file is not the content of one.
ASSUME NoFileAssumption == None \notin Seq(Writes \cup Edits \cup 0..MaxEdits)

ASSUME ToolsAssumption == MaxEdits \in Nat /\ AutoApprove \in BOOLEAN

VARIABLES scCall, worktrees, local, remote, pulls, crashed,
          source, copy, atCall, calls, result, edits, spoiled,
          steps, chat, cancelled, file, edActs

Correction == INSTANCE SpecCorrection WITH
        Actions <- Corrections, MaxCalls <- MaxExecutions, call <- scCall

FileTools == INSTANCE ActionTools WITH
        Threads <- Requests, MaxCalls <- MaxExecutions, call <- atCall

Editor == INSTANCE EditorSession WITH MaxCalls <- MaxAsked, acts <- edActs

\* Every pull request is of a pushed, corrected branch; no worktree is left.
CorrectionsWhole == Correction!CorrectionsWhole

\* A file tool works on the action's own copy.
CopyIsOwn == FileTools!CopyIsOwn

\* The editor acts only on approved calls of a request not cancelled.
ActsAllowed == Editor!ActsAllowed

=============================================================================
