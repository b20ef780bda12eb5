---------------------------- MODULE ActionTools ----------------------------
(***************************************************************************)
(* What write_file and edit_file do to files (action-executor.ts): they    *)
(* work on a copy of the target in a workspace of the action, never on the *)
(* repository, and leave instructions for taking the change back.          *)
(*                                                                         *)
(* A file's content is the sequence of what was written to it: the source  *)
(* it was copied from, the marks of actions.  An action that failed after  *)
(* its tool had its effect may be executed again, and two requests may     *)
(* execute one action at a time (see ActionGovernance).                    *)
(***************************************************************************)
EXTENDS Naturals, Sequences

CONSTANTS Threads,   \* the requests that execute actions
          Writes,    \* the write_file actions
          Edits,     \* the edit_file actions
          MaxEdits,  \* bound: how often somebody edits the repository
          MaxCalls,  \* bound: executions of an action
          None       \* no file

Actions == Writes \cup Edits

VARIABLES source,  \* the target in the repository
          copy,    \* the target in each action's workspace
          call,    \* what each request is doing
          calls,   \* how often each action was executed
          result,  \* what the last completed execution of an action found
          edits    \* how often the source has been edited

\* History, read by no action: the actions executed twice at a time, or whose
\* file was cut short while it was written.
VARIABLE spoiled

vars == <<source, copy, call, calls, result, edits, spoiled>>

Idle == [pc |-> "idle", action |-> None, there |-> FALSE, before |-> <<>>]

Init ==
    /\ source \in {None, <<0>>}
    /\ copy = [a \in Actions |-> None]
    /\ call = [t \in Threads |-> Idle]
    /\ calls = [a \in Actions |-> 0]
    /\ result = [a \in Actions |-> None]
    /\ edits = 0
    /\ spoiled = {}

GoTo(t, pc) == call' = [call EXCEPT ![t].pc = pc]

Mark(a) == a

Execute(t, a) ==
    /\ call[t].pc = "idle"
    /\ calls[a] < MaxCalls
    /\ calls' = [calls EXCEPT ![a] = @ + 1]
    /\ call' = [call EXCEPT ![t] = [Idle EXCEPT !.pc = "check", !.action = a]]
    /\ spoiled' = IF \E u \in Threads : call[u].pc # "idle" /\ call[u].action = a
                  THEN spoiled \cup {a} ELSE spoiled
    /\ UNCHANGED <<source, copy, result, edits>>

\* Mutant of Workspace: actions share one.
OneForAll(a) == Actions

\* The workspace the target of an action is copied to: the action's own.
Workspace(a) == {a}

\* prepareWorkspaceFile looks for a copy, then for a source, and then copies
\* what there is, over a copy that has come to be meanwhile.
Check(t) ==
    /\ call[t].pc = "check"
    /\ GoTo(t, IF copy[call[t].action] = None THEN "source" ELSE "look")
    /\ UNCHANGED <<source, copy, calls, result, edits, spoiled>>

CheckSource(t) ==
    /\ call[t].pc = "source"
    /\ GoTo(t, IF source # None THEN "copyFile" ELSE "look")
    /\ UNCHANGED <<source, copy, calls, result, edits, spoiled>>

\* What an action's file becomes.
Put(a, content) == [b \in Actions |-> IF b \in Workspace(a) THEN content ELSE copy[b]]

CopyFile(t) ==
    /\ call[t].pc = "copyFile"
    /\ copy' = Put(call[t].action, source)
    /\ GoTo(t, "look")
    /\ UNCHANGED <<source, calls, result, edits, spoiled>>

\* Is there a source to restore from?
Look(t) ==
    /\ call[t].pc = "look"
    /\ call' = [call EXCEPT ![t].pc = "read", ![t].there = source # None]
    /\ UNCHANGED <<source, copy, calls, result, edits, spoiled>>

Read(t) ==
    /\ call[t].pc = "read"
    /\ LET content == copy[call[t].action] IN
        call' = [call EXCEPT ![t].pc = "write",
                             ![t].before = IF content = None THEN <<>> ELSE content]
    /\ UNCHANGED <<source, copy, calls, result, edits, spoiled>>

NextContent(t) ==
    LET a == call[t].action IN
    IF a \in Writes THEN <<Mark(a)>> ELSE Append(call[t].before, Mark(a))

Write(t) ==
    /\ call[t].pc = "write"
    /\ copy' = Put(call[t].action, NextContent(t))
    /\ GoTo(t, "return")
    /\ UNCHANGED <<source, calls, result, edits, spoiled>>

\* The result: the sizes before and after, and the way back.
Return(t) ==
    /\ call[t].pc = "return"
    /\ result' = [result EXCEPT ![call[t].action] =
                    [before |-> call[t].before, after |-> NextContent(t),
                     restore |-> IF call[t].there THEN "source" ELSE "remove"]]
    /\ call' = [call EXCEPT ![t] = Idle]
    /\ UNCHANGED <<source, copy, calls, edits, spoiled>>

\* A step fails, or what execute does afterwards.
Fails(t) ==
    /\ call[t].pc # "idle"
    /\ call' = [call EXCEPT ![t] = Idle]
    /\ UNCHANGED <<source, copy, calls, result, edits, spoiled>>

\* copyFile or writeFile fails half way: a copy is removed again or left cut
\* short, a file being written is left empty.
FailsHalfWay(t) ==
    /\ \/ call[t].pc = "copyFile" /\ \E left \in {None, <<>>} : copy' = Put(call[t].action, left)
       \/ call[t].pc = "write" /\ copy' = Put(call[t].action, <<>>)
    /\ spoiled' = IF call[t].pc = "write" THEN spoiled \cup {call[t].action} ELSE spoiled
    /\ call' = [call EXCEPT ![t] = Idle]
    /\ UNCHANGED <<source, calls, result, edits>>

EditSource ==
    /\ edits < MaxEdits
    /\ edits' = edits + 1
    /\ source' = <<edits + 1>>
    /\ UNCHANGED <<copy, call, calls, result, spoiled>>

Next ==
    \/ \E t \in Threads :
         \/ \E a \in Actions : Execute(t, a)
         \/ Check(t) \/ CheckSource(t) \/ CopyFile(t)
         \/ Look(t) \/ Read(t) \/ Write(t) \/ Return(t)
         \/ Fails(t) \/ FailsHalfWay(t)
    \/ EditSource

Spec == Init /\ [][Next]_vars

---------------------------------------------------------------------------
(***************************************************************************)
(* Whoever else executes, edits or fails meanwhile, the file an action     *)
(* leaves is its own work: the mark alone for write_file, also when it is  *)
(* executed again; for edit_file the source as it once was, if there was   *)
(* one, and then marks of its executions.  What was reported is there,     *)
(* unless two executions of the action ran at a time, one copying the      *)
(* source over the other's work, or a later one failed while it wrote      *)
(* (action-executor.ts:146-154, 260-306).                                  *)
(***************************************************************************)
CopyIsOwn ==
    \A a \in Actions :
        LET lines == copy[a]
            marks == {i \in DOMAIN lines : lines[i] = a}
        IN /\ lines # None =>
                /\ \A i \in DOMAIN lines : i \in marks \/ (i = 1 /\ lines[i] \in 0..MaxEdits)
                /\ a \in Writes /\ marks # {} => lines = <<a>>
           /\ result[a] # None /\ a \notin spoiled => lines # None /\ Len(lines) \in marks

=============================================================================
