---------------------------- MODULE EditorSession ----------------------------
(***************************************************************************)
(* The VS Code extension: a chat request is worked on by a team of         *)
(* specialists, one after the other, each in a loop of model calls and     *)
(* tool calls on the user's own files (apps/crew-vscode).  Chat requests   *)
(* may run side by side, and the user goes on editing.                     *)
(*                                                                         *)
(* There is one file; its content is told by whose changes are in it.      *)
(***************************************************************************)
EXTENDS Naturals

CONSTANTS Chats,          \* the chat requests
          AutoApprove,    \* commonsCrew.autoApprove
          MaxSteps,       \* bound: specialists of a team
          MaxIterations,  \* commonsCrew.maxIterations
          MaxCalls,       \* bound: tools asked for in one answer
          None            \* no tool call

VARIABLES steps,      \* the length of each team's plan
          chat,       \* what each request is doing
          cancelled,  \* the requests whose token is cancelled
          file,       \* the changes in the file
          acts        \* history: what the side effects were allowed by

vars == <<steps, chat, cancelled, file, acts>>

Kinds == {"read_file", "write_file", "str_replace", "run_command"}
ClassA(kind) == kind = "read_file"

Ready(step, turn) ==
    [pc |-> "model", step |-> step, turn |-> turn, calls |-> 0, kind |-> None,
     before |-> {}, asked |-> FALSE, late |-> FALSE]

\* planTeam: a plan nothing is usable of becomes one step for the best fit.
Init ==
    /\ steps \in [Chats -> 1..MaxSteps]
    /\ chat = [c \in Chats |-> Ready(1, 1)]
    /\ cancelled = {}
    /\ file = {}
    /\ acts = {}

\* A specialist is done, by its answer, an error, the limit or the token: the
\* next one takes over, unless the session is cancelled (runSession).
HandOver(c) ==
    IF c \in cancelled \/ chat[c].step = steps[c]
    THEN [chat[c] EXCEPT !.pc = "over"]
    ELSE Ready(chat[c].step + 1, 1)

\* chat(): the model answers with tool calls or without, or fails.
Ask(c) ==
    /\ chat[c].pc = "model"
    /\ c \notin cancelled /\ chat[c].turn <= MaxIterations
    /\ chat' = [chat EXCEPT ![c].pc = "answer"]
    /\ UNCHANGED <<steps, cancelled, file, acts>>

Answer(c) ==
    /\ chat[c].pc = "answer"
    /\ \/ \E n \in 1..MaxCalls :
            chat' = [chat EXCEPT ![c].pc = "calls", ![c].calls = n]
       \/ chat' = [chat EXCEPT ![c] = HandOver(c)]
    /\ UNCHANGED <<steps, cancelled, file, acts>>

GiveUp(c) ==
    /\ \/ chat[c].pc = "model" /\ (c \in cancelled \/ chat[c].turn > MaxIterations)
       \/ chat[c].pc = "calls" /\ chat[c].calls > 0 /\ c \in cancelled
    /\ chat' = [chat EXCEPT ![c] = HandOver(c)]
    /\ UNCHANGED <<steps, cancelled, file, acts>>

\* Mutant of MayCall: the token is looked at between the model calls only.
MayCallAnyway(c) == chat[c].calls > 0

MayCall(c) == chat[c].calls > 0 /\ c \notin cancelled

\* executeTool: a call with arguments that cannot be parsed, a path outside the
\* workspace or a text that is not in the file is answered with an error before
\* anything is asked. str_replace reads the file before it asks, and what has
\* been saved in the meantime is lost when it writes.
Call(c) ==
    /\ chat[c].pc = "calls" /\ MayCall(c)
    /\ \E kind \in Kinds, wrong \in BOOLEAN :
        chat' = [chat EXCEPT
            ![c].kind = kind,
            ![c].late = c \in cancelled,
            ![c].before = IF kind = "str_replace" THEN file ELSE {},
            ![c].pc = IF ClassA(kind) \/ wrong THEN "told"
                      ELSE IF AutoApprove THEN "act" ELSE "gate"]
    /\ UNCHANGED <<steps, cancelled, file, acts>>

\* gate: the dialog is modal and cannot be cancelled by the token.
Decide(c) ==
    /\ chat[c].pc = "gate"
    /\ \E approve \in BOOLEAN :
        chat' = [chat EXCEPT ![c].pc = IF approve THEN "act" ELSE "told",
                             ![c].asked = approve]
    /\ UNCHANGED <<steps, cancelled, file, acts>>

Content(c) ==
    CASE chat[c].kind = "write_file" -> {c}
      [] chat[c].kind = "str_replace" -> chat[c].before \cup {c}
      [] OTHER -> file

Act(c) ==
    /\ chat[c].pc = "act"
    /\ file' = Content(c)
    /\ acts' = acts \cup {[asked |-> chat[c].asked, late |-> chat[c].late]}
    /\ chat' = [chat EXCEPT ![c].pc = "told"]
    /\ UNCHANGED <<steps, cancelled>>

\* An error of a tool is the tool's answer.
Fails(c) ==
    /\ chat[c].pc = "act"
    /\ chat' = [chat EXCEPT ![c].pc = "told"]
    /\ UNCHANGED <<steps, cancelled, file, acts>>

\* The answer of the tool is added to the messages.
Told(c) ==
    /\ chat[c].pc = "told"
    /\ chat' = [chat EXCEPT ![c] =
                  IF chat[c].calls = 1
                  THEN Ready(chat[c].step, chat[c].turn + 1)
                  ELSE [Ready(chat[c].step, chat[c].turn) EXCEPT
                            !.pc = "calls", !.calls = chat[c].calls - 1]]
    /\ UNCHANGED <<steps, cancelled, file, acts>>

UserCancels(c) ==
    /\ chat[c].pc # "over"
    /\ cancelled' = cancelled \cup {c}
    /\ UNCHANGED <<steps, chat, file, acts>>

UserSaves ==
    /\ file' = file \cup {"user"}
    /\ UNCHANGED <<steps, chat, cancelled, acts>>

Next ==
    \/ \E c \in Chats :
         \/ Ask(c) \/ Answer(c) \/ GiveUp(c) \/ Call(c) \/ Decide(c)
         \/ Act(c) \/ Fails(c) \/ Told(c) \/ UserCancels(c)
    \/ UserSaves

Spec == Init /\ [][Next]_vars

-----------------------------------------------------------------------------
(***************************************************************************)
(* Whatever the other requests do and whenever the user cancels, a file is *)
(* written and a command run only for a call that was begun before the     *)
(* request's token was cancelled, and that was approved in a dialog of its *)
(* own unless everything is (agent-loop.ts:22-60, tools.ts:81-87,          *)
(* 110-165).                                                               *)
(***************************************************************************)
ActsAllowed ==
    \A act \in acts : ~act.late /\ (act.asked \/ AutoApprove)

=============================================================================
