----------------------------- MODULE Incidents -----------------------------
(***************************************************************************)
(* The incidents of one run. setRunStatus writes the run's status, brings  *)
(* its incident up to date (syncRunIncident) and, if the run is a          *)
(* delegated child that has ended, tells the parent; operators open and    *)
(* change incidents meanwhile (packages/core/src/index.ts).                *)
(*                                                                         *)
(* The chain has an access to the store in each action, and any number of  *)
(* chains may be under way: a run is cancelled while it is being executed. *)
(* Which status follows which is in RunLifecycle; here any may follow any, *)
(* ended runs that fail or are queued again included.                      *)
(***************************************************************************)
EXTENDS Naturals, Sequences, FiniteSets

CONSTANTS Callers,       \* the handlers that change the run's status
          MayReopen,     \* whether operators reopen resolved incidents
          MaxIncidents,  \* bound: incidents ever opened
          MaxChanges,    \* bound: changes of the run's status
          MaxMoves       \* bound: what operators do

VARIABLES status,    \* RunRecord.status
          incidents, \* the run's IncidentRecords, in the order they were opened
          caller,    \* what each handler is doing
          notices,   \* the delegation.completed events the parent got
          down,      \* shuttingDown
          changes,   \* how often the status has been changed
          moves      \* how often operators have done anything

\* History, read by no action.
VARIABLES lone,      \* the run's last change had no other beside it
          single,    \* it found one unresolved incident at most
          touched,   \* an operator has changed an incident since
          cut,       \* it met a shutdown
          had,       \* the statuses the run has had
          missed     \* those whose notice a shutdown kept from the parent

state == <<status, incidents, caller, notices, down, changes, moves>>
history == <<lone, single, touched, cut, had, missed>>
vars == <<state, history>>

Terminal == {"completed", "failed", "cancelled"}
RunStatus == Terminal \cup {"queued", "running", "paused", "blocked"}
IncidentStatus == {"open", "investigating", "monitoring", "resolved"}

Idle == [pc |-> "idle", to |-> "", prior |-> "", found |-> 0]

Init ==
    /\ status = "queued"
    /\ incidents = <<>>
    /\ caller = [c \in Callers |-> Idle]
    /\ notices = <<>>
    /\ down = FALSE
    /\ changes = 0 /\ moves = 0
    /\ lone = TRUE /\ single = TRUE
    /\ touched = FALSE /\ cut = FALSE
    /\ had = {"queued"} /\ missed = {}

Quiet == \A c \in Callers : caller[c].pc = "idle"

Active(incident) == incident.status # "resolved"

Unresolved == {i \in DOMAIN incidents : Active(incidents[i])}

AtMostOne == \A i, j \in Unresolved : i = j

\* incidents.find takes the first listed: the newest in the JSON store, the one
\* with the lowest random id in the Postgres store. It may be any.
FirstListed(i) == IF Unresolved = {} THEN i = 0 ELSE i \in Unresolved

\* setRunStatus: the prior status is read ...
ReadPrior(c, to) ==
    /\ caller[c].pc = "idle" /\ ~down
    /\ changes < MaxChanges
    /\ caller' = [caller EXCEPT ![c] = [Idle EXCEPT !.pc = "write", !.to = to,
                                                    !.prior = status]]
    /\ changes' = changes + 1
    /\ lone' = Quiet
    /\ UNCHANGED <<status, incidents, notices, down, moves, single, touched, cut, had, missed>>

\* ... and the new one written whatever it is by now.
WriteStatus(c) ==
    /\ caller[c].pc = "write"
    /\ status' = caller[c].to
    /\ caller' = [caller EXCEPT ![c].pc = "find"]
    /\ single' = AtMostOne
    /\ touched' = FALSE
    /\ cut' = down
    /\ had' = had \cup {caller[c].to}
    /\ UNCHANGED <<incidents, notices, down, changes, moves, lone, missed>>

\* Mutant of Becomes: a cancelled run keeps its incident.
BecomesIfRun(to) ==
    CASE to = "blocked" -> "open"
      [] to = "failed" -> "investigating"
      [] to = "running" -> "monitoring"
      [] to = "completed" -> "resolved"
      [] OTHER -> ""

\* syncRunIncident: what an incident becomes by a status of its run.
Becomes(to) ==
    CASE to = "blocked" -> "open"
      [] to = "failed" -> "investigating"
      [] to = "running" -> "monitoring"
      [] to \in {"completed", "cancelled"} -> "resolved"
      [] OTHER -> ""

Opens(to) == to \in {"blocked", "failed"}

Find(c) ==
    /\ caller[c].pc = "find"
    /\ \E i \in DOMAIN incidents \cup {0} :
         /\ FirstListed(i)
         /\ caller' = [caller EXCEPT ![c].pc =
                          IF Becomes(caller[c].to) # "" /\ (i # 0 \/ Opens(caller[c].to))
                          THEN "sync" ELSE "notify",
                       ![c].found = i]
    /\ UNCHANGED <<status, incidents, notices, down, changes, moves, history>>

\* createIncidentRecord, transitionIncidentRecord: neither does anything once
\* the process is shutting down.
Sync(c) ==
    /\ caller[c].pc = "sync"
    /\ LET to == Becomes(caller[c].to)  i == caller[c].found IN
        /\ i = 0 => Len(incidents) < MaxIncidents
        /\ incidents' =
             IF down THEN incidents
             ELSE IF i = 0 THEN Append(incidents, [status |-> to])
             ELSE [incidents EXCEPT ![i].status = to]
    /\ caller' = [caller EXCEPT ![c].pc = "notify"]
    /\ UNCHANGED <<status, notices, down, changes, moves, history>>

\* Mutant of News: only the first end of a run is one.
FirstEnd(prior, to) == to \in Terminal /\ prior \notin Terminal

\* A change the parent of a delegated run is told of.
News(prior, to) == to \in Terminal /\ prior # to

\* A change that has been written and whose notice is still to come.
Untold(c) ==
    /\ caller[c].pc \in {"find", "sync", "notify"}
    /\ News(caller[c].prior, caller[c].to)

Notify(c) ==
    /\ caller[c].pc = "notify"
    /\ notices' = IF Untold(c) /\ ~down THEN Append(notices, caller[c].to) ELSE notices
    /\ missed' = IF Untold(c) /\ down THEN missed \cup {caller[c].to} ELSE missed
    /\ caller' = [caller EXCEPT ![c] = Idle]
    /\ UNCHANGED <<status, incidents, down, changes, moves, lone, single, touched, cut, had>>

---------------------------------------------------------------------------
(* incidents.create and incidents.transition *)

OperatorOpens ==
    /\ ~down
    /\ moves < MaxMoves /\ Len(incidents) < MaxIncidents
    /\ incidents' = Append(incidents, [status |-> "open"])
    /\ touched' = TRUE
    /\ moves' = moves + 1
    /\ UNCHANGED <<status, caller, notices, down, changes, lone, single, cut, had, missed>>

OperatorMoves ==
    /\ ~down
    /\ moves < MaxMoves
    /\ \E i \in DOMAIN incidents, to \in IncidentStatus :
        /\ Active(incidents[i]) \/ MayReopen
        /\ incidents' = [incidents EXCEPT ![i].status = to]
    /\ touched' = TRUE
    /\ moves' = moves + 1
    /\ UNCHANGED <<status, caller, notices, down, changes, lone, single, cut, had, missed>>

ShutDown ==
    /\ ~down
    /\ down' = TRUE
    /\ cut' = (cut \/ ~Quiet)
    /\ UNCHANGED <<status, incidents, caller, notices, changes, moves,
                   lone, single, touched, had, missed>>

\* The next process, with nothing in flight.
Boot ==
    /\ down
    /\ down' = FALSE
    /\ missed' = missed \cup {caller[c].to : c \in {d \in Callers : Untold(d)}}
    /\ caller' = [c \in Callers |-> Idle]
    /\ UNCHANGED <<status, incidents, notices, changes, moves, lone, single, touched, cut, had>>

Next ==
    \/ \E c \in Callers :
         \/ \E to \in RunStatus : ReadPrior(c, to)
         \/ WriteStatus(c) \/ Find(c) \/ Sync(c) \/ Notify(c)
    \/ OperatorOpens \/ OperatorMoves \/ ShutDown \/ Boot

Spec == Init /\ [][Next]_vars

---------------------------------------------------------------------------
(***************************************************************************)
(* After a change of the run's status that had no other beside it, met no  *)
(* shutdown and was left alone by operators since it was written, a run    *)
(* that is blocked or failed has an unresolved incident, whatever          *)
(* overlapping changes and operators left before. If the change found one  *)
(* unresolved incident at most there is one at most, it says what the      *)
(* status does, and it is gone once the run has ended well                 *)
(* (core index.ts:2567-2608, 3006-3023).                                   *)
(***************************************************************************)
IncidentTellsRun ==
    Quiet /\ lone /\ ~touched /\ ~cut =>
        /\ Opens(status) => Unresolved # {}
        /\ single =>
             /\ AtMostOne
             /\ Opens(status) \/ status = "running" =>
                  \A i \in Unresolved : incidents[i].status = Becomes(status)
             /\ status \in {"completed", "cancelled"} => Unresolved = {}

Told == {notices[k] : k \in DOMAIN notices}

(***************************************************************************)
(* However changes of a delegated run interleave, its parent hears of no   *)
(* end that the run has not had, and of every end the run has had: it has  *)
(* been told, a handler is on its way to tell it, or a shutdown came       *)
(* between (core index.ts:3026-3041).                                      *)
(***************************************************************************)
ParentHearsEnds ==
    /\ Told \subseteq had \cap Terminal
    /\ \A end \in had \cap Terminal :
         \/ end \in Told \cup missed
         \/ \E c \in Callers : Untold(c) /\ caller[c].to = end

=============================================================================
