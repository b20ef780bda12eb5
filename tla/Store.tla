------------------------------- MODULE Store -------------------------------
(***************************************************************************)
(* What every part of commons-crew takes a state store for: a write either *)
(* takes effect, once and for good, or is refused and leaves no trace, and *)
(* a read returns the state of one moment between its call and its return. *)
(* The state is the set of the writes that took effect: each handler's     *)
(* write is a function of the state it is given, so the state is right     *)
(* exactly when no write is missing from it.                               *)
(***************************************************************************)
EXTENDS FiniteSets

CONSTANTS Writes,   \* the writes that are ever asked for
          Readers   \* the reads that are ever asked for

VARIABLES applied,  \* the writes that took effect
          acked,    \* the writes whose caller was told that they did
          refused,  \* the writes whose caller was told that they did not
          seen      \* what each read returned, a set holding the state

vars == <<applied, acked, refused, seen>>

Init ==
    /\ applied = {}
    /\ acked = {}
    /\ refused = {}
    /\ seen = [r \in Readers |-> {}]

Apply(w) ==
    /\ w \notin applied \cup refused
    /\ applied' = applied \cup {w}
    /\ UNCHANGED <<acked, refused, seen>>

Acknowledge(w) ==
    /\ w \in applied \ acked
    /\ acked' = acked \cup {w}
    /\ UNCHANGED <<applied, refused, seen>>

Refuse(w) ==
    /\ w \notin applied \cup refused
    /\ refused' = refused \cup {w}
    /\ UNCHANGED <<applied, acked, seen>>

Observe(r) ==
    /\ seen[r] = {}
    /\ seen' = [seen EXCEPT ![r] = {applied}]
    /\ UNCHANGED <<applied, acked, refused>>

Next ==
    \/ \E w \in Writes : Apply(w) \/ Acknowledge(w) \/ Refuse(w)
    \/ \E r \in Readers : Observe(r)

Spec == Init /\ [][Next]_vars

=============================================================================
