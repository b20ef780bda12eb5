----------------------------- MODULE MC_Stores -----------------------------
(***************************************************************************)
(* The stores share no state: a behaviour is one of the JSON store, of the *)
(* Postgres store or of the Postgres schema, chosen in its first state,    *)
(* and leaves the variables of the others as they are.                     *)
(***************************************************************************)
EXTENDS JsonStore, Databases

CONSTANTS p1, p2, w1, w2, w3, r1, r2

\* One process has the JSON file open.
JsonHome == [c \in {w1, w2, w3, r1} |-> p1]

\* crew-runner (p2) is started when crew-api (p1) is healthy (compose.yaml).
ApiFirst == [p \in {p1, p2} |-> IF p = p2 THEN {p1} ELSE {}]
TwoHomes == [c \in {w1, w3, r2} |-> IF c = w1 THEN p1 ELSE p2]

VARIABLE part

pgVars == <<row, tab, pgBoot, lock, pgChain, pgPc, txn, asked, pgSeen, file>>
schemaVars == <<keys, columns, at, have, starts>>
mcVars == <<part, vars, pgVars, schemaVars>>

McInit == part \in {"json", "pg", "schema"} /\ Init /\ Pg!Init /\ Schema!Init

McNext ==
    \/ part = "json" /\ Next /\ UNCHANGED <<part, pgVars, schemaVars>>
    \/ part = "pg" /\ Pg!Next /\ UNCHANGED <<part, vars, schemaVars>>
    \/ part = "schema" /\ Schema!Next /\ UNCHANGED <<part, vars, pgVars>>

McSpec == McInit /\ [][McNext]_mcVars /\ (part = "json" => Fairness)

=============================================================================
