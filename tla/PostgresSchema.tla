-------------------------- MODULE PostgresSchema --------------------------
(***************************************************************************)
(* The two ways the schema of the Postgres store comes to be: every        *)
(* process applies the migrations its core knows when it boots             *)
(* (packages/core/src/postgres-store.ts), and an operator may apply the    *)
(* files of the same names with infra/scripts/postgres-migrate.mjs. Both   *)
(* keep the keys of what was applied in schema_migrations.                 *)
(***************************************************************************)
EXTENDS Naturals, Sequences, FiniteSets

CONSTANTS Procs,       \* the processes that boot
          Before,      \* per process: those that are healthy before it starts
          Script,      \* the operator's script
          NMigrations, \* how many migrations there are
          MaxStarts    \* bound: how often each of them is started

Migrations == 1..NMigrations

VARIABLES keys,    \* the keys in schema_migrations, in insertion order
          columns, \* who created that table, or "none"
          at,      \* per process and script: where it is
          have,    \* per process and script: the keys it need not apply
          starts   \* how often each was started

vars == <<keys, columns, at, have, starts>>

Runners == Procs \cup {Script}

Keys == {keys[i] : i \in DOMAIN keys}

Init ==
    /\ keys = <<>>
    /\ columns = "none"
    /\ at = [p \in Runners |-> "down"]
    /\ have = [p \in Runners |-> {}]
    /\ starts = [p \in Runners |-> 0]

\* CREATE TABLE IF NOT EXISTS; the script's table has two columns of the five.
Start(p) ==
    /\ at[p] = "down"
    /\ starts[p] < MaxStarts
    /\ p # Script => \A q \in Before[p] : at[q] = "up"
    /\ starts' = [starts EXCEPT ![p] = @ + 1]
    /\ columns' = IF columns # "none" THEN columns
                  ELSE IF p = Script THEN "two" ELSE "five"
    /\ at' = [at EXCEPT ![p] = "started"]
    /\ UNCHANGED <<keys, have>>

\* A process selects all the keys once, the script one key at a time.
Select(p) ==
    /\ at[p] = "started"
    /\ have' = [have EXCEPT ![p] = IF p = Script THEN {} ELSE Keys]
    /\ at' = [at EXCEPT ![p] = "applying"]
    /\ UNCHANGED <<keys, columns, starts>>

Missing(p) == Migrations \ (have[p] \cup IF p = Script THEN Keys ELSE {})

Due(p) == CHOOSE m \in Missing(p) : \A n \in Missing(p) : m <= n

\* Wrong: the second migration does not make the keys unique.
UniqueForScript == columns = "two"

\* The second migration makes the keys unique; the script's table has them so.
Unique == columns = "two" \/ 2 \in Keys

Duplicate == \E i, j \in DOMAIN keys : i # j /\ keys[i] = keys[j]

CanApply(p) ==
    /\ p # Script => columns = "five"
    /\ Unique => Due(p) \notin Keys
    /\ Due(p) = 2 => ~Duplicate

\* One transaction: the statements and the key of the migration.
Apply(p) ==
    /\ at[p] = "applying"
    /\ Missing(p) # {}
    /\ CanApply(p)
    /\ keys' = Append(keys, Due(p))
    /\ have' = [have EXCEPT ![p] = @ \cup {Due(p)}]
    /\ UNCHANGED <<columns, at, starts>>

\* ROLLBACK: the boot, or the script, ends with the error.
Fails(p) ==
    /\ at[p] = "applying"
    /\ Missing(p) # {}
    /\ ~CanApply(p)
    /\ at' = [at EXCEPT ![p] = "down"]
    /\ UNCHANGED <<keys, columns, have, starts>>

Finish(p) ==
    /\ at[p] = "applying"
    /\ Missing(p) = {}
    /\ at' = [at EXCEPT ![p] = "up"]
    /\ UNCHANGED <<keys, columns, have, starts>>

Stop(p) ==
    /\ at[p] # "down"
    /\ at' = [at EXCEPT ![p] = "down"]
    /\ UNCHANGED <<keys, columns, have, starts>>

Next ==
    \E p \in Runners :
        Start(p) \/ Select(p) \/ Apply(p) \/ Fails(p) \/ Finish(p) \/ Stop(p)

Spec == Init /\ [][Next]_vars

-----------------------------------------------------------------------------
(***************************************************************************)
(* However boots, scripts and crashes interleave, no process serves        *)
(* requests on a schema that lacks a migration or has one twice            *)
(* (postgres-store.ts:308-339, postgres-migrate.mjs:20-55).                *)
(***************************************************************************)
ServesWholeSchema ==
    \A p \in Procs : at[p] = "up" => Keys = Migrations /\ ~Duplicate

=============================================================================
