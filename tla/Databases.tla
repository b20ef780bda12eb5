----------------------------- MODULE Databases -----------------------------
(***************************************************************************)
(* The Postgres store and its schema.  The migrations of a boot are over   *)
(* before the boot of the store looks at the tables; here each has its     *)
(* variables.                                                              *)
(***************************************************************************)
EXTENDS Naturals

CONSTANTS Servers,      \* the processes that use the database
          StartsAfter,  \* per process: those that are healthy before it starts
          PgWriters, PgReaders, Drills, PgHome, NTables, Default, Nobody,
          Script, NMigrations, MaxStarts

\* A call has one process and is a read or a write; a drill begins by a read.
ASSUME PgCallsAssumption ==
    /\ PgHome \in [PgWriters \cup PgReaders -> Servers]
    /\ PgWriters \cap PgReaders = {}
    /\ Drills \subseteq PgReaders
    /\ NTables \in Nat
    /\ Nobody \notin PgWriters
    /\ Default \notin PgWriters

\* The second of the migrations is the one that makes the keys unique.
ASSUME MigrationsAssumption ==
    NMigrations \in Nat /\ NMigrations >= 2 /\ Script \notin Servers

VARIABLES row, tab, pgBoot, lock, pgChain, pgPc, txn, asked, pgSeen, file,
          keys, columns, at, have, starts

Pg == INSTANCE PostgresStore WITH
        Procs <- Servers, After <- StartsAfter, Writers <- PgWriters,
        Readers <- PgReaders, Home <- PgHome, None <- Nobody,
        boot <- pgBoot, chain <- pgChain, pc <- pgPc, seen <- pgSeen

Schema == INSTANCE PostgresSchema WITH Procs <- Servers, Before <- StartsAfter

\* The Postgres store implements Store.
PgImplementsStore == Pg!PgImplementsStore

\* What a read gives never goes back.
ReadsForward == Pg!ReadsForward

\* A process serves only over the whole schema.
ServesWholeSchema == Schema!ServesWholeSchema

=============================================================================
