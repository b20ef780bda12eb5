--------------------------- MODULE PostgresStore ---------------------------
(***************************************************************************)
(* PostgresStateStore (packages/core/src/postgres-store.ts): the state is  *)
(* one row of runtime_state and, a second time, the rows of a table per    *)
(* collection; a read takes what the tables hold and, from the row, what   *)
(* has no table. A write is one transaction that begins by an UPDATE of    *)
(* the row; a read is many SELECTs outside any transaction. With it, the   *)
(* backup drill of verifyBackup (core/src/index.ts, postgres-backup.ts).   *)
(*                                                                         *)
(* Part 0 of a state is what has no table, part t what table t holds. A    *)
(* part is the set of the writes it holds, and Default if the rows the     *)
(* defaults bring are in it. The tables of the model are those that the    *)
(* defaults bring rows to: users and workspace_memberships.                *)
(***************************************************************************)
EXTENDS Naturals, Sequences, FiniteSets

CONSTANTS Procs,    \* the processes that use the database
          After,    \* per process: those that are healthy before it starts
          Writers,  \* the calls of write
          Readers,  \* the calls of read
          Drills,   \* the reads that verifyBackup begins with
          Home,     \* the process that makes a call
          NTables,  \* the number of tables
          Default,  \* the rows of createDefaultState
          None      \* no writer, no file

Parts == 0..NTables
Tables == 1..NTables

VARIABLES row,     \* the payload of runtime_state, a part for each of Parts
          tab,     \* per table: the part its rows amount to
          boot,    \* per process: "down", the table it backfills, or "up"
          lock,    \* the writer whose transaction has updated the row
          chain,   \* per process: the writes that have not settled, in order
          pc,      \* per call: where it is
          txn,     \* per writer: the state its transaction will commit
          asked,   \* per read: the writes acknowledged when it was called
          seen,    \* per read: the parts it has read so far, in order
          file     \* per drill: the state its backup file holds

vars == <<row, tab, boot, lock, chain, pc, txn, asked, seen, file>>

Calls == Writers \cup Readers

Acked == {w \in Writers : pc[w] = "ok"}

Init ==
    /\ row = [i \in Parts |-> {Default}]
    /\ tab = [t \in Tables |-> {}]
    /\ boot = [p \in Procs |-> "down"]
    /\ lock = None
    /\ chain = [p \in Procs |-> <<>>]
    /\ pc = [c \in Calls |-> "idle"]
    /\ txn = [w \in Writers |-> None]
    /\ asked = [r \in Readers |-> {}]
    /\ seen = [r \in Readers |-> <<>>]
    /\ file = [d \in Drills |-> None]

(***************************************************************************)
(* init(), once the schema is there: if no table has a row, the tables are *)
(* filled from the row, one statement and one transaction at a time. After *)
(* that they have rows, so the init() of later calls does nothing.         *)
(***************************************************************************)
Boot(p) ==
    /\ boot[p] = "down"
    /\ \A q \in After[p] : boot[q] = "up"
    /\ boot' = [boot EXCEPT ![p] =
                    IF \A t \in Tables : tab[t] = {} THEN "backfill" ELSE "up"]
    /\ UNCHANGED <<row, tab, lock, chain, pc, txn, asked, seen, file>>

Backfill(p) ==
    /\ boot[p] = "backfill"
    /\ \E t \in Tables :
        /\ tab[t] = {}
        /\ \A u \in 1..(t - 1) : tab[u] # {}
        /\ tab' = [tab EXCEPT ![t] = row[t]]
        /\ boot' = [boot EXCEPT ![p] = IF t = NTables THEN "up" ELSE @]
    /\ UNCHANGED <<row, lock, chain, pc, txn, asked, seen, file>>

\* write() waits for the writes of its process that were called before it.
Enqueue(w) ==
    /\ boot[Home[w]] = "up"
    /\ pc[w] = "idle"
    /\ pc' = [pc EXCEPT ![w] = "queued"]
    /\ chain' = [chain EXCEPT ![Home[w]] = Append(@, w)]
    /\ UNCHANGED <<row, tab, boot, lock, txn, asked, seen, file>>

MyTurn(w) == chain[Home[w]] # <<>> /\ Head(chain[Home[w]]) = w

Settle(w, outcome) ==
    /\ pc' = [pc EXCEPT ![w] = outcome]
    /\ chain' = [chain EXCEPT ![Home[w]] = Tail(@)]

\* Wrong: the transaction does not begin by updating the row.
NoLockNeeded == TRUE

\* acquireWriteLock: BEGIN, and the UPDATE that waits for the row.
CanLock == lock = None

Lock(w) ==
    /\ MyTurn(w)
    /\ pc[w] = "queued"
    /\ CanLock
    /\ lock' = w
    /\ pc' = [pc EXCEPT ![w] = "locked"]
    /\ UNCHANGED <<row, tab, boot, chain, txn, asked, seen, file>>

\* What readFrom makes of the row and the tables.
Assembled(part0, tables) ==
    [i \in Parts |-> IF i = 0 THEN part0 ELSE tables[i]]

\* readFrom and the mutator: under the lock, no other write comes between.
Mutate(w) ==
    /\ pc[w] = "locked"
    /\ txn' = [txn EXCEPT ![w] =
                 [i \in Parts |-> Assembled(row[0], tab)[i] \cup {w}]]
    /\ pc' = [pc EXCEPT ![w] = "mutated"]
    /\ UNCHANGED <<row, tab, boot, lock, chain, asked, seen, file>>

\* Wrong: a collection is missing from ENTITY_COLLECTIONS when it is written.
CommitButOne(w) ==
    /\ pc[w] = "mutated"
    /\ row' = txn[w]
    /\ tab' = [t \in Tables |-> IF t = NTables THEN tab[t] ELSE txn[w][t]]
    /\ lock' = None
    /\ pc' = [pc EXCEPT ![w] = "committed"]
    /\ UNCHANGED <<boot, chain, txn, asked, seen, file>>

\* writeRuntimeState, writeCollections and COMMIT.
Commit(w) ==
    /\ pc[w] = "mutated"
    /\ row' = txn[w]
    /\ tab' = [t \in Tables |-> txn[w][t]]
    /\ lock' = None
    /\ pc' = [pc EXCEPT ![w] = "committed"]
    /\ UNCHANGED <<boot, chain, txn, asked, seen, file>>

Succeed(w) ==
    /\ pc[w] = "committed"
    /\ Settle(w, "ok")
    /\ UNCHANGED <<row, tab, boot, lock, txn, asked, seen, file>>

\* A statement or the mutator throws: ROLLBACK.
WriteFails(w) ==
    /\ MyTurn(w)
    /\ pc[w] \in {"queued", "locked", "mutated"}
    /\ Settle(w, "failed")
    /\ lock' = IF lock = w THEN None ELSE lock
    /\ UNCHANGED <<row, tab, boot, txn, asked, seen, file>>

\* read() does not wait for any write.
Read(r) ==
    /\ boot[Home[r]] = "up"
    /\ pc[r] = "idle"
    /\ asked' = [asked EXCEPT ![r] = Acked]
    /\ pc' = [pc EXCEPT ![r] = "reading"]
    /\ UNCHANGED <<row, tab, boot, lock, chain, txn, seen, file>>

\* The row, then one table after the other, each by a SELECT of its own.
Select(r) ==
    /\ pc[r] = "reading"
    /\ LET i == Len(seen[r]) IN
        /\ seen' = [seen EXCEPT ![r] =
                        Append(@, IF i = 0 THEN row[0] ELSE tab[i])]
        /\ pc' = [pc EXCEPT ![r] = IF i = NTables THEN "ok" ELSE @]
    /\ UNCHANGED <<row, tab, boot, lock, chain, txn, asked, file>>

(***************************************************************************)
(* verifyBackup goes on from its read: the row is loaded and written to a  *)
(* file, the file restored into a schema of its own, and the row of that   *)
(* schema compared with what was read at first.                            *)
(***************************************************************************)
Backup(d) ==
    /\ pc[d] = "ok"
    /\ file' = [file EXCEPT ![d] = row]
    /\ pc' = [pc EXCEPT ![d] = "captured"]
    /\ UNCHANGED <<row, tab, boot, lock, chain, txn, asked, seen>>

Matches(d) == file[d] = Assembled(seen[d][1], Tail(seen[d]))

Verify(d) ==
    /\ pc[d] = "captured"
    /\ pc' = [pc EXCEPT ![d] = IF Matches(d) THEN "verified" ELSE "mismatch"]
    /\ UNCHANGED <<row, tab, boot, lock, chain, txn, asked, seen, file>>

Settled == {"idle", "ok", "failed", "verified", "mismatch"}

\* The process dies and the database rolls its transactions back.
Crash(p) ==
    /\ boot[p] # "down"
    /\ boot' = [boot EXCEPT ![p] = "down"]
    /\ chain' = [chain EXCEPT ![p] = <<>>]
    /\ lock' = IF lock # None /\ Home[lock] = p THEN None ELSE lock
    /\ pc' = [c \in Calls |->
                IF Home[c] = p /\ pc[c] \notin Settled THEN "lost" ELSE pc[c]]
    /\ UNCHANGED <<row, tab, txn, asked, seen, file>>

WriteStep(w) ==
    Lock(w) \/ Mutate(w) \/ Commit(w) \/ Succeed(w) \/ WriteFails(w)

Next ==
    \/ \E p \in Procs : Boot(p) \/ Backfill(p) \/ Crash(p)
    \/ \E w \in Writers : Enqueue(w) \/ WriteStep(w)
    \/ \E r \in Readers : Read(r) \/ Select(r)
    \/ \E d \in Drills : Backup(d) \/ Verify(d)

Spec == Init /\ [][Next]_vars

-----------------------------------------------------------------------------
S == INSTANCE Store WITH
        Writes <- Writers,
        Readers <- {},
        applied <- row[0] \ {Default},
        acked <- Acked,
        refused <- {w \in Writers : pc[w] = "failed"},
        seen <- <<>>

(***************************************************************************)
(* The writes of all processes together behave as those of one store: the  *)
(* row lock orders what the chains of two processes cannot                 *)
(* (postgres-store.ts:227-280).                                            *)
(***************************************************************************)
PgImplementsStore == S!Spec

Written(part) == part \ {Default}

(***************************************************************************)
(* A read is no snapshot, but it never goes back in time: what was         *)
(* acknowledged before it is in the first part it takes, and each part it  *)
(* takes is at least as new as the parts before                            *)
(* (postgres-store.ts:372-422).                                            *)
(***************************************************************************)
ReadsForward ==
    \A r \in Readers : \A j \in DOMAIN seen[r] :
        /\ asked[r] \subseteq seen[r][j]
        /\ \A i \in 1..j : Written(seen[r][i]) \subseteq seen[r][j]

=============================================================================
