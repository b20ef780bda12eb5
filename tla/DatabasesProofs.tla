------------------------- MODULE DatabasesProofs -------------------------
(***************************************************************************)
(* That the writes of the Postgres store are those of one store for any    *)
(* number of processes, writes and tables: what the chain of the JSON      *)
(* store does for one process, the lock on the row does for all.  That     *)
(* reads of it never go back, and that the schema is whole when a process  *)
(* serves requests.                                                        *)
(***************************************************************************)
EXTENDS Databases, Sequences, SequenceTheorems, NaturalsInduction,
        WellFoundedInduction, TLAPS

Places == {"idle", "queued", "locked", "mutated", "committed", "reading",
           "captured", "verified", "mismatch", "ok", "failed", "lost"}

Part == SUBSET (PgWriters \cup {Default})

TypeOK ==
    /\ row \in [Pg!Parts -> Part]
    /\ tab \in [Pg!Tables -> Part]
    /\ lock \in PgWriters \cup {Nobody}
    /\ pgPc \in [Pg!Calls -> Places]
    /\ txn \in [PgWriters -> [Pg!Parts -> Part] \cup {Nobody}]

\* Whoever is between the UPDATE of the row and the end has the lock.
Locked ==
    \A w \in PgWriters : pgPc[w] \in {"locked", "mutated"} => lock = w

\* What it will commit is what the row holds, and itself.
Fresh ==
    \A w \in PgWriters : pgPc[w] = "mutated" =>
        /\ txn[w] \in [Pg!Parts -> Part]
        /\ txn[w][0] = row[0] \cup {w}

Effects ==
    \A w \in PgWriters :
        /\ pgPc[w] \in {"committed", "ok"} => w \in row[0]
        /\ w \in row[0] => pgPc[w] \in {"committed", "ok", "lost"}

IInv == TypeOK /\ Locked /\ Fresh /\ Effects

-----------------------------------------------------------------------------
\* A set of numbers that is not empty has a least one.
LEMMA Least ==
  ASSUME NEW T, T \subseteq Nat, T # {}
  PROVE  \E m \in T : \A n \in T : m <= n
<1>1. PICK m \in T : \A n \in T : ~ (<<n, m>> \in OpToRel(<, Nat))
  BY NatLessThanWellFounded, WFMin, Zenon
<1>2. \A k, n \in Nat : <<n, k>> \in OpToRel(<, Nat) <=> n < k
  BY DEF OpToRel
<1>3. \A n \in T : ~ (n < m)
  BY <1>1, <1>2, Zenon
<1>. QED  BY <1>3

LEMMA ZeroIsPart == 0 \in Pg!Parts
  BY PgCallsAssumption DEF Pg!Parts

LEMMA TablesAreParts == Pg!Parts = {0} \cup Pg!Tables
  BY PgCallsAssumption DEF Pg!Parts, Pg!Tables

LEMMA InitIInv == Pg!Init => IInv
  <1> SUFFICES ASSUME Pg!Init PROVE IInv
    OBVIOUS
  <1>1. TypeOK
    BY DEF Pg!Init, TypeOK, Part, Pg!Calls, Places
  <1>2. Locked /\ Fresh
    BY DEF Pg!Init, Locked, Fresh, Pg!Calls
  <1>3. Effects
    BY ZeroIsPart, PgCallsAssumption DEF Pg!Init, Effects, Pg!Calls
  <1>. QED
    BY <1>1, <1>2, <1>3 DEF IInv

\* What a step that is none of a transaction's leaves alone.
Aside ==
    /\ row' = row /\ lock' = lock /\ txn' = txn
    /\ \A w \in PgWriters :
         pgPc'[w] = pgPc[w] \/ (pgPc[w] = "idle" /\ pgPc'[w] = "queued")

LEMMA AsideIInv ==
    ASSUME IInv, TypeOK', Aside PROVE IInv'
  BY DEF IInv, TypeOK, Aside, Locked, Fresh, Effects

LEMMA ProcStepAside ==
    ASSUME IInv, NEW p \in Servers, Pg!Boot(p) \/ Pg!Backfill(p)
    PROVE  TypeOK' /\ Aside /\ pgPc' = pgPc
  BY TablesAreParts DEF IInv, TypeOK, Aside, Pg!Boot, Pg!Backfill

LEMMA EnqueueAside ==
    ASSUME IInv, NEW w \in PgWriters, Pg!Enqueue(w)
    PROVE  TypeOK' /\ Aside
  BY DEF IInv, TypeOK, Aside, Pg!Enqueue, Pg!Calls, Places

LEMMA ReadAside ==
    ASSUME IInv, NEW r \in PgReaders,
           Pg!Read(r) \/ Pg!Select(r) \/ (r \in Drills /\ (Pg!Backup(r) \/ Pg!Verify(r)))
    PROVE  TypeOK' /\ Aside /\ \A w \in PgWriters : pgPc'[w] = pgPc[w]
  BY PgCallsAssumption DEF IInv, TypeOK, Aside, Pg!Read, Pg!Select,
                            Pg!Backup, Pg!Verify, Pg!Calls, Places

LEMMA CrashIInv ==
    ASSUME IInv, NEW p \in Servers, Pg!Crash(p)
    PROVE  IInv'
  <1> USE DEF IInv, TypeOK, Pg!Crash, Pg!Calls
  <1>1. \A w \in PgWriters :
            pgPc'[w] = pgPc[w] \/ (pgPc'[w] = "lost" /\ pgPc[w] \notin Pg!Settled)
    OBVIOUS
  <1>2. \A w \in PgWriters : pgPc'[w] = pgPc[w] => PgHome[w] # p \/ pgPc[w] \in Pg!Settled
                                             \/ pgPc[w] = "lost"
    OBVIOUS
  <1>3. TypeOK'
    BY DEF Places
  <1>4. Locked'
    BY <1>1, <1>2 DEF Locked, Pg!Settled
  <1>5. Fresh' /\ Effects'
    BY <1>1 DEF Fresh, Effects, Pg!Settled
  <1>. QED
    BY <1>3, <1>4, <1>5

LEMMA WriteStepIInv ==
    ASSUME IInv, NEW w \in PgWriters, Pg!WriteStep(w)
    PROVE  IInv'
  <1> USE ZeroIsPart DEF IInv, TypeOK, Pg!Calls
  <1>1. CASE Pg!Lock(w)
    <2>1. lock = Nobody /\ \A v \in PgWriters : pgPc[v] \notin {"locked", "mutated"}
      BY <1>1, PgCallsAssumption DEF Pg!Lock, Pg!CanLock, Locked
    <2>2. TypeOK'
      BY <1>1 DEF Pg!Lock, Places
    <2>. QED
      BY <1>1, <2>1, <2>2 DEF Pg!Lock, Locked, Fresh, Effects
  <1>2. CASE Pg!Mutate(w)
    <2>1. \A i \in Pg!Parts : Pg!Assembled(row[0], tab)[i] \in Part
      BY TablesAreParts DEF Pg!Assembled
    <2>2. [i \in Pg!Parts |-> Pg!Assembled(row[0], tab)[i] \cup {w}]
            \in [Pg!Parts -> Part]
      BY <2>1 DEF Part
    <2>3. txn'[w] \in [Pg!Parts -> Part] /\ txn'[w][0] = row[0] \cup {w}
      BY <1>2, <2>2 DEF Pg!Mutate, Pg!Assembled
    <2>4. TypeOK'
      BY <1>2, <2>2 DEF Pg!Mutate, Places
    <2>. QED
      BY <1>2, <2>3, <2>4 DEF Pg!Mutate, Locked, Fresh, Effects
  <1>3. CASE Pg!Commit(w)
    <2>1. txn[w] \in [Pg!Parts -> Part] /\ txn[w][0] = row[0] \cup {w}
      BY <1>3 DEF Pg!Commit, Fresh
    <2>2. \A v \in PgWriters \ {w} : pgPc[v] \notin {"locked", "mutated"}
      BY <1>3 DEF Pg!Commit, Locked
    <2>3. TypeOK'
      BY <1>3, <2>1, TablesAreParts DEF Pg!Commit, Places
    <2>. QED
      BY <1>3, <2>1, <2>2, <2>3 DEF Pg!Commit, Locked, Fresh, Effects
  <1>4. CASE Pg!Succeed(w)
    BY <1>4 DEF Pg!Succeed, Pg!Settle, Locked, Fresh, Effects, Places
  <1>5. CASE Pg!WriteFails(w)
    BY <1>5, PgCallsAssumption DEF Pg!WriteFails, Pg!Settle, Locked, Fresh, Effects, Places
  <1>. QED
    BY <1>1, <1>2, <1>3, <1>4, <1>5 DEF Pg!WriteStep

LEMMA NextIInv == IInv /\ [Pg!Next]_(Pg!vars) => IInv'
  <1> SUFFICES ASSUME IInv, [Pg!Next]_(Pg!vars) PROVE IInv'
    OBVIOUS
  <1>1. CASE Pg!Next
    BY <1>1, ProcStepAside, EnqueueAside, ReadAside, AsideIInv, CrashIInv,
       WriteStepIInv, PgCallsAssumption DEF Pg!Next
  <1>2. CASE UNCHANGED Pg!vars
    BY <1>2 DEF Pg!vars, IInv, TypeOK, Locked, Fresh, Effects
  <1>. QED
    BY <1>1, <1>2

(***************************************************************************)
(* A transaction commits the state it found with its own write added to    *)
(* it: between the UPDATE of the row and COMMIT nobody else commits        *)
(* (postgres-store.ts:227-280).                                            *)
(***************************************************************************)
THEOREM PgInvariant == Pg!Spec => []IInv
  <1>1. Pg!Init => IInv
    BY InitIInv
  <1>2. IInv /\ [Pg!Next]_(Pg!vars) => IInv'
    BY NextIInv
  <1>. QED
    BY <1>1, <1>2, PTL DEF Pg!Spec

-----------------------------------------------------------------------------
LEMMA WriteStepRefines ==
    ASSUME IInv, NEW w \in PgWriters, Pg!WriteStep(w)
    PROVE  [Pg!S!Next]_(Pg!S!vars)
  <1> USE ZeroIsPart DEF IInv, TypeOK, Pg!Calls
  <1>0. w # Default
    BY PgCallsAssumption
  <1>1. CASE Pg!Lock(w) \/ Pg!Mutate(w)
    BY <1>1 DEF Pg!Lock, Pg!Mutate, Pg!S!vars, Pg!Acked
  <1>2. CASE Pg!Commit(w)
    <2>1. row'[0] = row[0] \cup {w} /\ w \notin row[0]
      BY <1>2 DEF Pg!Commit, Fresh, Effects
    <2>2. Pg!S!Apply(w)
      BY <1>0, <1>2, <2>1 DEF Pg!Commit, Pg!S!Apply, Pg!Acked
    <2>. QED
      BY <2>2 DEF Pg!S!Next
  <1>3. CASE Pg!Succeed(w)
    <2>1. Pg!S!Acknowledge(w)
      BY <1>0, <1>3 DEF Pg!Succeed, Pg!Settle, Effects, Pg!S!Acknowledge, Pg!Acked
    <2>. QED
      BY <2>1 DEF Pg!S!Next
  <1>4. CASE Pg!WriteFails(w)
    <2>1. Pg!S!Refuse(w)
      BY <1>0, <1>4 DEF Pg!WriteFails, Pg!Settle, Effects, Pg!S!Refuse, Pg!Acked
    <2>. QED
      BY <2>1 DEF Pg!S!Next
  <1>. QED
    BY <1>1, <1>2, <1>3, <1>4 DEF Pg!WriteStep

LEMMA AsideRefines ==
    ASSUME Aside PROVE UNCHANGED Pg!S!vars
  BY DEF Aside, Pg!S!vars, Pg!Acked

LEMMA CrashRefines ==
    ASSUME IInv, NEW p \in Servers, Pg!Crash(p)
    PROVE  UNCHANGED Pg!S!vars
  <1>1. \A w \in PgWriters : /\ pgPc'[w] = "ok" <=> pgPc[w] = "ok"
                             /\ pgPc'[w] = "failed" <=> pgPc[w] = "failed"
    BY DEF IInv, TypeOK, Pg!Crash, Pg!Settled, Pg!Calls
  <1>2. /\ Pg!Acked' = Pg!Acked
        /\ {w \in PgWriters : pgPc[w] = "failed"}' = {w \in PgWriters : pgPc[w] = "failed"}
    BY <1>1 DEF Pg!Acked
  <1>3. row' = row
    BY DEF Pg!Crash
  <1>. QED
    BY <1>2, <1>3 DEF Pg!S!vars

(***************************************************************************)
(* The row of the Postgres store is a store to the writes of all processes *)
(* together: none is lost and a refused one leaves no trace                *)
(* (postgres-store.ts:227-280).                                            *)
(***************************************************************************)
THEOREM PgIsStore == Pg!Spec => PgImplementsStore
  <1>1. Pg!Init => Pg!S!Init
    BY ZeroIsPart, PgCallsAssumption DEF Pg!Init, Pg!S!Init, Pg!Acked, Pg!Calls
  <1>2. IInv /\ [Pg!Next]_(Pg!vars) => [Pg!S!Next]_(Pg!S!vars)
    <2> SUFFICES ASSUME IInv, [Pg!Next]_(Pg!vars) PROVE [Pg!S!Next]_(Pg!S!vars)
      OBVIOUS
    <2>1. CASE Pg!Next
      BY <2>1, WriteStepRefines, ProcStepAside, EnqueueAside, ReadAside,
         AsideRefines, CrashRefines, PgCallsAssumption DEF Pg!Next
    <2>2. CASE UNCHANGED Pg!vars
      BY <2>2 DEF Pg!vars, Pg!S!vars, Pg!Acked
    <2>. QED
      BY <2>1, <2>2
  <1>. QED
    BY <1>1, <1>2, PgInvariant, PTL DEF Pg!Spec, PgImplementsStore, Pg!PgImplementsStore, Pg!S!Spec

-----------------------------------------------------------------------------
(* Reads *)

\* The parts of the row and the tables never differ but for the defaults, and
\* a transaction adds its write to each of them.
PartsAgree ==
    /\ \A i \in Pg!Parts : Pg!Written(row[i]) = Pg!Written(row[0])
    /\ \A t \in Pg!Tables : Pg!Written(tab[t]) = Pg!Written(row[0])

TxnsAgree ==
    \A w \in PgWriters : pgPc[w] = "mutated" =>
        \A i \in Pg!Parts : Pg!Written(txn[w][i]) = Pg!Written(row[0]) \cup {w}

\* What a read has is in order, and not newer than what is stored.
ReadInv(r) ==
    /\ pgPc[r] = "idle" => pgSeen[r] = <<>>
    /\ pgPc[r] = "reading" => Len(pgSeen[r]) <= NTables
    /\ asked[r] \subseteq Pg!Written(row[0])
    /\ \A j \in DOMAIN pgSeen[r] :
        /\ Pg!Written(pgSeen[r][j]) \subseteq Pg!Written(row[0])
        /\ asked[r] \subseteq pgSeen[r][j]
        /\ \A i \in 1..j : Pg!Written(pgSeen[r][i]) \subseteq pgSeen[r][j]

ReadsInv ==
    /\ IInv /\ PartsAgree /\ TxnsAgree
    /\ asked \in [PgReaders -> SUBSET PgWriters]
    /\ pgSeen \in [PgReaders -> Seq(Part)]
    /\ \A r \in PgReaders : ReadInv(r)

LEMMA ReadsInitially == Pg!Init => ReadsInv
  <1> SUFFICES ASSUME Pg!Init PROVE ReadsInv
    OBVIOUS
  <1>1. PartsAgree
    BY ZeroIsPart DEF Pg!Init, PartsAgree, Pg!Written
  <1>2. TxnsAgree
    BY DEF Pg!Init, TxnsAgree, Pg!Calls
  <1>3. \A r \in PgReaders : pgPc[r] = "idle" /\ pgSeen[r] = <<>> /\ asked[r] = {}
    BY DEF Pg!Init, Pg!Calls
  <1>4. \A r \in PgReaders : ReadInv(r)
    BY <1>3 DEF ReadInv
  <1>5. pgSeen \in [PgReaders -> Seq(Part)] /\ asked \in [PgReaders -> SUBSET PgWriters]
    BY DEF Pg!Init
  <1>. QED
    BY <1>1, <1>2, <1>4, <1>5, InitIInv DEF ReadsInv

\* A read that takes no step itself.
LEMMA ReadStays ==
    ASSUME ReadsInv, NEW r \in PgReaders,
           pgSeen'[r] = pgSeen[r], asked'[r] = asked[r],
           Pg!Written(row[0]) \subseteq Pg!Written(row'[0]),
           pgPc'[r] = pgPc[r] \/ pgPc'[r] \notin {"idle", "reading"}
    PROVE  ReadInv(r)'
  <1>1. Pg!Written(row[0])' = Pg!Written(row'[0])
        /\ \A j \in DOMAIN pgSeen[r] : Pg!Written(pgSeen[r][j])' = Pg!Written(pgSeen[r][j])
    BY DEF Pg!Written
  <1>2. ReadInv(r)
    BY DEF ReadsInv
  <1>. QED
    BY <1>1, <1>2 DEF ReadInv, Pg!Written

\* Reads and writes are different calls.
LEMMA CallsApart ==
    /\ \A w \in PgWriters : w \in Pg!Calls /\ w \notin PgReaders
    /\ \A r \in PgReaders : r \in Pg!Calls /\ r \notin PgWriters
    /\ Drills \subseteq PgReaders
  BY PgCallsAssumption DEF Pg!Calls

\* What the reads keep as long as nothing is committed.
LEMMA NothingCommitted ==
    ASSUME ReadsInv, IInv', row' = row, txn' = txn, PartsAgree',
           \A w \in PgWriters : pgPc'[w] = "mutated" => pgPc[w] = "mutated",
           UNCHANGED <<asked, pgSeen>>,
           \A r \in PgReaders : pgPc'[r] = pgPc[r] \/ pgPc'[r] \notin {"idle", "reading"}
    PROVE  ReadsInv'
  <1>1. \A r \in PgReaders : ReadInv(r)'
    BY ReadStays DEF Pg!Written
  <1>2. TxnsAgree'
    BY DEF ReadsInv, TxnsAgree, Pg!Written
  <1>. QED
    BY <1>1, <1>2 DEF ReadsInv

LEMMA BackfillAgrees ==
    ASSUME ReadsInv, NEW p \in Servers, Pg!Backfill(p)
    PROVE  PartsAgree'
  <1>1. PICK t \in Pg!Tables : tab[t] = {} /\ tab' = [tab EXCEPT ![t] = row[t]]
    BY DEF Pg!Backfill
  <1>2. row' = row /\ t \in Pg!Parts
    BY TablesAreParts DEF Pg!Backfill
  <1>3. \A u \in Pg!Tables : tab'[u] = IF u = t THEN row[t] ELSE tab[u]
    BY <1>1 DEF ReadsInv, IInv, TypeOK
  <1>. QED
    BY <1>2, <1>3 DEF ReadsInv, PartsAgree, Pg!Written

LEMMA MutateKeepsReads ==
    ASSUME ReadsInv, IInv', NEW w \in PgWriters, Pg!Mutate(w)
    PROVE  ReadsInv'
  <1>1. /\ UNCHANGED <<row, tab, asked, pgSeen>>
        /\ txn' = [txn EXCEPT ![w] = [i \in Pg!Parts |-> Pg!Assembled(row[0], tab)[i] \cup {w}]]
        /\ pgPc' = [pgPc EXCEPT ![w] = "mutated"]
    BY DEF Pg!Mutate
  <1>2. \A c \in Pg!Calls : pgPc'[c] = IF c = w THEN "mutated" ELSE pgPc[c]
    BY <1>1 DEF ReadsInv, IInv, TypeOK
  <1>3. \A v \in PgWriters : v # w => txn'[v] = txn[v]
    BY <1>1 DEF ReadsInv, IInv, TypeOK
  <1>4. w # Default
    BY PgCallsAssumption
  <1>5. ASSUME NEW i \in Pg!Parts
        PROVE  Pg!Written(txn'[w][i]) = Pg!Written(row[0]) \cup {w}
    <2>1. txn'[w][i] = (IF i = 0 THEN row[0] ELSE tab[i]) \cup {w}
      BY <1>1 DEF ReadsInv, IInv, TypeOK, Pg!Assembled
    <2>2. i # 0 => i \in Pg!Tables
      BY TablesAreParts
    <2>. QED
      BY <1>4, <2>1, <2>2 DEF ReadsInv, PartsAgree, Pg!Written
  <1>6. TxnsAgree'
    BY <1>1, <1>2, <1>3, <1>5, CallsApart DEF ReadsInv, TxnsAgree, Pg!Written
  <1>7. PartsAgree'
    BY <1>1 DEF ReadsInv, PartsAgree, Pg!Written
  <1>8. \A r \in PgReaders : ReadInv(r)'
    BY <1>1, <1>2, CallsApart, ReadStays DEF Pg!Written
  <1>. QED
    BY <1>1, <1>6, <1>7, <1>8 DEF ReadsInv

LEMMA CommitKeepsReads ==
    ASSUME ReadsInv, IInv', NEW w \in PgWriters, Pg!Commit(w)
    PROVE  ReadsInv'
  <1>1. /\ UNCHANGED <<txn, asked, pgSeen>> /\ pgPc[w] = "mutated"
        /\ row' = txn[w] /\ tab' = [t \in Pg!Tables |-> txn[w][t]]
        /\ pgPc' = [pgPc EXCEPT ![w] = "committed"]
    BY DEF Pg!Commit
  <1>2. \A c \in Pg!Calls : pgPc'[c] = IF c = w THEN "committed" ELSE pgPc[c]
    BY <1>1 DEF ReadsInv, IInv, TypeOK
  <1>3. \A i \in Pg!Parts : Pg!Written(row'[i]) = Pg!Written(row[0]) \cup {w}
    BY <1>1 DEF ReadsInv, TxnsAgree
  <1>4. \A v \in PgWriters : pgPc'[v] # "mutated"
    BY <1>1, <1>2, CallsApart DEF ReadsInv, IInv, Locked
  <1>5. TxnsAgree'
    BY <1>4 DEF TxnsAgree
  <1>6. PartsAgree'
    BY <1>1, <1>3, ZeroIsPart, TablesAreParts DEF PartsAgree, Pg!Written
  <1>7. Pg!Written(row[0]) \subseteq Pg!Written(row'[0])
    BY <1>3, ZeroIsPart
  <1>8. \A r \in PgReaders : ReadInv(r)'
    BY <1>1, <1>2, <1>7, CallsApart, ReadStays
  <1>. QED
    BY <1>1, <1>5, <1>6, <1>8 DEF ReadsInv

LEMMA ReadKeepsReads ==
    ASSUME ReadsInv, IInv', NEW r \in PgReaders, Pg!Read(r)
    PROVE  ReadsInv'
  <1>1. /\ UNCHANGED <<row, tab, txn, pgSeen>> /\ pgPc[r] = "idle"
        /\ asked' = [asked EXCEPT ![r] = Pg!Acked]
        /\ pgPc' = [pgPc EXCEPT ![r] = "reading"]
    BY DEF Pg!Read
  <1>2. \A c \in Pg!Calls : pgPc'[c] = IF c = r THEN "reading" ELSE pgPc[c]
    BY <1>1 DEF ReadsInv, IInv, TypeOK
  <1>3. /\ asked' \in [PgReaders -> SUBSET PgWriters] /\ asked'[r] = Pg!Acked
        /\ \A q \in PgReaders : q # r => asked'[q] = asked[q]
    BY <1>1 DEF ReadsInv, Pg!Acked
  <1>4. ReadInv(r)'
    <2>1. pgSeen'[r] = <<>>
      BY <1>1 DEF ReadsInv, ReadInv
    <2>2. Pg!Acked \subseteq Pg!Written(row[0])
      BY PgCallsAssumption DEF ReadsInv, IInv, Effects, Pg!Acked, Pg!Written
    <2>3. pgPc'[r] = "reading"
      BY <1>2, CallsApart
    <2>. QED
      BY <1>1, <1>3, <2>1, <2>2, <2>3, PgCallsAssumption DEF ReadInv, Pg!Written
  <1>5. \A q \in PgReaders : q # r => ReadInv(q)'
    BY <1>1, <1>2, <1>3, CallsApart, ReadStays
  <1>6. PartsAgree' /\ TxnsAgree'
    BY <1>1, <1>2, CallsApart DEF ReadsInv, PartsAgree, TxnsAgree, Pg!Written
  <1>. QED
    BY <1>1, <1>3, <1>4, <1>5, <1>6 DEF ReadsInv

LEMMA SelectKeepsReads ==
    ASSUME ReadsInv, IInv', NEW r \in PgReaders, Pg!Select(r)
    PROVE  ReadsInv'
  <1> DEFINE n == Len(pgSeen[r])
             part == IF n = 0 THEN row[0] ELSE tab[n]
  <1>1. /\ UNCHANGED <<row, tab, txn, asked>> /\ pgPc[r] = "reading"
        /\ pgSeen' = [pgSeen EXCEPT ![r] = Append(@, part)]
        /\ pgPc' = [pgPc EXCEPT ![r] = IF n = NTables THEN "ok" ELSE @]
    BY DEF Pg!Select
  <1>2. \A c \in Pg!Calls :
            pgPc'[c] = IF c = r /\ n = NTables THEN "ok" ELSE pgPc[c]
    BY <1>1 DEF ReadsInv, IInv, TypeOK
  <1>3. pgSeen[r] \in Seq(Part) /\ n \in Nat /\ n <= NTables /\ ReadInv(r)
        /\ DOMAIN pgSeen[r] = 1..n
    BY <1>1 DEF ReadsInv, ReadInv
  <1>4. n = 0 \/ n \in Pg!Tables
    BY <1>3, PgCallsAssumption DEF Pg!Tables
  <1>5. part \in Part /\ Pg!Written(part) = Pg!Written(row[0])
    BY <1>4, ZeroIsPart DEF ReadsInv, IInv, TypeOK, PartsAgree
  <1> HIDE DEF part
  <1>6. /\ pgSeen' \in [PgReaders -> Seq(Part)]
        /\ pgSeen'[r] = Append(pgSeen[r], part)
        /\ \A q \in PgReaders : q # r => pgSeen'[q] = pgSeen[q]
    BY <1>1, <1>3, <1>5 DEF ReadsInv
  <1>7. /\ DOMAIN pgSeen'[r] = 1..(n + 1) /\ Len(pgSeen'[r]) = n + 1
        /\ pgSeen'[r][n + 1] = part
        /\ \A j \in 1..n : pgSeen'[r][j] = pgSeen[r][j]
    BY <1>3, <1>5, <1>6
  <1> HIDE DEF n
  <1>8. ReadInv(r)'
    <2>1. pgPc'[r] # "idle" /\ (pgPc'[r] = "reading" => n + 1 <= NTables)
      BY <1>1, <1>2, <1>3, CallsApart, PgCallsAssumption
    <2>2. ASSUME NEW j \in 1..(n + 1)
          PROVE  /\ Pg!Written(pgSeen'[r][j]) \subseteq Pg!Written(row[0])
                 /\ asked[r] \subseteq pgSeen'[r][j]
                 /\ \A i \in 1..j : Pg!Written(pgSeen'[r][i]) \subseteq pgSeen'[r][j]
      <3>0. \A i \in 1..n : Pg!Written(pgSeen[r][i]) \subseteq Pg!Written(row[0])
        BY <1>3 DEF ReadInv
      <3>1. CASE j = n + 1
        <4>1. \A i \in 1..j : i \in 1..n \/ i = n + 1
          BY <1>3
        <4>2. Pg!Written(part) \subseteq part /\ asked[r] \subseteq Pg!Written(row[0])
          BY <1>3 DEF ReadInv, Pg!Written
        <4>. QED
          BY <1>5, <1>7, <3>0, <3>1, <4>1, <4>2
      <3>2. CASE j \in 1..n
        <4>1. \A i \in 1..j : i \in 1..n
          BY <1>3, <3>2
        <4>. QED
          BY <1>3, <1>7, <3>0, <3>2, <4>1 DEF ReadInv
      <3>. QED
        BY <1>3, <3>1, <3>2
    <2>3. asked'[r] = asked[r] /\ row' = row /\ asked[r] \subseteq Pg!Written(row[0])
      BY <1>1, <1>3 DEF ReadInv
    <2>. QED
      BY <1>7, <2>1, <2>2, <2>3 DEF ReadInv, Pg!Written
  <1>9. \A q \in PgReaders : q # r => ReadInv(q)'
    BY <1>1, <1>2, <1>6, CallsApart, ReadStays
  <1>10. PartsAgree' /\ TxnsAgree'
    BY <1>1, <1>2, CallsApart DEF ReadsInv, PartsAgree, TxnsAgree, Pg!Written
  <1>. QED
    BY <1>1, <1>6, <1>8, <1>9, <1>10 DEF ReadsInv

\* The other steps commit nothing and take no part.
LEMMA OthersKeepReads ==
    ASSUME ReadsInv, IInv',
           \/ \E p \in Servers : Pg!Boot(p) \/ Pg!Backfill(p) \/ Pg!Crash(p)
           \/ \E w \in PgWriters : Pg!Enqueue(w) \/ Pg!Lock(w) \/ Pg!Succeed(w) \/ Pg!WriteFails(w)
           \/ \E d \in Drills : Pg!Backup(d) \/ Pg!Verify(d)
    PROVE  ReadsInv'
  <1>0. pgPc \in [Pg!Calls -> Places]
    BY DEF ReadsInv, IInv, TypeOK
  <1>1. /\ UNCHANGED <<row, txn, asked, pgSeen>>
        /\ tab' = tab \/ \E p \in Servers : Pg!Backfill(p)
    BY DEF Pg!Boot, Pg!Backfill, Pg!Crash, Pg!Enqueue, Pg!Lock, Pg!Succeed, Pg!WriteFails,
           Pg!Settle, Pg!Backup, Pg!Verify
  <1>2. PartsAgree'
    BY <1>1, BackfillAgrees DEF ReadsInv, PartsAgree, Pg!Written
  <1>3. ASSUME NEW c \in Pg!Calls
        PROVE  /\ pgPc'[c] = "mutated" => pgPc[c] = "mutated"
               /\ c \in PgReaders => pgPc'[c] = pgPc[c] \/ pgPc'[c] \notin {"idle", "reading"}
    <2>1. CASE \E p \in Servers : Pg!Boot(p) \/ Pg!Backfill(p)
      BY <2>1 DEF Pg!Boot, Pg!Backfill
    <2>2. CASE \E p \in Servers : Pg!Crash(p)
      BY <2>2 DEF Pg!Crash
    <2>3. CASE \E w \in PgWriters : Pg!Enqueue(w) \/ Pg!Lock(w) \/ Pg!Succeed(w) \/ Pg!WriteFails(w)
      BY <1>0, <2>3, CallsApart DEF Pg!Enqueue, Pg!Lock, Pg!Succeed, Pg!WriteFails, Pg!Settle
    <2>4. CASE \E d \in Drills : Pg!Backup(d) \/ Pg!Verify(d)
      BY <1>0, <2>4, CallsApart DEF Pg!Backup, Pg!Verify
    <2>. QED
      BY <2>1, <2>2, <2>3, <2>4
  <1>. QED
    BY <1>1, <1>2, <1>3, CallsApart, NothingCommitted

\* A read of the Postgres store is no snapshot, but whatever is written while
\* it takes part after part, and whatever crashes, it never goes back in time.
THEOREM ReadsForwardHolds == Pg!Spec => []ReadsForward
  <1>1. ReadsInv /\ [Pg!Next]_(Pg!vars) => ReadsInv'
    <2> SUFFICES ASSUME ReadsInv, [Pg!Next]_(Pg!vars) PROVE ReadsInv'
      OBVIOUS
    <2>1. IInv'
      BY NextIInv DEF ReadsInv
    <2>2. CASE Pg!Next
      BY <2>1, <2>2, MutateKeepsReads, CommitKeepsReads, ReadKeepsReads, SelectKeepsReads,
         OthersKeepReads DEF Pg!Next, Pg!WriteStep
    <2>3. CASE UNCHANGED Pg!vars
      <3>1. UNCHANGED <<row, tab, txn, pgPc, asked, pgSeen>>
        BY <2>3 DEF Pg!vars
      <3>2. PartsAgree'
        BY <3>1 DEF ReadsInv, PartsAgree, Pg!Written
      <3>. QED
        BY <2>1, <3>1, <3>2, NothingCommitted
    <2>. QED
      BY <2>2, <2>3
  <1>2. ReadsInv => ReadsForward
    BY DEF ReadsInv, ReadInv, ReadsForward, Pg!ReadsForward
  <1>. QED
    BY ReadsInitially, <1>1, <1>2, PTL DEF Pg!Spec

-----------------------------------------------------------------------------
(* The schema *)

\* Keys are unique from the second migration on, or from the start if the
\* script has made the table; whoever is past its start has a table.
SchemaInv ==
    /\ keys \in Seq(Schema!Migrations)
    /\ columns = "none" => keys = <<>> /\ \A p \in Schema!Runners : at[p] = "down"
    /\ Schema!Unique => ~Schema!Duplicate
    /\ DOMAIN at = Schema!Runners /\ DOMAIN have = Schema!Runners
    /\ \A p \in Schema!Runners : at[p] = "applying" => have[p] \subseteq Schema!Keys
    /\ \A p \in Schema!Runners : at[p] = "up" => Schema!Keys = Schema!Migrations

LEMMA SchemaInitially == Schema!Init => SchemaInv
  BY DEF Schema!Init, SchemaInv, Schema!Duplicate, Schema!Keys

LEMMA DueIsMissing ==
    ASSUME NEW p \in Schema!Runners, Schema!Missing(p) # {}
    PROVE  Schema!Due(p) \in Schema!Missing(p)
  <1>1. Schema!Missing(p) \subseteq Nat
    BY MigrationsAssumption DEF Schema!Missing, Schema!Migrations
  <1>2. \E m \in Schema!Missing(p) : \A n \in Schema!Missing(p) : m <= n
    BY <1>1, Least
  <1>. QED
    BY <1>2 DEF Schema!Due

\* The keys only grow, and all of them are of migrations.
LEMMA KeysKept ==
    ASSUME SchemaInv, NEW m \in Schema!Migrations, keys' = Append(keys, m)
    PROVE  /\ keys' \in Seq(Schema!Migrations)
           /\ Schema!Keys' = Schema!Keys \cup {m}
           /\ Schema!Keys \subseteq Schema!Migrations
           /\ ~Schema!Duplicate /\ m \notin Schema!Keys => ~Schema!Duplicate'
  <1>1. /\ keys \in Seq(Schema!Migrations) /\ Len(keys) \in Nat
        /\ DOMAIN keys = 1..Len(keys)
    BY DEF SchemaInv
  <1>2. /\ keys' \in Seq(Schema!Migrations)
        /\ DOMAIN keys' = 1..(Len(keys) + 1) /\ keys'[Len(keys) + 1] = m
        /\ \A i \in DOMAIN keys : keys'[i] = keys[i]
    BY <1>1
  <1>3. DOMAIN keys' = DOMAIN keys \cup {Len(keys) + 1}
    BY <1>1, <1>2
  <1>4. Schema!Keys' = Schema!Keys \cup {m}
    BY <1>2, <1>3 DEF Schema!Keys
  <1>5. ~Schema!Duplicate /\ m \notin Schema!Keys => ~Schema!Duplicate'
    BY <1>2, <1>3 DEF Schema!Duplicate, Schema!Keys
  <1>6. Schema!Keys \subseteq Schema!Migrations
    BY <1>1 DEF Schema!Keys
  <1>. QED
    BY <1>2, <1>4, <1>5, <1>6

LEMMA ApplyKeepsSchema ==
    ASSUME SchemaInv, NEW p \in Schema!Runners, Schema!Apply(p)
    PROVE  SchemaInv'
  <1> DEFINE m == Schema!Due(p)
  <1>1. /\ at[p] = "applying" /\ keys' = Append(keys, m)
        /\ have' = [have EXCEPT ![p] = @ \cup {m}]
        /\ UNCHANGED <<columns, at, starts>>
        /\ Schema!Unique => m \notin Schema!Keys
        /\ m = 2 => ~Schema!Duplicate
    BY DEF Schema!Apply, Schema!CanApply
  <1>2. m \in Schema!Migrations
    BY DueIsMissing DEF Schema!Apply, Schema!Missing
  <1> HIDE DEF m
  <1>3. /\ keys' \in Seq(Schema!Migrations)
        /\ Schema!Keys' = Schema!Keys \cup {m}
        /\ Schema!Keys \subseteq Schema!Migrations
        /\ ~Schema!Duplicate /\ m \notin Schema!Keys => ~Schema!Duplicate'
    BY <1>1, <1>2, KeysKept
  <1>4. Schema!Unique' => ~Schema!Duplicate'
    BY <1>1, <1>3 DEF SchemaInv, Schema!Unique
  <1>5. columns' # "none"
    BY <1>1 DEF SchemaInv
  <1>6. ASSUME NEW q \in Schema!Runners, at'[q] = "applying"
        PROVE  have'[q] \subseteq Schema!Keys'
    BY <1>1, <1>3, <1>6 DEF SchemaInv
  <1>. QED
    BY <1>1, <1>2, <1>3, <1>4, <1>5, <1>6 DEF SchemaInv, Schema!Runners

LEMMA StepsKeepSchema ==
    ASSUME SchemaInv, NEW p \in Schema!Runners,
           \/ Schema!Start(p) \/ Schema!Select(p) \/ Schema!Fails(p)
           \/ Schema!Finish(p) \/ Schema!Stop(p)
    PROVE  SchemaInv'
  <1>1. UNCHANGED keys /\ Schema!Keys' = Schema!Keys /\ Schema!Duplicate' = Schema!Duplicate
    BY DEF Schema!Start, Schema!Select, Schema!Fails, Schema!Finish, Schema!Stop,
           Schema!Keys, Schema!Duplicate
  <1>2. CASE Schema!Start(p)
    <2>1. /\ at' = [at EXCEPT ![p] = "started"] /\ have' = have
          /\ columns' = IF columns # "none" THEN columns
                        ELSE IF p = Script THEN "two" ELSE "five"
      BY <1>2 DEF Schema!Start
    <2>2. Schema!Unique' => ~Schema!Duplicate
      <3>1. CASE columns = "none"
        BY <3>1 DEF SchemaInv, Schema!Duplicate
      <3>2. CASE columns # "none"
        BY <1>1, <2>1, <3>2 DEF SchemaInv, Schema!Unique
      <3>. QED
        BY <3>1, <3>2
    <2>. QED
      BY <1>1, <2>1, <2>2 DEF SchemaInv, Schema!Runners
  <1>3. CASE Schema!Select(p)
    <2>1. /\ at' = [at EXCEPT ![p] = "applying"] /\ columns' = columns
          /\ at[p] = "started"
          /\ have' = [have EXCEPT ![p] = IF p = Script THEN {} ELSE Schema!Keys]
      BY <1>3 DEF Schema!Select
    <2>. QED
      BY <1>1, <2>1 DEF SchemaInv, Schema!Runners, Schema!Unique
  <1>4. CASE Schema!Fails(p) \/ Schema!Stop(p)
    <2>1. at' = [at EXCEPT ![p] = "down"] /\ columns' = columns /\ have' = have
      BY <1>4 DEF Schema!Fails, Schema!Stop
    <2>. QED
      BY <1>1, <2>1 DEF SchemaInv, Schema!Runners, Schema!Unique
  <1>5. CASE Schema!Finish(p)
    <2>1. /\ at' = [at EXCEPT ![p] = "up"] /\ columns' = columns /\ have' = have
          /\ at[p] = "applying" /\ Schema!Missing(p) = {}
      BY <1>5 DEF Schema!Finish
    <2>2. Schema!Keys = Schema!Migrations
      BY <2>1 DEF SchemaInv, Schema!Missing, Schema!Keys
    <2>. QED
      BY <1>1, <2>1, <2>2 DEF SchemaInv, Schema!Runners, Schema!Unique
  <1>. QED
    BY <1>2, <1>3, <1>4, <1>5

\* However boots, scripts and crashes interleave, a process that serves
\* requests does so over a schema with every migration, each once.
THEOREM ServesWholeSchemaHolds == Schema!Spec => []ServesWholeSchema
  <1>1. SchemaInv /\ [Schema!Next]_(Schema!vars) => SchemaInv'
    <2> SUFFICES ASSUME SchemaInv, [Schema!Next]_(Schema!vars) PROVE SchemaInv'
      OBVIOUS
    <2>1. CASE Schema!Next
      BY <2>1, ApplyKeepsSchema, StepsKeepSchema DEF Schema!Next
    <2>2. CASE UNCHANGED Schema!vars
      BY <2>2 DEF Schema!vars, SchemaInv, Schema!Keys, Schema!Unique, Schema!Duplicate
    <2>. QED
      BY <2>1, <2>2
  <1>2. SchemaInv => ServesWholeSchema
    <2>1. 2 \in Schema!Migrations
      BY MigrationsAssumption DEF Schema!Migrations
    <2>. QED
      BY <2>1 DEF SchemaInv, ServesWholeSchema, Schema!ServesWholeSchema, Schema!Unique,
                  Schema!Runners
  <1>. QED
    BY SchemaInitially, <1>1, <1>2, PTL DEF Schema!Spec

=============================================================================
