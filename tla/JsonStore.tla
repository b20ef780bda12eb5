----------------------------- MODULE JsonStore -----------------------------
(***************************************************************************)
(* JsonStateStore (packages/core/src/json-store.ts): one file that every   *)
(* write reads, changes and replaces by a rename, and a chain of promises, *)
(* one per process, that lets one write of the process begin when the one  *)
(* before it has settled, whichever way it did.                            *)
(***************************************************************************)
EXTENDS Sequences, FiniteSets

CONSTANTS Procs,     \* the processes that have the file open
          Writers,   \* the calls of write, each with a mutator of its own
          Readers,   \* the calls of read
          Home,      \* the process that makes a call
          None,      \* no file, no write
          Torn       \* a file that is open for writing and not yet written

ASSUME CallsAssumption ==
    /\ Home \in [Writers \cup Readers -> Procs]
    /\ Writers \cap Readers = {}
    /\ None \notin Writers
    /\ None # Torn
    /\ \A s \in SUBSET Writers : s # None /\ s # Torn

VARIABLES disk,    \* what the file holds: a set of writes, Torn, or None
          boot,    \* per process: how far its init() is
          chain,   \* per process: the writes that have not settled, in order
          tail,    \* per process: the write whose promise is the chain's
          pc,      \* per call: where it is
          awaits,  \* per read: the write whose promise it awaits
          mem,     \* per write: the state it has read from the file
          seen     \* per read: what it returned, a set holding the state

vars == <<disk, boot, chain, tail, pc, awaits, mem, seen>>

Calls == Writers \cup Readers

Init ==
    /\ disk = None
    /\ boot = [p \in Procs |-> "down"]
    /\ chain = [p \in Procs |-> <<>>]
    /\ tail = [p \in Procs |-> None]
    /\ pc = [c \in Calls |-> "idle"]
    /\ awaits = [r \in Readers |-> None]
    /\ mem = [w \in Writers |-> {}]
    /\ seen = [r \in Readers |-> {}]

(***************************************************************************)
(* init(): a missing file is written, in place, with the defaults. It is   *)
(* awaited when the core is created; nothing deletes the file after that,  *)
(* so the init() at the head of every call does nothing.                   *)
(***************************************************************************)
Access(p) ==
    /\ boot[p] = "down"
    /\ boot' = [boot EXCEPT ![p] = IF disk = None THEN "creating" ELSE "up"]
    /\ UNCHANGED <<disk, chain, tail, pc, awaits, mem, seen>>

Truncate(p) ==
    /\ boot[p] = "creating"
    /\ boot' = [boot EXCEPT ![p] = "writing"]
    /\ disk' = Torn
    /\ UNCHANGED <<chain, tail, pc, awaits, mem, seen>>

\* If the file was replaced meanwhile, what is written is no longer it.
Fill(p) ==
    /\ boot[p] = "writing"
    /\ boot' = [boot EXCEPT ![p] = "up"]
    /\ disk' = IF disk = Torn THEN {} ELSE disk
    /\ UNCHANGED <<chain, tail, pc, awaits, mem, seen>>

\* write() joins the chain of its process.
Enqueue(w) ==
    /\ boot[Home[w]] = "up"
    /\ pc[w] = "idle"
    /\ pc' = [pc EXCEPT ![w] = "queued"]
    /\ chain' = [chain EXCEPT ![Home[w]] = Append(@, w)]
    /\ tail' = [tail EXCEPT ![Home[w]] = w]
    /\ UNCHANGED <<disk, boot, awaits, mem, seen>>

\* Wrong: a write does not wait for those before it.
UnchainedTurn(w) == \E i \in DOMAIN chain[Home[w]] : chain[Home[w]][i] = w

\* Wrong: chain.then(runWrite) leaves out what comes after a failed write.
StoppedTurn(w) ==
    /\ chain[Home[w]] # <<>> /\ Head(chain[Home[w]]) = w
    /\ \A v \in Writers : Home[v] = Home[w] => pc[v] # "failed"

\* The writes before it have settled: chain.then(runWrite, runWrite).
MyTurn(w) == chain[Home[w]] # <<>> /\ Head(chain[Home[w]]) = w

Settle(w, outcome) ==
    /\ pc' = [pc EXCEPT ![w] = outcome]
    /\ chain' = [chain EXCEPT ![Home[w]] = Tail(@)]

Load(w) ==
    /\ MyTurn(w)
    /\ pc[w] = "queued"
    /\ disk \notin {None, Torn}
    /\ mem' = [mem EXCEPT ![w] = disk]
    /\ pc' = [pc EXCEPT ![w] = "loaded"]
    /\ UNCHANGED <<disk, boot, chain, tail, awaits, seen>>

\* The mutator has run, its state is in a file of its own, which is renamed.
Replace(w) ==
    /\ MyTurn(w)
    /\ pc[w] = "loaded"
    /\ disk' = mem[w] \cup {w}
    /\ pc' = [pc EXCEPT ![w] = "renamed"]
    /\ UNCHANGED <<boot, chain, tail, awaits, mem, seen>>

Succeed(w) ==
    /\ MyTurn(w)
    /\ pc[w] = "renamed"
    /\ Settle(w, "ok")
    /\ UNCHANGED <<disk, boot, tail, awaits, mem, seen>>

\* Reading the file, the mutator, or writing the new file throws.
WriteFails(w) ==
    /\ MyTurn(w)
    /\ pc[w] \in {"queued", "loaded"}
    /\ Settle(w, "failed")
    /\ UNCHANGED <<disk, boot, tail, awaits, mem, seen>>

\* read() awaits the chain as it is at this moment.
Await(r) ==
    /\ boot[Home[r]] = "up"
    /\ pc[r] = "idle"
    /\ awaits' = [awaits EXCEPT ![r] = tail[Home[r]]]
    /\ pc' = [pc EXCEPT ![r] = "waiting"]
    /\ UNCHANGED <<disk, boot, chain, tail, mem, seen>>

ReadFile(r) ==
    /\ pc[r] = "waiting"
    /\ awaits[r] # None => pc[awaits[r]] = "ok"
    /\ disk \notin {None, Torn}
    /\ seen' = [seen EXCEPT ![r] = {disk}]
    /\ pc' = [pc EXCEPT ![r] = "ok"]
    /\ UNCHANGED <<disk, boot, chain, tail, awaits, mem>>

\* The awaited write has failed, and so does the read; or the file cannot be
\* read or parsed.
ReadFails(r) ==
    /\ pc[r] = "waiting"
    /\ awaits[r] # None => pc[awaits[r]] \in {"ok", "failed"}
    /\ pc' = [pc EXCEPT ![r] = "failed"]
    /\ UNCHANGED <<disk, boot, chain, tail, awaits, mem, seen>>

\* The process dies: its calls are never answered, its chain is gone.
Crash(p) ==
    /\ boot[p] # "down"
    /\ boot' = [boot EXCEPT ![p] = "down"]
    /\ chain' = [chain EXCEPT ![p] = <<>>]
    /\ tail' = [tail EXCEPT ![p] = None]
    /\ pc' = [c \in Calls |->
                IF Home[c] = p /\ pc[c] \notin {"idle", "ok", "failed"}
                THEN "lost" ELSE pc[c]]
    /\ UNCHANGED <<disk, awaits, mem, seen>>

BootStep(p) == Access(p) \/ Truncate(p) \/ Fill(p)

WriteStep(w) == Load(w) \/ Replace(w) \/ Succeed(w) \/ WriteFails(w)

ReadStep(r) == ReadFile(r) \/ ReadFails(r)

Next ==
    \/ \E p \in Procs : BootStep(p) \/ Crash(p)
    \/ \E w \in Writers : Enqueue(w) \/ WriteStep(w)
    \/ \E r \in Readers : Await(r) \/ ReadStep(r)

Spec == Init /\ [][Next]_vars

(***************************************************************************)
(* Fairness: the event loop runs, and an operation on the file ends. That  *)
(* a call is made, and that a process dies, is up to no one.               *)
(***************************************************************************)
Fairness ==
    /\ \A p \in Procs : WF_vars(BootStep(p))
    /\ \A w \in Writers : WF_vars(WriteStep(w))
    /\ \A r \in Readers : WF_vars(ReadStep(r))

FairSpec == Spec /\ Fairness

-----------------------------------------------------------------------------
(***************************************************************************)
(* What the file and the promises amount to: of a file that is not there   *)
(* or not written, no write has taken effect.                              *)
(***************************************************************************)
Applied == IF disk \in {None, Torn} THEN {} ELSE disk

S == INSTANCE Store WITH
        Writes <- Writers,
        applied <- Applied,
        acked <- {w \in Writers : pc[w] = "ok"},
        refused <- {w \in Writers : pc[w] = "failed"}

(***************************************************************************)
(* The file behind the chain is a store: no acknowledged write is ever     *)
(* missing from it, no refused one is in it, and a read returns what the   *)
(* file held at one moment (json-store.ts:24-47). It is so for one         *)
(* process: the chains of two know nothing of each other.                  *)
(***************************************************************************)
JsonImplementsStore == S!Spec

(***************************************************************************)
(* Every call is answered unless its process dies: a write that fails does *)
(* not hold up the writes chained behind it (json-store.ts:40).            *)
(***************************************************************************)
CallsSettle ==
    \A c \in Calls :
        pc[c] \in {"queued", "waiting"} ~> pc[c] \in {"ok", "failed", "lost"}

=============================================================================
