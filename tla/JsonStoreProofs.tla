-------------------------- MODULE JsonStoreProofs --------------------------
(***************************************************************************)
(* That the JSON store is a store when one process has its file open, for  *)
(* any number of writes and reads, whatever fails and whenever the process *)
(* dies.                                                                   *)
(***************************************************************************)
EXTENDS JsonStore, Naturals, TLAPS

OneProcess == \A p, q \in Procs : p = q

Places == {"idle", "queued", "loaded", "renamed", "waiting",
           "ok", "failed", "lost"}

TypeOK ==
    /\ disk \in (SUBSET Writers) \cup {None, Torn}
    /\ boot \in [Procs -> {"down", "creating", "writing", "up"}]
    /\ chain \in [Procs -> Seq(Writers)]
    /\ tail \in [Procs -> Writers \cup {None}]
    /\ pc \in [Calls -> Places]
    /\ awaits \in [Readers -> Writers \cup {None}]
    /\ mem \in [Writers -> SUBSET Writers]
    /\ seen \in [Readers -> SUBSET (SUBSET Writers)]

\* The file is written in place only while no call is under way.
Booting ==
    \A p \in Procs :
        /\ boot[p] = "creating" => disk = None
        /\ boot[p] = "writing" => disk = Torn
        /\ boot[p] # "up" =>
             \A c \in Calls : Home[c] = p =>
                pc[c] \notin {"queued", "loaded", "renamed", "waiting"}

\* Only the head of the chain is at work.
HeadWorks ==
    \A w \in Writers : pc[w] \in {"loaded", "renamed"} => MyTurn(w)

\* What it has read is still what the file holds.
Fresh ==
    \A w \in Writers : pc[w] = "loaded" =>
        /\ disk \in SUBSET Writers
        /\ mem[w] = disk

\* A write is in the file when its promise says so, and never if it failed.
Effects ==
    \A w \in Writers :
        /\ pc[w] \in {"renamed", "ok"} => w \in Applied
        /\ w \in Applied => pc[w] \in {"renamed", "ok", "lost"}

Unseen == \A r \in Readers : pc[r] # "ok" => seen[r] = {}

IInv == TypeOK /\ Booting /\ HeadWorks /\ Fresh /\ Effects /\ Unseen

-----------------------------------------------------------------------------
(***************************************************************************)
(* A sequence that is not empty has a head among its elements, and its     *)
(* tail is a sequence of them; to append leaves the head of such a one.    *)
(***************************************************************************)
LEMMA HeadTailFacts ==
    ASSUME NEW T, NEW s \in Seq(T), NEW e \in T
    PROVE  /\ s # <<>> => Head(s) \in T /\ Tail(s) \in Seq(T)
           /\ Append(s, e) \in Seq(T) /\ Append(s, e) # <<>>
           /\ s # <<>> => Head(Append(s, e)) = Head(s)
  OBVIOUS

(***************************************************************************)
(* The invariant holds initially.                                          *)
(***************************************************************************)
LEMMA InitIInv == Init => IInv
  <1> SUFFICES ASSUME Init PROVE IInv
    OBVIOUS
  <1> USE CallsAssumption DEF Init, Calls
  <1>1. TypeOK
    BY DEF TypeOK, Places
  <1>2. Booting
    BY DEF Booting
  <1>3. HeadWorks /\ Fresh /\ Unseen
    BY DEF HeadWorks, Fresh, Unseen
  <1>4. Effects
    BY DEF Effects, Applied
  <1>. QED
    BY <1>1, <1>2, <1>3, <1>4 DEF IInv

(***************************************************************************)
(* The types are kept by every step.                                       *)
(***************************************************************************)
LEMMA TypeStep == TypeOK /\ Next => TypeOK'
  <1> SUFFICES ASSUME TypeOK, Next PROVE TypeOK'
    OBVIOUS
  <1> USE CallsAssumption DEF TypeOK, Calls, Places
  <1>1. ASSUME NEW p \in Procs, BootStep(p) PROVE TypeOK'
    BY <1>1 DEF BootStep, Access, Truncate, Fill
  <1>2. ASSUME NEW p \in Procs, Crash(p) PROVE TypeOK'
    BY <1>2 DEF Crash
  <1>3. ASSUME NEW w \in Writers, Enqueue(w) PROVE TypeOK'
    <2>1. chain' \in [Procs -> Seq(Writers)]
      BY <1>3, HeadTailFacts DEF Enqueue
    <2>. QED
      BY <1>3, <2>1 DEF Enqueue
  <1>4. ASSUME NEW w \in Writers, Load(w) \/ Replace(w) PROVE TypeOK'
    BY <1>4 DEF Load, Replace
  <1>5. ASSUME NEW w \in Writers, Succeed(w) \/ WriteFails(w) PROVE TypeOK'
    <2>0. Home[w] \in Procs /\ chain[Home[w]] # <<>>
      BY <1>5 DEF Succeed, WriteFails, MyTurn
    <2>2. Tail(chain[Home[w]]) \in Seq(Writers)
      BY <2>0, HeadTailFacts
    <2>3. chain' = [chain EXCEPT ![Home[w]] = Tail(@)]
      BY <1>5 DEF Succeed, WriteFails, Settle
    <2>1. chain' \in [Procs -> Seq(Writers)]
      BY <2>2, <2>3
    <2>. QED
      BY <1>5, <2>1 DEF Succeed, WriteFails, Settle
  <1>6. ASSUME NEW r \in Readers, Await(r) \/ ReadStep(r) PROVE TypeOK'
    <2>1. CASE Await(r)
      BY <2>1 DEF Await
    <2>2. CASE ReadFile(r)
      <3>1. {disk} \in SUBSET (SUBSET Writers)
        BY <2>2 DEF ReadFile
      <3>. QED
        BY <2>2, <3>1 DEF ReadFile
    <2>3. CASE ReadFails(r)
      BY <2>3 DEF ReadFails
    <2>. QED
      BY <1>6, <2>1, <2>2, <2>3 DEF ReadStep
  <1>. QED
    BY <1>1, <1>2, <1>3, <1>4, <1>5, <1>6 DEF Next, WriteStep

(***************************************************************************)
(* Every step of one process keeps the rest of the invariant.              *)
(***************************************************************************)
LEMMA BootStepIInv ==
    ASSUME OneProcess, IInv, TypeOK',
           NEW p \in Procs, BootStep(p)
    PROVE  IInv'
  <1> USE CallsAssumption DEF IInv, TypeOK, Calls, OneProcess
  <1>0. \A c \in Calls : Home[c] = p /\ pc[c] \notin {"queued", "loaded",
                                        "renamed", "waiting"}
    BY DEF Booting, BootStep, Access, Truncate, Fill
  <1>1. Booting'
    BY DEF Booting, BootStep, Access, Truncate, Fill
  <1>2. HeadWorks' /\ Fresh'
    BY <1>0 DEF HeadWorks, Fresh, BootStep, Access, Truncate, Fill
  <1>3. Applied' = Applied
    <2>1. CASE Access(p)
      BY <2>1 DEF Access, Applied
    <2>2. CASE Truncate(p)
      BY <2>2 DEF Truncate, Applied, Booting
    <2>3. CASE Fill(p)
      BY <2>3 DEF Fill, Applied, Booting
    <2>. QED
      BY <2>1, <2>2, <2>3 DEF BootStep
  <1>4. Effects' /\ Unseen'
    BY <1>3 DEF Effects, Unseen, BootStep, Access, Truncate, Fill
  <1>. QED
    BY <1>1, <1>2, <1>4

LEMMA CrashIInv ==
    ASSUME OneProcess, IInv, TypeOK', NEW p \in Procs, Crash(p)
    PROVE  IInv'
  <1> USE CallsAssumption DEF IInv, TypeOK, Calls, OneProcess, Crash
  <1>0. \A c \in Calls : Home[c] = p
    OBVIOUS
  <1>1. \A c \in Calls : pc'[c] \notin {"queued", "loaded", "renamed",
                                        "waiting"}
    BY <1>0 DEF Places
  <1>2. Booting'
    BY <1>1 DEF Booting
  <1>3. HeadWorks' /\ Fresh'
    BY <1>1 DEF HeadWorks, Fresh
  <1>4. Effects' /\ Unseen'
    BY <1>0 DEF Effects, Unseen, Applied, Places
  <1>. QED
    BY <1>2, <1>3, <1>4

LEMMA EnqueueIInv ==
    ASSUME OneProcess, IInv, TypeOK', NEW w \in Writers, Enqueue(w)
    PROVE  IInv'
  <1> USE CallsAssumption DEF IInv, TypeOK, Calls, OneProcess, Enqueue
  <1>1. Booting'
    BY DEF Booting
  <1>2. HeadWorks'
    <2> SUFFICES ASSUME NEW v \in Writers, pc'[v] \in {"loaded", "renamed"}
                 PROVE  MyTurn(v)'
      BY DEF HeadWorks
    <2>1. MyTurn(v) /\ Home[v] \in Procs /\ Home[w] = Home[v]
      BY DEF HeadWorks
    <2>2. chain'[Home[v]] = Append(chain[Home[v]], w)
      BY <2>1
    <2>. QED
      BY <2>1, <2>2, HeadTailFacts DEF MyTurn
  <1>3. Fresh' /\ Effects' /\ Unseen'
    BY DEF Fresh, Effects, Unseen, Applied
  <1>. QED
    BY <1>1, <1>2, <1>3

\* A write at work is the only one.
LEMMA OneAtWork ==
    ASSUME OneProcess, IInv, NEW v \in Writers, NEW w \in Writers, MyTurn(w),
           pc[v] \in {"loaded", "renamed"}
    PROVE  v = w
  BY CallsAssumption DEF IInv, TypeOK, HeadWorks, MyTurn, OneProcess, Calls

LEMMA WriteStepIInv ==
    ASSUME OneProcess, IInv, TypeOK', NEW w \in Writers, WriteStep(w)
    PROVE  IInv'
  <1> USE CallsAssumption DEF IInv, TypeOK, Calls, OneProcess
  <1>0. MyTurn(w)
    BY DEF WriteStep, Load, Replace, Succeed, WriteFails
  <1>1. \A v \in Writers \ {w} : pc[v] \notin {"loaded", "renamed"}
    BY <1>0, OneAtWork
  <1>2. boot[Home[w]] = "up"
    BY DEF Booting, WriteStep, Load, Replace, Succeed, WriteFails
  <1>3. Booting'
    <2>1. \A q \in Procs : boot'[q] = "up"
      BY <1>2 DEF WriteStep, Load, Replace, Succeed, WriteFails
    <2>. QED
      BY <2>1 DEF Booting
  <1>4. CASE Load(w)
    <2>1. HeadWorks'
      BY <1>0, <1>1, <1>4 DEF HeadWorks, MyTurn, Load
    <2>2. Fresh'
      BY <1>1, <1>4 DEF Fresh, Load
    <2>3. Effects' /\ Unseen'
      BY <1>4 DEF Effects, Unseen, Applied, Load
    <2>. QED
      BY <1>3, <2>1, <2>2, <2>3
  <1>5. CASE Replace(w)
    <2>1. HeadWorks'
      BY <1>0, <1>1, <1>5 DEF HeadWorks, MyTurn, Replace
    <2>2. Fresh'
      BY <1>1, <1>5 DEF Fresh, Replace
    <2>5. disk \in SUBSET Writers /\ disk' = disk \cup {w}
      BY <1>5 DEF Fresh, Replace
    <2>6. disk' \in SUBSET Writers
      BY <2>5
    <2>3. Applied' = Applied \cup {w}
      BY <2>5, <2>6 DEF Applied
    <2>4. Effects' /\ Unseen'
      BY <1>5, <2>3 DEF Effects, Unseen, Replace
    <2>. QED
      BY <1>3, <2>1, <2>2, <2>4
  <1>6. CASE Succeed(w) \/ WriteFails(w)
    <2>1. pc' = [pc EXCEPT ![w] = pc'[w]] /\ pc'[w] \in {"ok", "failed"}
      BY <1>6 DEF Succeed, WriteFails, Settle
    <2>2. HeadWorks' /\ Fresh'
      BY <1>1, <2>1, <1>6 DEF HeadWorks, Fresh, Succeed, WriteFails, Settle
    <2>3. Effects'
      BY <1>6 DEF Effects, Applied, Succeed, WriteFails, Settle
    <2>4. Unseen'
      BY <1>6 DEF Unseen, Succeed, WriteFails, Settle
    <2>. QED
      BY <1>3, <2>2, <2>3, <2>4
  <1>. QED
    BY <1>4, <1>5, <1>6 DEF WriteStep

LEMMA ReadIInv ==
    ASSUME OneProcess, IInv, TypeOK', NEW r \in Readers,
           Await(r) \/ ReadStep(r)
    PROVE  IInv'
  <1> USE CallsAssumption DEF IInv, TypeOK, Calls, OneProcess,
                              Await, ReadStep, ReadFile, ReadFails
  <1>1. Booting'
    BY DEF Booting
  <1>2. pc' = [pc EXCEPT ![r] = pc'[r]] /\ \A w \in Writers : pc'[w] = pc[w]
    OBVIOUS
  <1>3. HeadWorks'
    BY <1>2 DEF HeadWorks, MyTurn
  <1>4. Fresh' /\ Effects'
    BY <1>2 DEF Fresh, Effects, Applied
  <1>5. Unseen'
    BY DEF Unseen
  <1>. QED
    BY <1>1, <1>3, <1>4, <1>5

LEMMA NextIInv == ASSUME OneProcess PROVE IInv /\ [Next]_vars => IInv'
  <1> SUFFICES ASSUME IInv, [Next]_vars PROVE IInv'
    OBVIOUS
  <1>1. CASE Next
    <2>1. TypeOK'
      BY <1>1, TypeStep DEF IInv
    <2>. QED
      BY <1>1, <2>1, BootStepIInv, CrashIInv, EnqueueIInv, WriteStepIInv,
         ReadIInv DEF Next
  <1>2. CASE UNCHANGED vars
    BY <1>2 DEF IInv, vars, TypeOK, Booting, HeadWorks, MyTurn, Fresh, Effects,
                Unseen, Applied
  <1>. QED
    BY <1>1, <1>2

(***************************************************************************)
(* A write that is at work reads what the file will still hold when it is  *)
(* replaced; no failed write is in the file and no acknowledged one is     *)
(* missing (json-store.ts 30-43).                                          *)
(***************************************************************************)
THEOREM JsonInvariant == ASSUME OneProcess PROVE Spec => []IInv
  <1>1. Init => IInv
    BY InitIInv
  <1>2. IInv /\ [Next]_vars => IInv'
    BY NextIInv
  <1>. QED
    BY <1>1, <1>2, PTL DEF Spec

-----------------------------------------------------------------------------
(***************************************************************************)
(* The refinement: every step is one of the store or changes nothing that  *)
(* the store shows.                                                        *)
(***************************************************************************)
LEMMA InitRefines == Init => S!Init
  BY CallsAssumption DEF Init, S!Init, Applied, Calls

LEMMA WriteStepRefines ==
    ASSUME OneProcess, IInv, NEW w \in Writers, WriteStep(w)
    PROVE  [S!Next]_S!vars
  <1> USE CallsAssumption DEF IInv, TypeOK, Calls
  <1>1. CASE Load(w)
    BY <1>1 DEF Load, S!vars, Applied
  <1>2. CASE Replace(w)
    <2>3. disk \in SUBSET Writers /\ disk' = disk \cup {w}
      BY <1>2 DEF Fresh, Replace
    <2>4. disk' \in SUBSET Writers
      BY <2>3
    <2>1. Applied' = Applied \cup {w} /\ w \notin Applied
      BY <1>2, <2>3, <2>4 DEF Replace, Applied, Effects
    <2>2. S!Apply(w)
      BY <1>2, <2>1 DEF Replace, S!Apply
    <2>. QED
      BY <2>2 DEF S!Next
  <1>3. CASE Succeed(w)
    <2>1. w \in Applied /\ Applied' = Applied
      BY <1>3 DEF Succeed, Effects, Applied
    <2>2. S!Acknowledge(w)
      BY <1>3, <2>1 DEF Succeed, Settle, S!Acknowledge
    <2>. QED
      BY <2>2 DEF S!Next
  <1>4. CASE WriteFails(w)
    <2>1. w \notin Applied /\ Applied' = Applied
      BY <1>4 DEF WriteFails, Effects, Applied
    <2>2. S!Refuse(w)
      BY <1>4, <2>1 DEF WriteFails, Settle, S!Refuse
    <2>. QED
      BY <2>2 DEF S!Next
  <1>. QED
    BY <1>1, <1>2, <1>3, <1>4 DEF WriteStep

LEMMA ReadRefines ==
    ASSUME IInv, NEW r \in Readers, Await(r) \/ ReadStep(r)
    PROVE  [S!Next]_S!vars
  <1> USE CallsAssumption DEF IInv, TypeOK, Calls
  <1>1. \A w \in Writers : pc'[w] = pc[w]
    BY DEF Await, ReadStep, ReadFile, ReadFails
  <1>2. Applied' = Applied
    BY DEF Applied, Await, ReadStep, ReadFile, ReadFails
  <1>3. CASE ReadFile(r)
    <2>1. seen[r] = {} /\ seen' = [seen EXCEPT ![r] = {Applied}]
      BY <1>3 DEF ReadFile, Unseen, Applied
    <2>2. S!Observe(r)
      BY <1>1, <1>2, <2>1 DEF S!Observe
    <2>. QED
      BY <2>2 DEF S!Next
  <1>4. CASE Await(r) \/ ReadFails(r)
    BY <1>1, <1>2, <1>4 DEF Await, ReadFails, S!vars
  <1>. QED
    BY <1>3, <1>4 DEF ReadStep

LEMMA OtherStepsRefine ==
    ASSUME IInv,
           \/ \E p \in Procs : BootStep(p) \/ Crash(p)
           \/ \E w \in Writers : Enqueue(w)
    PROVE  UNCHANGED S!vars
  <1> USE CallsAssumption DEF IInv, TypeOK, Calls
  <1>1. ASSUME NEW p \in Procs, BootStep(p) PROVE UNCHANGED S!vars
    BY <1>1 DEF BootStep, Access, Truncate, Fill, S!vars, Applied, Booting
  <1>2. ASSUME NEW p \in Procs, Crash(p) PROVE UNCHANGED S!vars
    <2>1. \A w \in Writers : /\ pc'[w] = "ok" <=> pc[w] = "ok"
                             /\ pc'[w] = "failed" <=> pc[w] = "failed"
      BY <1>2 DEF Crash, Places
    <2>. QED
      BY <1>2, <2>1 DEF Crash, S!vars, Applied
  <1>3. ASSUME NEW w \in Writers, Enqueue(w) PROVE UNCHANGED S!vars
    BY <1>3 DEF Enqueue, S!vars, Applied
  <1>. QED
    BY <1>1, <1>2, <1>3

(***************************************************************************)
(* The JSON file of one process is a store, for all writes and reads:      *)
(* none is lost, a refused one leaves no trace, and every read returns     *)
(* what the file held at one moment (json-store.ts 24-43).                 *)
(***************************************************************************)
THEOREM JsonIsStore == ASSUME OneProcess PROVE Spec => JsonImplementsStore
  <1>1. Init => S!Init
    BY InitRefines
  <1>2. IInv /\ [Next]_vars => [S!Next]_S!vars
    <2> SUFFICES ASSUME IInv, [Next]_vars PROVE [S!Next]_S!vars
      OBVIOUS
    <2>1. CASE Next
      BY <2>1, WriteStepRefines, ReadRefines, OtherStepsRefine DEF Next
    <2>2. CASE UNCHANGED vars
      BY <2>2 DEF vars, S!vars, Applied
    <2>. QED
      BY <2>1, <2>2
  <1>. QED
    BY <1>1, <1>2, JsonInvariant, PTL DEF Spec, JsonImplementsStore, S!Spec

-----------------------------------------------------------------------------
(***************************************************************************)
(* That nobody waits in vain, for any number of processes.                 *)
(***************************************************************************)
AtWork == {"queued", "loaded", "renamed"}
Settled == {"ok", "failed"}

Chained(w) == \E i \in DOMAIN chain[Home[w]] : chain[Home[w]][i] = w

\* The chain of a process holds its writes that are at work, each once.
ChainsHold ==
    /\ \A p \in Procs : \A i, j \in DOMAIN chain[p] : chain[p][i] = chain[p][j] => i = j
    /\ \A p \in Procs : \A i \in DOMAIN chain[p] :
         Home[chain[p][i]] = p /\ pc[chain[p][i]] \in AtWork
    /\ \A w \in Writers : pc[w] \in AtWork => Chained(w)

\* What the next read would wait for, and what a read waits for, is a write of
\* its process that has settled or is in the chain.
Awaitable(p, w) == w # None => Home[w] = p /\ (pc[w] \in Settled \/ Chained(w))

ChainInv ==
    /\ TypeOK
    /\ ChainsHold
    /\ \A p \in Procs : Awaitable(p, tail[p])
    /\ \A r \in Readers : pc[r] = "waiting" => Awaitable(Home[r], awaits[r])

LEMMA ChainInit == Init => ChainInv
  <1> SUFFICES ASSUME Init PROVE ChainInv
    OBVIOUS
  <1>1. TypeOK
    BY InitIInv DEF IInv
  <1>2. ChainsHold
    BY CallsAssumption DEF Init, ChainsHold, Calls, AtWork
  <1>. QED
    BY <1>1, <1>2, CallsAssumption DEF Init, ChainInv, Awaitable, Calls

LEMMA ChainEnqueue ==
    ASSUME ChainInv, NEW w \in Writers, Enqueue(w)
    PROVE  ChainInv'
  <1> DEFINE p == Home[w]
  <1>1. TypeOK /\ TypeOK'
    BY TypeStep DEF ChainInv, Next
  <1>2. p \in Procs /\ w \in Calls /\ w # None
    BY CallsAssumption DEF Calls
  <1>3. chain[p] \in Seq(Writers) /\ pc[w] = "idle"
    BY <1>1, <1>2 DEF TypeOK, Enqueue
  <1>4. /\ chain'[p] = Append(chain[p], w)
        /\ \A q \in Procs : q # p => chain'[q] = chain[q]
        /\ pc'[w] = "queued" /\ \A c \in Calls : c # w => pc'[c] = pc[c]
        /\ tail'[p] = w /\ \A q \in Procs : q # p => tail'[q] = tail[q]
        /\ awaits' = awaits
    BY <1>1, <1>2 DEF TypeOK, Enqueue
  <1>5. /\ DOMAIN chain'[p] = 1..(Len(chain[p]) + 1) /\ DOMAIN chain[p] = 1..Len(chain[p])
        /\ chain'[p][Len(chain[p]) + 1] = w
        /\ \A i \in DOMAIN chain[p] : chain'[p][i] = chain[p][i]
        /\ Len(chain[p]) \in Nat
    BY <1>3, <1>4
  <1>6. \A q \in Procs : \A i \in DOMAIN chain[q] :
          chain[q][i] \in Writers /\ chain[q][i] \in Calls /\ chain[q][i] # w
    <2> SUFFICES ASSUME NEW q \in Procs, NEW i \in DOMAIN chain[q]
                 PROVE  chain[q][i] \in Writers /\ chain[q][i] \in Calls /\ chain[q][i] # w
      OBVIOUS
    <2>1. chain[q] \in Seq(Writers)
      BY <1>1 DEF TypeOK
    <2>2. pc[chain[q][i]] \in AtWork
      BY DEF ChainInv, ChainsHold
    <2>. QED
      BY <1>3, <2>1, <2>2 DEF AtWork, Calls
  <1>7. ASSUME NEW v \in Writers, Chained(v) PROVE Chained(v)'
    <2>1. CASE Home[v] = p
      BY <1>5, <1>7, <2>1 DEF Chained
    <2>2. CASE Home[v] # p
      BY <1>4, <1>7, <2>2, CallsAssumption DEF Chained, Calls
    <2>. QED
      BY <2>1, <2>2
  <1>8. Chained(w)'
    BY <1>5 DEF Chained
  <1>9. ChainsHold'
    <2>1. ASSUME NEW q \in Procs
          PROVE  /\ \A i, j \in DOMAIN chain'[q] : chain'[q][i] = chain'[q][j] => i = j
                 /\ \A i \in DOMAIN chain'[q] :
                      Home[chain'[q][i]] = q /\ pc'[chain'[q][i]] \in AtWork
      <3>1. /\ \A i, j \in DOMAIN chain[q] : chain[q][i] = chain[q][j] => i = j
            /\ \A i \in DOMAIN chain[q] : Home[chain[q][i]] = q /\ pc[chain[q][i]] \in AtWork
        BY DEF ChainInv, ChainsHold
      <3>2. CASE q = p
        <4>1. \A i \in DOMAIN chain'[p] : i \in DOMAIN chain[p] \/ i = Len(chain[p]) + 1
          BY <1>5
        <4>2. \A i \in DOMAIN chain[p] :
                /\ chain'[p][i] = chain[p][i] /\ chain[p][i] # w /\ Home[chain[p][i]] = p
                /\ pc'[chain[p][i]] = pc[chain[p][i]] /\ pc[chain[p][i]] \in AtWork
          BY <1>2, <1>4, <1>5, <1>6, <3>1, <3>2
        <4>3. \A i, j \in DOMAIN chain'[p] : chain'[p][i] = chain'[p][j] => i = j
          BY <1>5, <3>1, <3>2, <4>1, <4>2
        <4>4. \A i \in DOMAIN chain'[p] :
                Home[chain'[p][i]] = p /\ pc'[chain'[p][i]] \in AtWork
          BY <1>4, <1>5, <4>1, <4>2 DEF AtWork
        <4>. QED
          BY <3>2, <4>3, <4>4
      <3>3. CASE q # p
        BY <1>4, <1>6, <3>1, <3>3
      <3>. QED
        BY <3>2, <3>3
    <2>2. \A v \in Writers : pc'[v] \in AtWork => Chained(v)'
      BY <1>4, <1>7, <1>8 DEF ChainInv, ChainsHold, Calls
    <2>. QED
      BY <2>1, <2>2 DEF ChainsHold
  <1>10. ASSUME NEW q, NEW v \in Writers \cup {None}, Awaitable(q, v) PROVE Awaitable(q, v)'
    BY <1>3, <1>4, <1>7, <1>8, <1>10 DEF Awaitable, Calls, Settled
  <1>11. \A q \in Procs : Awaitable(q, tail[q])'
    <2>1. Awaitable(p, tail[p])'
      BY <1>4, <1>8 DEF Awaitable
    <2>2. ASSUME NEW q \in Procs, q # p PROVE Awaitable(q, tail[q])'
      <3>1. tail[q] \in Writers \cup {None} /\ Awaitable(q, tail[q])
        BY <1>1 DEF TypeOK, ChainInv
      <3>. QED
        BY <1>4, <1>10, <2>2, <3>1 DEF Awaitable
    <2>. QED
      BY <2>1, <2>2
  <1>12. \A r \in Readers : pc'[r] = "waiting" => Awaitable(Home[r], awaits[r])'
    <2> SUFFICES ASSUME NEW r \in Readers, pc'[r] = "waiting"
                 PROVE  Awaitable(Home[r], awaits[r])'
      OBVIOUS
    <2>1. pc[r] = "waiting"
      BY <1>4 DEF Calls
    <2>2. awaits[r] \in Writers \cup {None} /\ Awaitable(Home[r], awaits[r])
      BY <1>1, <2>1 DEF TypeOK, ChainInv
    <2>. QED
      BY <1>4, <1>10, <2>2 DEF Awaitable
  <1>. QED
    BY <1>1, <1>9, <1>11, <1>12 DEF ChainInv

\* A write that settles leaves the chain, and what waited for it may go on.
LEMMA ChainSettle ==
    ASSUME ChainInv, NEW w \in Writers, MyTurn(w), NEW outcome \in Settled,
           Settle(w, outcome), TypeOK', UNCHANGED <<tail, awaits>>
    PROVE  ChainInv'
  <1> DEFINE p == Home[w]
  <1>1. TypeOK
    BY DEF ChainInv
  <1>2. p \in Procs /\ w \in Calls
    BY CallsAssumption DEF Calls
  <1>3. chain[p] \in Seq(Writers) /\ chain[p] # <<>> /\ chain[p][1] = w
    BY <1>1, <1>2 DEF TypeOK, MyTurn
  <1>4. /\ chain'[p] = Tail(chain[p])
        /\ \A q \in Procs : q # p => chain'[q] = chain[q]
        /\ pc'[w] = outcome /\ \A c \in Calls : c # w => pc'[c] = pc[c]
    BY <1>1, <1>2 DEF TypeOK, Settle
  <1>5. /\ DOMAIN chain[p] = 1..Len(chain[p]) /\ DOMAIN chain'[p] = 1..(Len(chain[p]) - 1)
        /\ \A i \in DOMAIN chain'[p] : chain'[p][i] = chain[p][i + 1]
        /\ Len(chain[p]) \in Nat \ {0}
    BY <1>3, <1>4
  <1>6. \A q \in Procs : \A i \in DOMAIN chain[q] :
          chain[q][i] \in Writers /\ chain[q][i] \in Calls
    <2> SUFFICES ASSUME NEW q \in Procs, NEW i \in DOMAIN chain[q]
                 PROVE  chain[q][i] \in Writers /\ chain[q][i] \in Calls
      OBVIOUS
    <2>1. chain[q] \in Seq(Writers)
      BY <1>1 DEF TypeOK
    <2>. QED
      BY <2>1 DEF Calls
  <1>7. ASSUME NEW v \in Writers, Chained(v), v # w PROVE Chained(v)'
    <2>1. CASE Home[v] = p
      <3>1. PICK i \in DOMAIN chain[p] : chain[p][i] = v
        BY <1>7, <2>1 DEF Chained
      <3>2. i - 1 \in DOMAIN chain'[p] /\ chain'[p][i - 1] = v
        BY <1>3, <1>5, <1>7, <3>1
      <3>. QED
        BY <2>1, <3>2 DEF Chained
    <2>2. CASE Home[v] # p
      BY <1>4, <1>7, <2>2, CallsAssumption DEF Chained, Calls
    <2>. QED
      BY <2>1, <2>2
  <1>8. ChainsHold'
    <2>1. ASSUME NEW q \in Procs
          PROVE  /\ \A i, j \in DOMAIN chain'[q] : chain'[q][i] = chain'[q][j] => i = j
                 /\ \A i \in DOMAIN chain'[q] :
                      Home[chain'[q][i]] = q /\ pc'[chain'[q][i]] \in AtWork
      <3>1. /\ \A i, j \in DOMAIN chain[q] : chain[q][i] = chain[q][j] => i = j
            /\ \A i \in DOMAIN chain[q] : Home[chain[q][i]] = q /\ pc[chain[q][i]] \in AtWork
        BY DEF ChainInv, ChainsHold
      <3>2. CASE q = p
        <4>1. \A i \in DOMAIN chain'[p] :
                /\ i + 1 \in DOMAIN chain[p] /\ i \in Nat
                /\ chain[p][i + 1] # w
          BY <1>3, <1>5, <3>1, <3>2
        <4>2. ASSUME NEW i \in DOMAIN chain'[p], NEW j \in DOMAIN chain'[p],
                     chain'[p][i] = chain'[p][j]
              PROVE  i = j
          <5>1. chain[p][i + 1] = chain[p][j + 1]
            BY <1>5, <4>2
          <5>2. i + 1 = j + 1
            BY <3>1, <3>2, <4>1, <5>1
          <5>. QED
            BY <4>1, <5>2
        <4>3. \A i \in DOMAIN chain'[p] :
                Home[chain'[p][i]] = p /\ pc'[chain'[p][i]] \in AtWork
          BY <1>2, <1>4, <1>5, <1>6, <3>1, <3>2, <4>1
        <4>. QED
          BY <3>2, <4>2, <4>3
      <3>3. CASE q # p
        BY <1>4, <1>6, <3>1, <3>3
      <3>. QED
        BY <3>2, <3>3
    <2>2. \A v \in Writers : pc'[v] \in AtWork => Chained(v)'
      BY <1>4, <1>7 DEF ChainInv, ChainsHold, Calls, AtWork, Settled
    <2>. QED
      BY <2>1, <2>2 DEF ChainsHold
  <1>9. ASSUME NEW q, NEW v \in Writers \cup {None}, Awaitable(q, v) PROVE Awaitable(q, v)'
    BY <1>4, <1>7, <1>9 DEF Awaitable, Calls, Settled
  <1>10. \A q \in Procs : Awaitable(q, tail[q])'
    <2> SUFFICES ASSUME NEW q \in Procs PROVE Awaitable(q, tail[q])'
      OBVIOUS
    <2>1. tail[q] \in Writers \cup {None} /\ Awaitable(q, tail[q])
      BY <1>1 DEF TypeOK, ChainInv
    <2>. QED
      BY <1>9, <2>1 DEF Awaitable
  <1>11. \A r \in Readers : pc'[r] = "waiting" => Awaitable(Home[r], awaits[r])'
    <2> SUFFICES ASSUME NEW r \in Readers, pc'[r] = "waiting"
                 PROVE  Awaitable(Home[r], awaits[r])'
      OBVIOUS
    <2>1. pc[r] = "waiting"
      BY <1>4 DEF Calls, Settled
    <2>2. awaits[r] \in Writers \cup {None} /\ Awaitable(Home[r], awaits[r])
      BY <1>1, <2>1 DEF TypeOK, ChainInv
    <2>. QED
      BY <1>9, <2>2 DEF Awaitable
  <1>. QED
    BY <1>8, <1>10, <1>11 DEF ChainInv

\* A process that dies takes its own calls with it and nobody else's.
LEMMA ChainCrash ==
    ASSUME ChainInv, NEW p \in Procs, Crash(p)
    PROVE  ChainInv'
  <1>1. TypeOK /\ TypeOK'
    BY TypeStep DEF ChainInv, Next
  <1>2. /\ chain'[p] = <<>> /\ \A q \in Procs : q # p => chain'[q] = chain[q]
        /\ tail'[p] = None /\ \A q \in Procs : q # p => tail'[q] = tail[q]
        /\ awaits' = awaits
        /\ \A c \in Calls : pc'[c] = IF Home[c] = p /\ pc[c] \notin {"idle", "ok", "failed"}
                                     THEN "lost" ELSE pc[c]
    BY <1>1 DEF TypeOK, Crash
  <1>3. \A q \in Procs : \A i \in DOMAIN chain[q] : chain[q][i] \in Calls
    <2> SUFFICES ASSUME NEW q \in Procs, NEW i \in DOMAIN chain[q] PROVE chain[q][i] \in Calls
      OBVIOUS
    <2>1. chain[q] \in Seq(Writers)
      BY <1>1 DEF TypeOK
    <2>. QED
      BY <2>1 DEF Calls
  <1>4. ASSUME NEW v \in Writers, Home[v] # p, Chained(v) PROVE Chained(v)'
    BY <1>2, <1>4, CallsAssumption DEF Chained, Calls
  <1>5. ASSUME NEW v \in Writers \cup {None}, NEW q, q # p, Awaitable(q, v)
        PROVE  Awaitable(q, v)'
    BY <1>2, <1>4, <1>5 DEF Awaitable, Calls, Settled
  <1>6. ChainsHold'
    <2>1. \A q \in Procs : \A i, j \in DOMAIN chain'[q] : chain'[q][i] = chain'[q][j] => i = j
      BY <1>2 DEF ChainInv, ChainsHold
    <2>2. \A q \in Procs : \A i \in DOMAIN chain'[q] :
            Home[chain'[q][i]] = q /\ pc'[chain'[q][i]] \in AtWork
      BY <1>2, <1>3 DEF ChainInv, ChainsHold
    <2>3. \A v \in Writers : pc'[v] \in AtWork => Chained(v)'
      BY <1>2, <1>4 DEF ChainInv, ChainsHold, Calls, AtWork
    <2>. QED
      BY <2>1, <2>2, <2>3 DEF ChainsHold
  <1>7. \A q \in Procs : Awaitable(q, tail[q])'
    <2> SUFFICES ASSUME NEW q \in Procs PROVE Awaitable(q, tail[q])'
      OBVIOUS
    <2>1. tail[q] \in Writers \cup {None} /\ Awaitable(q, tail[q])
      BY <1>1 DEF TypeOK, ChainInv
    <2>. QED
      BY <1>2, <1>5, <2>1 DEF Awaitable
  <1>8. \A r \in Readers : pc'[r] = "waiting" => Awaitable(Home[r], awaits[r])'
    <2> SUFFICES ASSUME NEW r \in Readers, pc'[r] = "waiting"
                 PROVE  Awaitable(Home[r], awaits[r])'
      OBVIOUS
    <2>1. pc[r] = "waiting" /\ Home[r] # p
      BY <1>2 DEF Calls
    <2>2. awaits[r] \in Writers \cup {None} /\ Awaitable(Home[r], awaits[r])
      BY <1>1, <2>1 DEF TypeOK, ChainInv
    <2>. QED
      BY <1>2, <1>5, <2>1, <2>2 DEF Awaitable
  <1>. QED
    BY <1>1, <1>6, <1>7, <1>8 DEF ChainInv

LEMMA ChainNext == ChainInv /\ [Next]_vars => ChainInv'
  <1> SUFFICES ASSUME ChainInv, [Next]_vars PROVE ChainInv'
    OBVIOUS
  <1>1. TypeOK
    BY DEF ChainInv
  <1>2. ASSUME UNCHANGED <<chain, tail, awaits>>, TypeOK',
               \A c \in Calls : \/ pc'[c] = pc[c]
                                \/ pc[c] \in AtWork /\ pc'[c] \in AtWork
                                \/ pc[c] = "waiting" /\ pc'[c] \in Settled
        PROVE  ChainInv'
    <2>1. /\ \A v \in Writers \cup {None} : Chained(v) => Chained(v)'
          /\ \A q : \A v \in Writers \cup {None} : Awaitable(q, v) => Awaitable(q, v)'
      BY <1>2 DEF Chained, Awaitable, Calls, AtWork, Settled
    <2>2. \A q \in Procs : \A i \in DOMAIN chain[q] : chain[q][i] \in Calls
      <3> SUFFICES ASSUME NEW q \in Procs, NEW i \in DOMAIN chain[q] PROVE chain[q][i] \in Calls
        OBVIOUS
      <3>1. chain[q] \in Seq(Writers)
        BY <1>1 DEF TypeOK
      <3>. QED
        BY <3>1 DEF Calls
    <2>3. ChainsHold'
      BY <1>2, <2>1, <2>2 DEF ChainInv, ChainsHold, Chained, Calls, AtWork, Settled
    <2>4. \A q \in Procs : Awaitable(q, tail[q])'
      <3> SUFFICES ASSUME NEW q \in Procs PROVE Awaitable(q, tail[q])'
        OBVIOUS
      <3>1. tail[q] \in Writers \cup {None} /\ Awaitable(q, tail[q])
        BY <1>1 DEF TypeOK, ChainInv
      <3>. QED
        BY <1>2, <2>1, <3>1 DEF Awaitable, Chained
    <2>5. \A r \in Readers : pc'[r] = "waiting" => Awaitable(Home[r], awaits[r])'
      <3> SUFFICES ASSUME NEW r \in Readers, pc'[r] = "waiting"
                   PROVE  Awaitable(Home[r], awaits[r])'
        OBVIOUS
      <3>1. pc[r] = "waiting"
        BY <1>2 DEF Calls, AtWork, Settled
      <3>2. awaits[r] \in Writers \cup {None} /\ Awaitable(Home[r], awaits[r])
        BY <1>1, <3>1 DEF TypeOK, ChainInv
      <3>. QED
        BY <1>2, <2>1, <3>2 DEF Awaitable, Chained
    <2>. QED
      BY <1>2, <2>3, <2>4, <2>5 DEF ChainInv
  <1>3. CASE UNCHANGED vars
    BY <1>3 DEF vars, ChainInv, TypeOK, ChainsHold, Awaitable, Chained
  <1>4. ASSUME Next PROVE TypeOK'
    BY <1>1, <1>4, TypeStep
  <1>5. ASSUME NEW p \in Procs, BootStep(p) PROVE ChainInv'
    BY <1>2, <1>4, <1>5 DEF Next, BootStep, Access, Truncate, Fill
  <1>6. ASSUME NEW w \in Writers, Load(w) \/ Replace(w) PROVE ChainInv'
    BY <1>1, <1>2, <1>4, <1>6 DEF Next, WriteStep, Load, Replace, TypeOK, Calls, AtWork
  <1>7. ASSUME NEW w \in Writers, Succeed(w) \/ WriteFails(w) PROVE ChainInv'
    BY <1>4, <1>7, ChainSettle DEF Next, WriteStep, Succeed, WriteFails, Settled
  <1>8. ASSUME NEW r \in Readers, ReadStep(r) PROVE ChainInv'
    BY <1>1, <1>2, <1>4, <1>8 DEF Next, ReadStep, ReadFile, ReadFails, TypeOK, Calls, Settled
  <1>9. ASSUME NEW r \in Readers, Await(r) PROVE ChainInv'
    <2>1. /\ UNCHANGED <<chain, tail>> /\ pc' = [pc EXCEPT ![r] = "waiting"] /\ pc[r] = "idle"
          /\ awaits' = [awaits EXCEPT ![r] = tail[Home[r]]] /\ TypeOK'
      BY <1>4, <1>9 DEF Next, Await
    <2>2. Home[r] \in Procs /\ r \notin Writers /\ r \in Calls
      BY CallsAssumption DEF Calls
    <2>3. /\ \A c \in Calls : c # r => pc'[c] = pc[c]
          /\ \A v \in Writers : pc'[v] = pc[v]
      BY <1>1, <2>1, <2>2 DEF TypeOK, Calls
    <2>4. /\ awaits'[r] = tail[Home[r]]
          /\ \A s \in Readers : s # r => awaits'[s] = awaits[s]
      BY <1>1, <2>1 DEF TypeOK
    <2>5. ASSUME NEW v \in Writers \cup {None}, NEW q, Awaitable(q, v) PROVE Awaitable(q, v)'
      BY <2>1, <2>3, <2>5 DEF Awaitable, Chained
    <2>6. \A q \in Procs : \A i \in DOMAIN chain[q] : chain[q][i] \in Writers
      <3> SUFFICES ASSUME NEW q \in Procs, NEW i \in DOMAIN chain[q] PROVE chain[q][i] \in Writers
        OBVIOUS
      <3>1. chain[q] \in Seq(Writers)
        BY <1>1 DEF TypeOK
      <3>. QED
        BY <3>1
    <2>7. ChainsHold'
      BY <2>1, <2>3, <2>6 DEF ChainInv, ChainsHold, Chained
    <2>8. \A q \in Procs : Awaitable(q, tail[q]) /\ tail[q] \in Writers \cup {None}
      BY <1>1 DEF ChainInv, TypeOK
    <2>9. \A q \in Procs : Awaitable(q, tail[q])'
      BY <2>1, <2>5, <2>8 DEF Awaitable, Chained
    <2>10. ASSUME NEW s \in Readers, pc'[s] = "waiting" PROVE Awaitable(Home[s], awaits[s])'
      <3>1. CASE s = r
        BY <2>1, <2>2, <2>4, <2>9, <3>1 DEF Awaitable, Chained
      <3>2. CASE s # r
        <4>1. awaits[s] \in Writers \cup {None} /\ Awaitable(Home[s], awaits[s])
          BY <1>1, <2>3, <2>10, <3>2 DEF TypeOK, ChainInv, Calls
        <4>. QED
          BY <2>4, <2>5, <3>2, <4>1 DEF Awaitable, Chained
      <3>. QED
        BY <3>1, <3>2
    <2>. QED
      BY <2>1, <2>7, <2>9, <2>10 DEF ChainInv
  <1>. QED
    BY <1>3, <1>5, <1>6, <1>7, <1>8, <1>9, ChainEnqueue, ChainCrash
    DEF Next, WriteStep

\* Only writes are at work and only reads wait.
KindsInv ==
    /\ TypeOK
    /\ \A c \in Calls : /\ pc[c] \in AtWork => c \in Writers
                        /\ pc[c] = "waiting" => c \in Readers

LEMMA KindsNext == KindsInv /\ [Next]_vars => KindsInv'
  <1> SUFFICES ASSUME KindsInv, [Next]_vars PROVE KindsInv'
    OBVIOUS
  <1>1. TypeOK /\ TypeOK'
    BY TypeStep DEF KindsInv, vars, TypeOK
  <1>2. ASSUME NEW c \in Calls
        PROVE  \/ pc'[c] = pc[c]
               \/ c \in Writers /\ pc'[c] # "waiting"
               \/ c \in Readers /\ pc'[c] \notin AtWork
               \/ pc'[c] = "lost"
    <2>1. ASSUME NEW p \in Procs, BootStep(p) \/ Crash(p) PROVE pc'[c] \in {pc[c], "lost"}
      BY <1>1, <2>1 DEF TypeOK, BootStep, Access, Truncate, Fill, Crash
    <2>2. ASSUME NEW w \in Writers, Enqueue(w) \/ WriteStep(w)
          PROVE  pc'[c] = pc[c] \/ (c = w /\ pc'[c] # "waiting")
      BY <1>1, <2>2
      DEF TypeOK, Enqueue, WriteStep, Load, Replace, Succeed, WriteFails, Settle
    <2>3. ASSUME NEW r \in Readers, Await(r) \/ ReadStep(r)
          PROVE  pc'[c] = pc[c] \/ (c = r /\ pc'[c] \notin AtWork)
      BY <1>1, <2>3 DEF TypeOK, Await, ReadStep, ReadFile, ReadFails, AtWork
    <2>. QED
      BY <2>1, <2>2, <2>3 DEF Next, vars
  <1>. QED
    BY <1>1, <1>2 DEF KindsInv, AtWork

(***************************************************************************)
(* While a call is pending, something can be done about it, whatever other *)
(* processes do and whatever fails: the write at the head of its process's *)
(* chain can take its next step, or the read's promise is settled and the  *)
(* read can go on (json-store.ts:24-47). With the fairness of the event    *)
(* loop this is why CallsSettle holds: each such step shortens what the    *)
(* call still waits for.                                                   *)
(***************************************************************************)
SomethingToDo(c) ==
    \/ \E w \in Writers : Home[w] = Home[c] /\ MyTurn(w) /\ pc[w] \in AtWork
    \/ c \in Readers /\ (awaits[c] # None => pc[awaits[c]] \in Settled)

THEOREM NobodyWaitsInVain ==
    Spec => [](\A c \in Calls : pc[c] \in AtWork \cup {"waiting"} => SomethingToDo(c))
  <1>1. Init => KindsInv
    BY ChainInit DEF ChainInv, KindsInv, Init, AtWork
  <1>2. ChainInv /\ KindsInv => \A c \in Calls : pc[c] \in AtWork \cup {"waiting"} => SomethingToDo(c)
    <2> SUFFICES ASSUME ChainInv, KindsInv, NEW c \in Calls, pc[c] \in AtWork \cup {"waiting"}
                 PROVE  SomethingToDo(c)
      OBVIOUS
    <2>1. Home[c] \in Procs
      BY CallsAssumption DEF Calls
    <2>2. ASSUME NEW v \in Writers, Chained(v), Home[v] = Home[c] PROVE SomethingToDo(c)
      <3>1. chain[Home[c]] \in Seq(Writers)
        BY <2>1 DEF ChainInv, TypeOK
      <3>2. /\ chain[Home[c]] # <<>> /\ 1 \in DOMAIN chain[Home[c]]
            /\ Head(chain[Home[c]]) = chain[Home[c]][1] /\ chain[Home[c]][1] \in Writers
        BY <2>2, <3>1 DEF Chained
      <3>3. Home[chain[Home[c]][1]] = Home[c] /\ pc[chain[Home[c]][1]] \in AtWork
        BY <2>1, <3>2 DEF ChainInv, ChainsHold
      <3>. QED
        BY <3>2, <3>3 DEF SomethingToDo, MyTurn
    <2>3. CASE c \in Writers /\ pc[c] \in AtWork
      BY <2>2, <2>3 DEF ChainInv, ChainsHold
    <2>4. CASE c \in Readers /\ pc[c] = "waiting"
      <3>1. awaits[c] \in Writers \cup {None} /\ Awaitable(Home[c], awaits[c])
        BY <2>4 DEF ChainInv, TypeOK
      <3>2. CASE awaits[c] # None /\ Chained(awaits[c])
        <4>1. Home[awaits[c]] = Home[c]
          BY <3>1, <3>2 DEF Awaitable
        <4>2. awaits[c] \in Writers
          BY <3>1, <3>2
        <4>. QED
          BY <2>2, <3>2, <4>1, <4>2
      <3>3. CASE awaits[c] = None \/ pc[awaits[c]] \in Settled
        BY <2>4, <3>3 DEF SomethingToDo
      <3>. QED
        BY <3>1, <3>2, <3>3 DEF Awaitable
    <2>. QED
      BY <2>3, <2>4 DEF KindsInv, AtWork
  <1>. QED
    BY ChainInit, ChainNext, KindsNext, <1>1, <1>2, PTL DEF Spec

=============================================================================
