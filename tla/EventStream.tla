---------------------------- MODULE EventStream ----------------------------
(***************************************************************************)
(* The events of one run, and a client that follows them over the stream   *)
(* of crew-api: it is sent what is stored when it connects, and then what  *)
(* handlers of that process append (appendEvent and runs.subscribe in      *)
(* packages/core/src/index.ts, /api/runs/:runId/stream in create-app.ts).  *)
(*                                                                         *)
(* runs.events does not sort: it gives the events as the store lists them, *)
(* in the JSON store as they were appended, in the Postgres store by their *)
(* ids, which are random. Here they come in any order.                     *)
(***************************************************************************)
EXTENDS Naturals, Sequences

CONSTANTS Local,       \* the handlers of crew-api that append an event
          Remote,      \* those of crew-runner
          MaxConnects  \* bound: connections of the client

VARIABLES stored,    \* runEvents: who appended them
          unsent,    \* the events written, and not yet given to listeners
          client,    \* the connection
          since,     \* what was stored when it read and when it listened
          got,       \* the events it was sent, by their place in the store
          connects   \* how often the client has connected

vars == <<stored, unsent, client, since, got, connects>>

Appenders == Local \cup Remote

Init ==
    /\ stored = <<>>
    /\ unsent = {}
    /\ client = "away"
    /\ since = <<0, 0>>
    /\ got = <<>>
    /\ connects = 0

\* Mutant of MayWrite: writes do not wait for each other.
WriteAnyTime(a) == \A i \in DOMAIN stored : stored[i] # a

\* The writes of a process are chained, and the handler of one goes on before
\* the next has ended.
MayWrite(a) ==
    /\ \A i \in DOMAIN stored : stored[i] # a
    /\ \A i \in unsent : (stored[i] \in Local) # (a \in Local)

\* appendEvent: the event is written ...
Write(a) ==
    /\ MayWrite(a)
    /\ stored' = Append(stored, a)
    /\ unsent' = unsent \cup {Len(stored) + 1}
    /\ UNCHANGED <<client, since, got, connects>>

\* ... and the listeners of the process get it (emitToListeners).
Emit(i) ==
    /\ i \in unsent
    /\ unsent' = unsent \ {i}
    /\ got' = IF stored[i] \in Local /\ client = "listening"
              THEN Append(got, i) ELSE got
    /\ UNCHANGED <<stored, client, since, connects>>

\* The stored events, each once, in some order.
Listings ==
    {listing \in [DOMAIN stored -> DOMAIN stored] :
        /\ \A i, j \in DOMAIN stored : listing[i] = listing[j] => i = j
        /\ \A i \in DOMAIN stored : \E k \in DOMAIN stored : listing[k] = i}

\* The stream is asked for: the stored events are read and sent, ...
Read ==
    /\ client = "away" /\ connects < MaxConnects
    /\ client' = "reading"
    /\ got' \in Listings
    /\ since' = <<Len(stored), 0>>
    /\ connects' = connects + 1
    /\ UNCHANGED <<stored, unsent>>

\* ... and then the listener is registered.
Subscribe ==
    /\ client = "reading"
    /\ client' = "listening"
    /\ since' = [since EXCEPT ![2] = Len(stored)]
    /\ UNCHANGED <<stored, unsent, got, connects>>

\* The client closes the connection: the listener is removed.
Close ==
    /\ client = "listening"
    /\ client' = "away" /\ since' = <<0, 0>> /\ got' = <<>>
    /\ UNCHANGED <<stored, unsent, connects>>

Next ==
    \/ \E a \in Appenders : Write(a)
    \/ \E i \in DOMAIN stored : Emit(i)
    \/ Read \/ Subscribe \/ Close

Spec == Init /\ [][Next]_vars

---------------------------------------------------------------------------
(***************************************************************************)
(* A connected client has been sent what was stored when it read, each     *)
(* event once, and then what this process stored after its listener was    *)
(* registered, in the order of the store and none twice. Of the latter     *)
(* one at most was among the former, written before the read and given to  *)
(* the listeners after; what is written between the read and the           *)
(* registration, and what crew-runner writes, the client may miss until it *)
(* connects again (core index.ts:2080-2088, 2389-2419, 5850-5853; crew-api *)
(* create-app.ts:1080-1104).                                               *)
(***************************************************************************)
StreamComplete ==
    client = "listening" =>
        /\ \A k, l \in 1..since[1] : got[k] = got[l] => k = l
        /\ \A k, l \in (since[1] + 1)..Len(got) :
             k < l => got[k] < got[l] /\ got[l] > since[1]
        /\ \A i \in DOMAIN stored :
             (i <= since[1] \/ (i > since[2] /\ stored[i] \in Local /\ i \notin unsent)) =>
                 \E k \in DOMAIN got : got[k] = i

=============================================================================
