----------------------------- MODULE CatalogSync -----------------------------
(***************************************************************************)
(* crew-api's catalog: a checkout of labor-commons that is reset to the    *)
(* tip of main at boot and before the sync a person asks for               *)
(* (ensureCatalogCheckout), and syncs that read it file by file into       *)
(* memory and the store (LocalCatalogService.sync, syncCatalogIntoState).  *)
(* Handlers that find no catalog sync too, without a reset.  Nothing keeps *)
(* one from reading while another resets.                                  *)
(*                                                                         *)
(* Main only moves forward; a version stands for a commit and for what a   *)
(* file is in it.  Git itself is external: a reset writes the files one by *)
(* one, then HEAD, and holds index.lock meanwhile.                         *)
(***************************************************************************)
EXTENDS Naturals, Sequences

CONSTANTS Handlers,    \* the requests that sync
          Files,       \* the manifests
          MaxVersion,  \* bound: the commits of main
          MaxSyncs,    \* bound: no sync is begun after so many
          None         \* nothing

VARIABLES main,     \* the tip of labor-commons main
          origin,   \* origin/main in the checkout
          tree,     \* the version of each file in the checkout
          head,     \* HEAD of the checkout
          lock,     \* who holds index.lock
          up,       \* whether crew-api listens
          call,     \* what each handler, or the boot, is doing
          memory,   \* what LocalCatalogService serves
          queue,    \* the writes of the store that wait for their turn
          stored,   \* the entries in the store and the sync they came with
          pinned,   \* catalogSyncs[0], which new runs are pinned to
          clock,    \* Date.now(): how many syncs have been through
          failed    \* history: a write has failed since the boot

vars == <<main, origin, tree, head, lock, up, call, memory, queue, stored, pinned,
          clock, failed>>
checkout == <<main, origin, tree, head, lock>>
kept == <<memory, queue, stored, pinned, clock, failed>>

\* after: history, the clock when the commit was looked up.
Idle == [pc |-> "idle", target |-> 0, ref |-> 0, after |-> 0, seen |-> <<>>]
Callers == Handlers \cup {"boot"}

Init ==
    /\ main = 0 /\ origin = 0 /\ head = 0
    /\ tree = [f \in Files |-> 0]
    /\ lock = None
    /\ up = FALSE
    /\ call = [c \in Callers |-> Idle]
    /\ memory = None /\ queue = <<>> /\ stored = None /\ pinned = None
    /\ clock = 0
    /\ failed = FALSE

GoTo(c, pc) == call' = [call EXCEPT ![c].pc = pc]
End(c) == call' = [call EXCEPT ![c] = Idle]

PushToMain ==
    /\ main < MaxVersion
    /\ main' = main + 1
    /\ UNCHANGED <<origin, tree, head, lock, up, call, kept>>

---------------------------------------------------------------------------
(* ensureCatalogCheckout *)

\* The boot, and the sync route when the checkout is managed here.
BeginCheckout(c) ==
    /\ call[c].pc = "idle"
    /\ c = "boot" <=> ~up
    /\ GoTo(c, "fetch")
    /\ UNCHANGED <<checkout, up, kept>>

Fetch(c) ==
    /\ call[c].pc = "fetch"
    /\ origin' = main
    /\ GoTo(c, "reset")
    /\ UNCHANGED <<main, tree, head, lock, up, kept>>

\* git reset --hard
BeginReset(c) ==
    /\ call[c].pc = "reset"
    /\ lock = None
    /\ lock' = c
    /\ call' = [call EXCEPT ![c].pc = "write", ![c].target = origin]
    /\ UNCHANGED <<main, origin, tree, head, up, kept>>

ResetFile(c) ==
    /\ call[c].pc = "write"
    /\ \E f \in Files :
        /\ tree[f] # call[c].target
        /\ tree' = [tree EXCEPT ![f] = call[c].target]
    /\ UNCHANGED <<main, origin, head, lock, up, call, kept>>

\* git clean -fd and rev-parse touch no manifest.
MoveHead(c) ==
    /\ call[c].pc = "write"
    /\ \A f \in Files : tree[f] = call[c].target
    /\ head' = call[c].target
    /\ lock' = None
    /\ IF c = "boot" THEN up' = TRUE /\ End(c) ELSE GoTo(c, "list") /\ UNCHANGED up
    /\ UNCHANGED <<main, origin, tree, kept>>

\* A git command fails, for one because index.lock is there: the request
\* fails, or the boot.
CheckoutFails(c) ==
    /\ call[c].pc \in {"fetch", "reset", "write"}
    /\ End(c)
    /\ lock' = IF lock = c THEN None ELSE lock
    /\ UNCHANGED <<main, origin, tree, head, up, kept>>

---------------------------------------------------------------------------
(* syncCatalogIntoState *)

\* A handler finds no catalog, or none of the entry it looks for; the route
\* comes here after the checkout.
BeginSync(c) ==
    /\ up /\ c \in Handlers
    /\ call[c].pc \in {"idle", "list"}
    /\ clock < MaxSyncs
    /\ GoTo(c, "ref")
    /\ UNCHANGED <<checkout, up, kept>>

\* The manifests have been listed: resolveGitRef. If git fails, the commit is
\* recorded as unknown.
ResolveRef(c) ==
    /\ call[c].pc = "ref"
    /\ \E ref \in {head, None} :
        call' = [call EXCEPT ![c].pc = "read", ![c].ref = ref, ![c].after = clock]
    /\ UNCHANGED <<checkout, up, kept>>

\* The files are read in a fixed order, which the versions do not tell apart.
ReadFile(c) ==
    /\ call[c].pc = "read"
    /\ \E f \in Files \ DOMAIN call[c].seen :
        call' = [call EXCEPT ![c].seen =
                    [g \in DOMAIN @ \cup {f} |-> IF g = f THEN tree[f] ELSE @[g]]]
    /\ UNCHANGED <<checkout, up, kept>>

\* A listed file is gone, or cannot be read: nothing is installed.
ReadFails(c) ==
    /\ call[c].pc = "read"
    /\ End(c)
    /\ UNCHANGED <<checkout, up, kept>>

\* Mutant of CommitOf: the commit is looked up when the files have been read.
CommitAtTheEnd(c) == head

CommitOf(c) == call[c].ref

\* The entries are served from now on, and their write is put in the chain.
Install(c) ==
    /\ call[c].pc = "read" /\ DOMAIN call[c].seen = Files
    /\ clock' = clock + 1
    /\ memory' = [commit |-> CommitOf(c), entries |-> call[c].seen,
                  at |-> clock', after |-> call[c].after]
    /\ queue' = Append(queue, [by |-> c, catalog |-> memory'])
    /\ GoTo(c, "stored")
    /\ UNCHANGED <<checkout, up, stored, pinned, failed>>

\* The entries are replaced, the sync is put before the others. So the JSON
\* store lists it first; the Postgres store lists by id, which is the time, the
\* oldest first, one of the same time replacing it.
WriteStore ==
    /\ queue # <<>>
    /\ queue' = Tail(queue)
    /\ \/ /\ stored' = Head(queue).catalog
          /\ pinned' = stored' \/ (pinned # None /\ UNCHANGED pinned)
          /\ UNCHANGED failed
       \/ failed' = TRUE /\ UNCHANGED <<stored, pinned>>
    /\ End(Head(queue).by)
    /\ UNCHANGED <<checkout, up, memory, clock>>

---------------------------------------------------------------------------
\* crew-api is killed, and with it the git it has started: a lock that was
\* held stays, and every boot fails until somebody removes the file.
Crash ==
    /\ up
    /\ up' = FALSE
    /\ call' = [c \in Callers |-> Idle]
    /\ memory' = None /\ queue' = <<>> /\ failed' = FALSE
    /\ UNCHANGED <<checkout, stored, pinned, clock>>

Next ==
    \/ PushToMain \/ WriteStore \/ Crash
    \/ \E c \in Callers :
         \/ BeginCheckout(c) \/ Fetch(c) \/ BeginReset(c) \/ ResetFile(c)
         \/ MoveHead(c) \/ CheckoutFails(c) \/ BeginSync(c) \/ ResolveRef(c)
         \/ ReadFile(c) \/ ReadFails(c) \/ Install(c)

Spec == Init /\ [][Next]_vars

---------------------------------------------------------------------------
NoOlder(entries, commit) ==
    commit # None => \A f \in Files : entries[f] >= commit

(***************************************************************************)
(* However syncs, resets and crashes interleave, a catalog that is served  *)
(* or stored has no content older than the commit it was recorded with     *)
(* (catalog/src/index.ts:101-146), unless git did not tell it; and as long *)
(* as no write has failed, the store lists what is served as soon as the   *)
(* last sync is over (core index.ts:2610-2619). A run is pinned to the     *)
(* commit of the sync the store lists first, which need not be the one the *)
(* entries came with (core index.ts:2628-2641): the entries are no older   *)
(* than that commit either, unless their own commit was looked up before   *)
(* that sync was through. Content may be newer: a reset writes files       *)
(* before HEAD.                                                            *)
(***************************************************************************)
CatalogHonest ==
    /\ \A catalog \in {memory, stored} \ {None} :
         NoOlder(catalog.entries, catalog.commit)
    /\ memory # None /\ queue = <<>> /\ ~failed => stored = memory
    /\ pinned # None /\ stored # None /\ stored.commit # None =>
         pinned = stored \/ stored.after < pinned.at
                        \/ NoOlder(stored.entries, pinned.commit)

=============================================================================
