--------------------------- MODULE Materialization ---------------------------
(***************************************************************************)
(* One materialization of a catalog entry (createMaterialization): the     *)
(* files a specialist is executed from are generated one after the other   *)
(* in a directory of its own, its startup checks are run, and the outcome  *)
(* is written to two files and then to the store.  Each step may fail, and *)
(* the process may go down before any of them.                             *)
(***************************************************************************)
EXTENDS Naturals

CONSTANTS MaxChecks, \* bound: shell startup checks of a manifest
          None       \* no record, no failure code

VARIABLES at,     \* the step that comes next
          m,      \* the materialization in memory
          checks, \* the shell startup checks still to be run
          disk,   \* the files, each with the status it tells of
          record, \* the materialization in the store
          loaded  \* what a task that uses it has read

vars == <<at, m, checks, disk, record, loaded>>

\* What a specialist is executed from.
Context == {"instructions.md", "system-prompt.md", "runtime-bundle.json",
            "execution-contract.json"}

\* The files that are generated, in their order.
Generated == {"provenance.json", "instructions.md", "system-prompt.md", "runtime-bundle.json",
              "execution-contract.json", "io-contract.json", "startup-verification.json",
              "failure-evidence.json", "package-manifest.json", "validation.json",
              "materialization.json"}

Files == Generated \cup {"manifest.yaml"}

\* The step after each file.  The bundle needs a manifest, and the startup
\* checks that nothing has failed so far.
After(file) ==
    CASE file = "provenance.json" -> IF m.parsed THEN "instructions.md" ELSE "verdict"
      [] file = "instructions.md" -> "system-prompt.md"
      [] file = "system-prompt.md" -> "runtime-bundle.json"
      [] file = "runtime-bundle.json" -> "execution-contract.json"
      [] file = "execution-contract.json" -> "io-contract.json"
      [] file = "io-contract.json" -> IF m.code = None THEN "checks" ELSE "verdict"
      [] file = "startup-verification.json" -> "failure-evidence.json"
      [] file = "failure-evidence.json" -> "package-manifest.json"
      [] file = "package-manifest.json" -> "verdict"
      [] file = "validation.json" -> "materialization.json"
      [] file = "materialization.json" -> "store"

Init ==
    /\ at = "idle"
    /\ m = [status |-> "building", code |-> None, parsed |-> FALSE]
    /\ checks \in 0..MaxChecks
    /\ disk = {}
    /\ record = None
    /\ loaded = None

\* recordMaterializationFailure: the first code is kept.
Failing(code) == [m EXCEPT !.code = IF @ = None THEN code ELSE @]

Stored == [status |-> m.status, code |-> m.code]

\* The entry and its manifest are looked up, after a sync if need be.
Begin ==
    /\ at = "idle"
    /\ \/ record' = Stored /\ at' = "workspace"
       \/ record' = None /\ at' = "over"
    /\ UNCHANGED <<m, checks, disk, loaded>>

MakeWorkspace ==
    /\ at = "workspace"
    /\ at' = "manifest"
    /\ UNCHANGED <<m, checks, disk, record, loaded>>

\* The manifest is read, parsed and copied. A failure is no I/O error here;
\* if it is the copy that failed, the parsed manifest is used nevertheless.
RecordManifest ==
    /\ at = "manifest"
    /\ at' = "contract"
    /\ \/ /\ disk' = disk \cup {[file |-> "manifest.yaml", status |-> "ready"]}
          /\ m' = [m EXCEPT !.parsed = TRUE]
       \/ /\ \E parsed \in BOOLEAN :
              m' = [Failing("invalid_manifest") EXCEPT !.parsed = parsed]
          /\ UNCHANGED disk
    /\ UNCHANGED <<checks, record, loaded>>

\* checkMaterializationManifestContract
CheckContract ==
    /\ at = "contract"
    /\ at' = "provenance.json"
    /\ UNCHANGED m \/ (m.parsed /\ m' = Failing("invalid_manifest"))
    /\ UNCHANGED <<checks, disk, record, loaded>>

\* A file tells "failed" if anything has failed before it is written, or, if
\* the verdict has been given, what the verdict is.
Write ==
    /\ at \in Generated
    /\ disk' = disk \cup {[file |-> at,
                           status |-> IF m.status # "building" THEN m.status
                                      ELSE IF m.code = None THEN "ready" ELSE "failed"]}
    /\ at' = After(at)
    /\ UNCHANGED <<m, checks, record, loaded>>

\* A shell check that fails is noted, and the next one is run.
StartupCheck ==
    /\ at = "checks"
    /\ IF checks = 0 THEN at' = "startup-verification.json" /\ UNCHANGED <<m, checks>>
       ELSE /\ \E ok \in BOOLEAN : m' = IF ok THEN m ELSE Failing("self_check_failed")
            /\ checks' = checks - 1
            /\ UNCHANGED at
    /\ UNCHANGED <<disk, record, loaded>>

Verdict ==
    /\ at = "verdict"
    /\ m' = [m EXCEPT !.status = IF m.code = None THEN "ready" ELSE "failed"]
    /\ at' = "validation.json"
    /\ UNCHANGED <<checks, disk, record, loaded>>

\* Mutant of Fails: the verdict stands.
FailsAfterVerdict ==
    /\ at \in Generated \cup {"workspace", "checks"}
    /\ m' = [Failing("materialization_io_error") EXCEPT
                !.status = IF @ = "ready" THEN @ ELSE "failed"]
    /\ at' = "store"
    /\ UNCHANGED <<checks, disk, record, loaded>>

\* Any other error: what there is already stays, and the rest is left out.
Fails ==
    /\ at \in Generated \cup {"workspace", "checks"}
    /\ m' = [Failing("materialization_io_error") EXCEPT !.status = "failed"]
    /\ at' = "store"
    /\ UNCHANGED <<checks, disk, record, loaded>>

\* The record is replaced, if the write succeeds.
Store ==
    /\ at = "store"
    /\ record' = Stored \/ UNCHANGED record
    /\ at' = "over"
    /\ UNCHANGED <<m, checks, disk, loaded>>

\* Nothing goes on with a materialization that was cut off.
Crash ==
    /\ at # "over"
    /\ at' = "over"
    /\ UNCHANGED <<m, checks, disk, record, loaded>>

\* A task reads it (loadMaterializedSpecialistExecutionContext): what is not
\* ready is done without, a missing file is an error.
Load ==
    /\ record # None
    /\ loaded' = IF record.status # "ready" THEN "nothing"
                 ELSE IF Context \subseteq {f.file : f \in disk}
                 THEN "context" ELSE "error"
    /\ UNCHANGED <<at, m, checks, disk, record>>

Next ==
    \/ Begin \/ MakeWorkspace \/ RecordManifest \/ CheckContract \/ Write
    \/ StartupCheck \/ Verdict \/ Fails \/ Store \/ Crash \/ Load

Spec == Init /\ [][Next]_vars

---------------------------------------------------------------------------
(***************************************************************************)
(* Whichever steps fail: a materialization the store calls ready has all   *)
(* its files, none of which tells of a failure, so a task that was given   *)
(* it can be executed; one it calls failed has a code that says why, and   *)
(* the code blames the startup checks if the file that verifies them does  *)
(* (core index.ts:4613-5010, 847-874).  The files may still tell of        *)
(* success when the store does not.                                        *)
(***************************************************************************)
ReadyIsWhole ==
    /\ record # None => CASE record.status = "ready" ->
                               {f.file : f \in {g \in disk : g.status = "ready"}} = Files
                          [] record.status = "failed" ->
                               /\ record.code # None
                               /\ [file |-> "startup-verification.json",
                                   status |-> "failed"] \in disk
                                    => record.code = "self_check_failed"
                          [] OTHER -> record.code = None
    /\ loaded # "error"

=============================================================================
