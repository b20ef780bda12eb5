------------------------- MODULE MC_RunLifecycle -------------------------
(* Where the threads of the small instances run: requests come in at the   *)
(* API process, the runner processes execute.                              *)
EXTENDS RunLifecycle

MCHome == [th \in Threads |-> IF th \in {"client", "client2"} THEN "api"
                              ELSE IF th = "s1" THEN "runner2" ELSE "runner"]

\* pa-runner:${config.app.env}: the same for every runner process.
MCRunnerId == [p \in {"runner", "runner2"} |-> "pa-runner:prod"]
==========================================================================
