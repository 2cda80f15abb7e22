--------------------------- MODULE RestoreContract ---------------------------
(***************************************************************************)
(* What a series of restore tests promises to whoever reads exit codes and *)
(* reports: README.md, the flow of the restore test and its results,       *)
(* as internal/restore/runner.go keeps it.  No steps, no calls, no pods:   *)
(* one verdict per run, the replicas asked of web, and what the database   *)
(* is good for.  What a run has asked for may come after the run has       *)
(* failed or crashed, and never after it has succeeded.                    *)
(***************************************************************************)
EXTENDS Integers

VARIABLES
    verdict,    \* of the current run
    begun,      \* it has passed its preflight
    web,        \* replicas asked of the web workload
    data,       \* "old", "none" of worth, the "whole" dump, "good" for service
    alarm,      \* the report says that web may have been left up
    doubt       \* the run gave up on raising web: that may still happen

vars == <<verdict, begun, web, data, alarm, doubt>>

Init ==
    /\ verdict = "running" /\ begun = FALSE /\ alarm = FALSE /\ doubt = FALSE
    /\ web \in 0..1
    /\ data \in {"old", "none"}

Working == verdict = "running" /\ begun

\* Something the run has asked for may happen.
Outstanding == verdict # "ok" /\ begun

Begin ==
    /\ verdict = "running" /\ begun' = TRUE
    /\ UNCHANGED <<verdict, web, data, alarm, doubt>>

Lower ==
    /\ Outstanding
    /\ web' = 0
    /\ UNCHANGED <<verdict, begun, data, alarm, doubt>>

\* Service starts on data that is good for it, never on less, and after a failure
\* only when the run could not know.
Raise ==
    /\ Outstanding /\ data = "good"
    /\ verdict = "failed" => doubt
    /\ web' = 1
    /\ UNCHANGED <<verdict, begun, data, alarm, doubt>>

GiveUpRaising ==
    /\ Working /\ data = "good"
    /\ doubt' = TRUE
    /\ UNCHANGED <<verdict, begun, web, data, alarm>>

\* Data changes hands while web is told to be down, and step by step.
Rebuild ==
    /\ Outstanding /\ web = 0
    /\ \/ data' = "none"
       \/ data = "none" /\ data' = "whole"
       \/ data = "whole" /\ data' = "good"
    /\ UNCHANGED <<verdict, begun, web, alarm, doubt>>

Succeed ==
    /\ Working /\ data = "good" /\ web = 0 /\ ~doubt
    /\ verdict' = "ok"
    /\ UNCHANGED <<begun, web, data, alarm, doubt>>

\* A failure is told, and web is down or the report raises the alarm, unless the
\* run has not begun to change anything or could not know.
Fail ==
    /\ verdict = "running"
    /\ verdict' = "failed"
    /\ alarm' \in BOOLEAN
    /\ begun /\ web = 1 => alarm' \/ doubt
    /\ UNCHANGED <<begun, web, data, doubt>>

Crash ==
    /\ verdict = "running" /\ verdict' = "crashed"
    /\ UNCHANGED <<begun, web, data, alarm, doubt>>

NextRun ==
    /\ verdict # "running"
    /\ verdict' = "running" /\ begun' = FALSE /\ alarm' = FALSE /\ doubt' = FALSE
    /\ data' = IF data \in {"whole", "good"} THEN "old" ELSE data
    /\ UNCHANGED web

Next ==
    \/ Begin \/ Lower \/ Raise \/ GiveUpRaising \/ Rebuild
    \/ Succeed \/ Fail \/ Crash \/ NextRun

Spec == Init /\ [][Next]_vars
=============================================================================
