------------------------------- MODULE Cluster -------------------------------
(***************************************************************************)
(* What a restore-test run acts on and does not control: the web and db    *)
(* workloads of a Kubernetes namespace and the target database inside the  *)
(* db workload.  None of it is code of this repository; it is modelled     *)
(* from how internal/restore/k8sclient.go reads and writes workloads and   *)
(* from what internal/restore/db.go relies on PostgreSQL to do.            *)
(*                                                                         *)
(* A workload asks for 0 or 1 replicas (its spec), has at most one pod,    *)
(* and carries a status with the number of READY pods, written by its      *)
(* controller some time after the pod changed.  A pod told to stop leaves  *)
(* the ready count at once and keeps running until it is gone.             *)
(***************************************************************************)
EXTENDS Integers

CONSTANT
    Disturbances    \* what may go wrong: a subset of {"fault", "cancel", "crash"}

\* Cancelling a run makes calls in flight fail after an unknown part of their
\* effect, so a model with cancellation has failing calls too.
ASSUME DisturbancesAssumption ==
    /\ Disturbances \subseteq {"fault", "cancel", "crash"}
    /\ "cancel" \in Disturbances => "fault" \in Disturbances

VARIABLES
    spec,       \* workload -> replicas asked for
    pod,        \* workload -> what its pod is doing
    status,     \* workload -> ready replicas as the API reports them
    database,   \* what the target database holds
    session     \* TRUE while the web pod holds a connection to the target

clusterVars == <<spec, pod, status, database, session>>

Workloads == {"web", "db"}
Pods      == {"none", "starting", "ready", "terminating"}

(***************************************************************************)
(*   absent    dropped, or never created                                   *)
(*   old       left by an earlier run or by hand                           *)
(*   empty     fresh from template0                                        *)
(*   dirty     fresh, then filled by the web pod's own migrations or with  *)
(*             a part of the dump                                          *)
(*   restored  the dump of the current run, committed                      *)
(*   analyzed  restored, with planner statistics                           *)
(***************************************************************************)
Databases == {"absent", "old", "empty", "dirty", "restored", "analyzed"}

ClusterTypeOK ==
    /\ spec     \in [Workloads -> 0..1]
    /\ pod      \in [Workloads -> Pods]
    /\ status   \in [Workloads -> 0..1]
    /\ database \in Databases
    /\ session  \in BOOLEAN

\* A cluster at rest, with whatever database an earlier run left in it.
ClusterInit ==
    /\ spec     \in [Workloads -> 0..1]
    /\ pod      = [w \in Workloads |-> IF spec[w] = 1 THEN "ready" ELSE "none"]
    /\ status   = spec
    /\ database \in {"absent", "old", "empty", "dirty"}
    /\ session  = FALSE

\* psql reaches the server while the db pod runs, stopping included.
DatabaseReachable == pod["db"] # "none"

StartPod(w) ==
    /\ spec[w] = 1 /\ pod[w] = "none"
    /\ pod' = [pod EXCEPT ![w] = "starting"]
    /\ UNCHANGED <<spec, status, database, session>>

PodReady(w) ==
    /\ pod[w] = "starting"
    /\ pod' = [pod EXCEPT ![w] = "ready"]
    /\ UNCHANGED <<spec, status, database, session>>

\* A readiness probe fails for a while.
PodUnready(w) ==
    /\ "fault" \in Disturbances
    /\ pod[w] = "ready"
    /\ pod' = [pod EXCEPT ![w] = "starting"]
    /\ UNCHANGED <<spec, status, database, session>>

StopPod(w) ==
    /\ spec[w] = 0 /\ pod[w] \in {"starting", "ready"}
    /\ pod' = [pod EXCEPT ![w] = "terminating"]
    /\ UNCHANGED <<spec, status, database, session>>

\* The grace period ends; a session needs both pods.
PodGone(w) ==
    /\ pod[w] = "terminating"
    /\ pod' = [pod EXCEPT ![w] = "none"]
    /\ session' = FALSE
    /\ UNCHANGED <<spec, status, database>>

ReportStatus(w) ==
    LET ready == IF pod[w] = "ready" THEN 1 ELSE 0
    IN  /\ status[w] # ready
        /\ status' = [status EXCEPT ![w] = ready]
        /\ UNCHANGED <<spec, pod, database, session>>

WebConnect ==
    /\ ~session
    /\ pod["web"] # "none" /\ DatabaseReachable /\ database # "absent"
    /\ session' = TRUE
    /\ UNCHANGED <<spec, pod, status, database>>

\* Misskey creates its tables in a database that has none.
WebMigrate ==
    /\ session /\ database = "empty"
    /\ database' = "dirty"
    /\ UNCHANGED <<spec, pod, status, session>>

\* The controllers and kubelets; they are live.
Controllers ==
    \E w \in Workloads :
        StartPod(w) \/ PodReady(w) \/ StopPod(w) \/ PodGone(w) \/ ReportStatus(w)

\* What happens by itself and need not happen.
Happenstance ==
    \/ \E w \in Workloads : PodUnready(w)
    \/ WebConnect
    \/ WebMigrate

ControllerFairness ==
    \A w \in Workloads :
        /\ WF_clusterVars(StartPod(w))
        /\ WF_clusterVars(PodReady(w))
        /\ WF_clusterVars(StopPod(w))
        /\ WF_clusterVars(PodGone(w))
        /\ WF_clusterVars(ReportStatus(w))

Settled(w) ==
    /\ pod[w]    = IF spec[w] = 1 THEN "ready" ELSE "none"
    /\ status[w] = spec[w]
=============================================================================
