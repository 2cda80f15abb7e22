------------------------------ MODULE K8sClient ------------------------------
(***************************************************************************)
(* Calls of Scale and WaitForReplicas (internal/restore/k8sclient.go) for  *)
(* one workload, one after the other, while controllers write the object   *)
(* too.                                                                    *)
(*                                                                         *)
(* Scale reads the object, sets the replicas and writes the whole object   *)
(* back under the resourceVersion it has read.  The write is a request of  *)
(* its own: it takes effect at the server some time after it was sent,     *)
(* perhaps after the caller has given up, and its answer may be lost.  The *)
(* server refuses it when the version has moved, and it does not move the  *)
(* version for a write that changes nothing.  Any call may fail; a wait's  *)
(* deadline and a signal are the call's context being done.                *)
(***************************************************************************)
EXTENDS Integers

CONSTANTS
    MaxCalls,       \* bound: calls made one after the other
    MaxForeign      \* bound: writes by controllers

ASSUME K8sAssumption == MaxCalls \in Nat /\ MaxForeign \in Nat

Kinds    == {"deployment", "statefulset"}
Attempts == 5       \* retry.DefaultRetry.Steps
Unset    == 2       \* no count of replicas
NoCall   == [op |-> "none", want |-> 0, base |-> 0]
NoCopy   == [note |-> 0, rv |-> 0]

VARIABLES
    obj,        \* the objects of the workload's name that exist
    call,       \* the call in progress; base: the version it has found, see Base
    calls,      \* how many there have been
    pc,         \* where it is
    attempt,    \* the attempt of RetryOnConflict
    kind,       \* the kind acted on
    copy,       \* what the attempt has read
    flight,     \* requests sent and not yet processed
    reply,      \* the answer to the call's request, on its way
    answer,     \* what the last call returned
    done,       \* the context of the call is done
    held        \* history: the count the last scale has moved the object to

vars == <<obj, call, calls, pc, attempt, kind, copy, flight, reply, answer, done, held>>

Counts == 0..1

\* The object the workload is: a deployment is preferred.
Target == IF "deployment" \in DOMAIN obj THEN "deployment" ELSE "statefulset"

\* The target's version, which counts the changes made to it.
Base == IF Target \in DOMAIN obj THEN obj[Target].rv ELSE 0

Init ==
    /\ \E present \in SUBSET Kinds, n \in Counts :
           obj = [k \in present |-> [replicas |-> n, ready |-> n, note |-> 0, rv |-> 1]]
    /\ call = NoCall /\ calls = 0 /\ pc = "idle" /\ attempt = 1
    /\ kind = "deployment" /\ copy = NoCopy
    /\ flight = {} /\ reply = "none" /\ answer = "none" /\ done = FALSE
    /\ held = Unset

-----------------------------------------------------------------------------
(* The calls.                                                              *)

Begin(op, n) ==
    /\ pc = "idle" /\ calls < MaxCalls
    /\ calls' = calls + 1
    /\ call' = [op |-> op, want |-> n, base |-> Base]
    /\ pc' = IF op = "scale" THEN "get" ELSE "poll"
    /\ answer' = "none"
    /\ held' = IF op = "scale" THEN Unset ELSE held
    /\ UNCHANGED <<obj, attempt, kind, copy, flight, reply, done>>

\* The end of a call; its local variables are gone.
Return(a) ==
    /\ pc' = "idle" /\ answer' = a
    /\ call' = NoCall /\ attempt' = 1 /\ kind' = "deployment" /\ copy' = NoCopy
    /\ reply' = "none" /\ done' = FALSE
    /\ UNCHANGED <<obj, calls, flight>>

\* The call goes on elsewhere, with the same locals.
GoTo(at) ==
    /\ pc' = at
    /\ UNCHANGED <<obj, call, calls, attempt, kind, copy, flight, reply, answer, done>>

\* A fallback taken after any error of the first read.
ReadFailsFallingBack ==
    /\ pc \in {"get", "fallback"}
    /\ IF pc = "get" THEN GoTo("fallback") ELSE Return("failed")
    /\ UNCHANGED held

\* A read fails: no answer, an error of the server, a context that is done.
ReadFails ==
    /\ pc \in {"get", "fallback"}
    /\ Return("failed") /\ UNCHANGED held

\* One read of scaleOnce: the deployment and, only if there is none, the
\* statefulset; with neither the attempt ends in an error that is no conflict.
Read ==
    /\ pc \in {"get", "fallback"} /\ ~done
    /\ LET k == IF pc = "get" THEN "deployment" ELSE "statefulset"
       IN  IF k \in DOMAIN obj
           THEN /\ pc' = "update" /\ kind' = k
                /\ copy' = [note |-> obj[k].note, rv |-> obj[k].rv]
                /\ UNCHANGED <<obj, call, calls, attempt, flight, reply, answer, done>>
           ELSE IF pc = "get" THEN GoTo("fallback") ELSE Return("failed")
    /\ UNCHANGED held

Request(version) ==
    [call |-> calls, kind |-> kind, want |-> call.want, note |-> copy.note, rv |-> version]

\* An update without the version read, which the server does not compare.
SendUnversioned ==
    /\ pc = "update"
    /\ flight' = flight \cup {Request(0)}
    /\ pc' = "sent"
    /\ UNCHANGED <<obj, call, calls, attempt, kind, copy, reply, answer, done, held>>

Send ==
    /\ pc = "update"
    /\ flight' = flight \cup {Request(copy.rv)}
    /\ pc' = "sent"
    /\ UNCHANGED <<obj, call, calls, attempt, kind, copy, reply, answer, done, held>>

\* The update's error, or no answer in time: the request may still be on its way.
GiveUp ==
    /\ pc = "sent"
    /\ Return("failed") /\ UNCHANGED held

\* A conflict that counts as done.
ScaleReturnsOnAnyAnswer ==
    /\ pc = "sent" /\ reply # "none"
    /\ held' = IF reply = "same" THEN Unset ELSE call.want
    /\ Return("nil")

ScaleReturns ==
    /\ pc = "sent" /\ reply \in {"moved", "same"}
    /\ held' = IF reply = "moved" THEN call.want ELSE Unset
    /\ Return("nil")

\* A retry that writes the object read by the first attempt again.
RetryWithoutReading ==
    /\ pc = "sent" /\ reply = "conflict"
    /\ IF attempt < Attempts
       THEN /\ attempt' = attempt + 1 /\ pc' = "update" /\ reply' = "none"
            /\ UNCHANGED <<obj, call, calls, kind, copy, flight, answer, done>>
       ELSE Return("conflict")
    /\ UNCHANGED held

\* RetryOnConflict runs the whole attempt again, read included, five in all.
Retry ==
    /\ pc = "sent" /\ reply = "conflict"
    /\ IF attempt < Attempts
       THEN /\ attempt' = attempt + 1 /\ pc' = "get" /\ reply' = "none"
            /\ kind' = "deployment" /\ copy' = NoCopy
            /\ UNCHANGED <<obj, call, calls, flight, answer, done>>
       ELSE Return("conflict")
    /\ UNCHANGED held

\* statusReplicas: a count read from the object.
Poll ==
    /\ pc \in {"poll", "poll fallback"} /\ ~done
    /\ LET k == IF pc = "poll" THEN "deployment" ELSE "statefulset"
       IN  IF k \in DOMAIN obj
           THEN IF obj[k].ready = call.want THEN Return("nil") ELSE GoTo("pause")
           ELSE GoTo(IF pc = "poll" THEN "poll fallback" ELSE "pause")
    /\ UNCHANGED held

\* An error comes with the count 0 and does not count as an observation.
PollFails ==
    /\ pc \in {"poll", "poll fallback"}
    /\ IF done THEN Return("failed") ELSE GoTo("pause")
    /\ UNCHANGED held

\* The next tick; when the context is done too, either may come first.
Tick == pc = "pause" /\ GoTo("poll") /\ UNCHANGED held

WaitTimesOut == pc = "pause" /\ done /\ Return("failed") /\ UNCHANGED held

\* A wait without a deadline of its own.
SignalOnly ==
    /\ pc # "idle" /\ ~done /\ call.op = "scale"
    /\ done' = TRUE
    /\ UNCHANGED <<obj, call, calls, pc, attempt, kind, copy, flight, reply, answer, held>>

\* The deadline of a wait, or a signal.
ContextDone ==
    /\ pc # "idle" /\ ~done
    /\ done' = TRUE
    /\ UNCHANGED <<obj, call, calls, pc, attempt, kind, copy, flight, reply, answer, held>>

-----------------------------------------------------------------------------
(* The API server and the controllers.                                     *)

Stale(r) == r.rv # 0 /\ r.rv # obj[r.kind].rv

\* The server processes a request.  The status is not part of an update.
Process(r) ==
    /\ flight' = flight \ {r}
    /\ LET o       == obj[r.kind]
           written == [o EXCEPT !.replicas = r.want, !.note = r.note]
           outcome == IF Stale(r) THEN "conflict" ELSE IF written = o THEN "same" ELSE "moved"
       IN  /\ obj' = IF outcome = "moved"
                     THEN [obj EXCEPT ![r.kind] = [written EXCEPT !.rv = @ + 1]] ELSE obj
           /\ reply' = IF pc = "sent" /\ r.call = calls THEN outcome ELSE reply
    /\ UNCHANGED <<call, calls, pc, attempt, kind, copy, answer, done, held>>

ForeignWrites ==
    LET writes(k) == IF k \in DOMAIN obj THEN obj[k].note ELSE 0
    IN  writes("deployment") + writes("statefulset")

\* A controller writes the status, and something of its own into the object.
ControllerWrites ==
    /\ ForeignWrites < MaxForeign
    /\ \E k \in DOMAIN obj, n \in Counts :
           obj' = [obj EXCEPT ![k] = [obj[k] EXCEPT !.ready = n, !.note = @ + 1, !.rv = @ + 1]]
    /\ UNCHANGED <<call, calls, pc, attempt, kind, copy, flight, reply, answer, done, held>>

\* What the client does when nothing new goes wrong.
Client ==
    \/ Read \/ Send \/ ScaleReturns \/ Retry
    \/ Poll \/ Tick \/ WaitTimesOut
    \/ done /\ (ReadFails \/ GiveUp \/ PollFails)

Server == \E r \in flight : Process(r)

Next ==
    \/ \E op \in {"scale", "wait"}, n \in Counts : Begin(op, n)
    \/ Client \/ ReadFails \/ GiveUp \/ PollFails
    \/ ContextDone
    \/ Server \/ ControllerWrites

Spec == Init /\ [][Next]_vars

\* Requests are answered, and the deadline of a wait passes.
FairSpec ==
    /\ Spec
    /\ WF_vars(Client) /\ WF_vars(Server)
    /\ WF_vars(call.op = "wait" /\ ContextDone)

-----------------------------------------------------------------------------
(* Correctness.                                                            *)

\* A count that a scale has moved the object to stays until the next scale call,
\* although an update that an earlier call gave up on lands later: the version it
\* carries has moved (read-modify-write under resourceVersion).
ScaleSticks == held # Unset => obj[Target].replicas = held

\* Scale reports a conflict only after five changes by others during the call, so
\* one or two status updates cannot fail a restore test (RetryOnConflict, re-GET).
GivesUpOnlyUnderContention ==
    [][answer # "conflict" /\ answer' = "conflict" => Base - call.base >= Attempts]_vars

\* What controllers write between the read and the update is never overwritten,
\* however late the update lands (the whole object is written, versioned).
ForeignWritesKept ==
    [][\A k \in DOMAIN obj : obj'[k].note >= obj[k].note]_vars

\* Calls are about the workload itself: a statefulset of the same name is left alone
\* when there is a deployment, also when reading the deployment fails for a moment, and
\* a wait that returns nil has seen the wanted count there, never a failed read's 0 or
\* the count of another object (IsNotFound before each fallback, statusReplicas).
ActsOnTarget ==
    [][/\ DOMAIN obj = Kinds => obj'["statefulset"].replicas = obj["statefulset"].replicas
       /\ pc # "idle" /\ pc' = "idle" /\ call.op = "wait" /\ answer' = "nil"
              => Target \in DOMAIN obj /\ obj[Target].ready = call.want]_vars

\* Every call ends, however many conflicts, failed polls and flapping counts there
\* are (five attempts; the deadline of the wait).
CallsEnd == pc # "idle" ~> pc = "idle"
=============================================================================
