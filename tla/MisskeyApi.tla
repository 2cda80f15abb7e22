------------------------------ MODULE MisskeyApi ------------------------------
(***************************************************************************)
(* One check of the restored Misskey, WaitForReadiness or                  *)
(* CheckGlobalTimeline (internal/restore/misskey_api.go), against a clock. *)
(*                                                                         *)
(* Three timers run: the request's, the pause's between attempts and the   *)
(* whole check's; an answer and a signal may come at any moment, the       *)
(* moment of a deadline included.  The request's context is derived from   *)
(* the check's, and the check's from the signal's.  The program itself     *)
(* takes no time: the clock stands while it can go on (Waiting).           *)
(***************************************************************************)
EXTENDS Integers

CONSTANTS
    RequestTimeout,     \* of one request
    RetryInterval,      \* between the end of a request and the next
    Timeout             \* of the whole check

ASSUME TimersAssumption ==
    /\ RequestTimeout \in Nat \ {0}
    /\ RetryInterval \in Nat \ {0}
    /\ Timeout \in Nat \ {0}

VARIABLES
    check,      \* which of the two checks
    pc,         \* where it is
    now,        \* time since the check began
    signal,     \* the parent context is canceled
    ctxErr,     \* Err() of the check's context: what came first
    attempt,    \* requests begun
    requestEnd, \* deadline of the request
    wake,       \* when the pause is over
    got,        \* how the last request ended
    verdict     \* what the check returned

vars == <<check, pc, now, signal, ctxErr, attempt, requestEnd, wake, got, verdict>>

(***************************************************************************)
(*   valid    2xx; of the timeline also one to ten well-formed notes       *)
(*   refused  a 3xx or 4xx status; of the timeline also no note, more than *)
(*            ten, or one without an id or a date                          *)
(*   garbage  of the timeline, 2xx with a body that is not one JSON value  *)
(*   retry    a 5xx status, a transport error, a body that breaks off      *)
(***************************************************************************)
Answers == {"valid", "refused", "garbage", "retry"}

\* The clock stops just after the deadline; nothing is asked of later moments.
Horizon == Timeout + 1

\* Types of one check; the clock and the count of attempts stay in bounds.
TypeOK ==
    /\ check   \in {"readiness", "timeline"}
    /\ pc      \in {"top", "request", "decide", "pause", "returned"}
    /\ now     \in 0..Horizon
    /\ signal  \in BOOLEAN
    /\ ctxErr  \in {"none", "canceled", "deadline"}
    /\ attempt \in Nat
    /\ requestEnd \in 0..(Horizon + RequestTimeout)
    /\ wake \in 0..(Horizon + RetryInterval)
    /\ got     \in Answers \cup {"none", "timeout"}
    /\ verdict \in {"none", "nil", "refused", "canceled", "deadline"}

Init ==
    /\ check \in {"readiness", "timeline"}
    /\ pc = "top" /\ now = 0 /\ signal = FALSE /\ ctxErr = "none"
    /\ attempt = 0 /\ requestEnd = 0 /\ wake = 0
    /\ got = "none" /\ verdict = "none"

-----------------------------------------------------------------------------
(* The check.                                                              *)

Return(v) == pc' = "returned" /\ verdict' = v

\* The head of the loop.  Only the timeline looks at its context here.
BeginAttempt ==
    /\ pc = "top"
    /\ IF check = "timeline" /\ ctxErr # "none"
       THEN /\ Return(ctxErr)
            /\ UNCHANGED <<attempt, requestEnd, got>>
       ELSE /\ pc' = "request" /\ attempt' = attempt + 1
            /\ requestEnd' = now + RequestTimeout /\ got' = "none"
            /\ UNCHANGED verdict
    /\ UNCHANGED <<check, now, signal, ctxErr, wake>>

\* A request under a context of its own.
RequestDoneAlone == now >= requestEnd

\* The request's context is done: its timeout, the check's, or the signal.
RequestDone == now >= requestEnd \/ ctxErr # "none"

\* A body that cannot be decoded counts as a timeout when the context is done; what
\* a decoded body holds is judged without a look at it.
Answered ==
    /\ pc = "request"
    /\ \E a \in Answers :
        /\ a = "garbage" => check = "timeline"
        /\ got' = IF a = "garbage" /\ RequestDone THEN "timeout" ELSE a
    /\ pc' = "decide"
    /\ UNCHANGED <<check, now, signal, ctxErr, attempt, requestEnd, wake, verdict>>

RequestTimesOut ==
    /\ pc = "request" /\ RequestDone
    /\ got' = "timeout" /\ pc' = "decide"
    /\ UNCHANGED <<check, now, signal, ctxErr, attempt, requestEnd, wake, verdict>>

\* Only an error of the server or the network is worth another request.
RetryableWithoutTimeout(g) == check = "readiness" \/ g = "retry"

Retryable(g) == check = "readiness" \/ g \in {"retry", "timeout"}

\* One timer made before the loop, which has fired already.
PauseOnSharedTimer ==
    /\ pc' = "pause" /\ wake' = IF wake = 0 THEN now + RetryInterval ELSE wake
    /\ UNCHANGED verdict

Pause == pc' = "pause" /\ wake' = now + RetryInterval /\ UNCHANGED verdict

\* What the attempt's end means.  The timeline's own error is looked at after the
\* signal and the check's deadline; readiness leaves both to its pause.
Decide ==
    /\ pc = "decide"
    /\ IF got = "valid" THEN Return("nil") /\ UNCHANGED wake
       ELSE IF check = "timeline" /\ signal THEN Return("canceled") /\ UNCHANGED wake
       ELSE IF check = "timeline" /\ ctxErr # "none" THEN Return(ctxErr) /\ UNCHANGED wake
       ELSE IF ~Retryable(got) THEN Return("refused") /\ UNCHANGED wake
       ELSE Pause
    /\ UNCHANGED <<check, now, signal, ctxErr, attempt, requestEnd, got>>

\* What the select of the pause waits for.
PauseOver == now >= wake \/ ctxErr # "none"

\* When the timer and the context are both ready, either branch may be taken.
EndPause ==
    /\ pc = "pause" /\ PauseOver
    /\ \/ now >= wake /\ pc' = "top" /\ UNCHANGED verdict
       \/ ctxErr # "none" /\ Return(ctxErr)
    /\ UNCHANGED <<check, now, signal, ctxErr, attempt, requestEnd, wake, got>>

Checker == BeginAttempt \/ RequestTimesOut \/ Decide \/ EndPause

-----------------------------------------------------------------------------
(* Contexts, the signal and the clock.                                     *)

\* A check without a timeout of its own.
NoDeadline == FALSE

DeadlineReached == now >= Timeout

Expire ==
    /\ DeadlineReached /\ ctxErr = "none"
    /\ ctxErr' = "deadline"
    /\ UNCHANGED <<check, pc, now, signal, attempt, requestEnd, wake, got, verdict>>

\* The parent is canceled; the check's context keeps the first cause.
Cancel ==
    /\ ~signal /\ pc # "returned"
    /\ signal' = TRUE
    /\ ctxErr' = IF ctxErr = "none" THEN "canceled" ELSE ctxErr
    /\ UNCHANGED <<check, pc, now, attempt, requestEnd, wake, got, verdict>>

\* Nothing is left to do before time passes; a deadline comes before that, too.
Waiting ==
    \/ pc = "request" /\ ~RequestDone
    \/ pc = "pause" /\ ~PauseOver

Tick ==
    /\ Waiting /\ now < Horizon
    /\ DeadlineReached => ctxErr # "none"
    /\ now' = now + 1
    /\ UNCHANGED <<check, pc, signal, ctxErr, attempt, requestEnd, wake, got, verdict>>

Clock == Expire \/ Tick

Next == Checker \/ Answered \/ Cancel \/ Clock

Spec == Init /\ [][Next]_vars

\* Time passes and the program goes on; no answer need ever come.
FairSpec == Spec /\ WF_vars(Checker) /\ WF_vars(Clock)

-----------------------------------------------------------------------------
(* Correctness.                                                            *)

\* Time passes neither after the check's deadline nor after a signal: either ends the
\* check at the moment it comes, in whatever request or pause that is (the request's
\* context is derived from the check's; the select of the pause).
NeverLate == [][signal \/ now >= Timeout => now' = now]_vars

\* The verdict says what happened: nil is a valid answer, a signal is one, and short
\* of the deadline only a refused or malformed answer of the timeline fails a check;
\* no server error, no lost connection and no slow request does.
VerdictTruthful ==
    /\ verdict = "nil" => got = "valid"
    /\ verdict = "canceled" => signal
    /\ verdict = "deadline" => now >= Timeout
    /\ verdict = "refused" => check = "timeline" /\ got \in {"refused", "garbage"}

\* However fast the server fails, it is not asked more than once per interval
\* (the pause after every failed attempt).
RequestsPaced == attempt > 0 => (attempt - 1) * RetryInterval <= now

\* The check ends although the server never answers.
Ends == <>(pc = "returned")
=============================================================================
