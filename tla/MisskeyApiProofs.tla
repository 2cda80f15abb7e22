--------------------------- MODULE MisskeyApiProofs ---------------------------
(***************************************************************************)
(* MisskeyApi for any timeouts and any retry interval.  Of its liveness    *)
(* property the two halves that need no fairness are proved: a check has   *)
(* only so many steps (Progress), and until it has returned its goroutine  *)
(* or the clock can always take one (NeverStuck).                          *)
(***************************************************************************)
EXTENDS MisskeyApi, TLAPS

\* The check lasts no longer than its timeout.
EndsInTime == now <= Timeout

\* The causes: what ended a context has happened, and what ended the check.
CauseInv ==
    /\ signal => ctxErr # "none"
    /\ ctxErr = "canceled" => signal
    /\ ctxErr = "deadline" => now >= Timeout
    /\ pc = "decide" => got # "none"
    /\ pc # "returned" => verdict = "none"
    /\ VerdictTruthful

\* Every attempt but the first began an interval after an earlier one.
Earliest(n) == (n - 1) * RetryInterval

PaceInv ==
    /\ pc = "top" => Earliest(attempt + 1) <= now
    /\ pc \in {"request", "decide"} => attempt > 0
    /\ pc = "pause" => attempt > 0 /\ Earliest(attempt + 1) <= wake
    /\ attempt > 0 => Earliest(attempt) <= now

IInv == TypeOK /\ EndsInTime /\ CauseInv /\ PaceInv

-----------------------------------------------------------------------------

\* The arithmetic: intervals are added one by one.
LEMMA Intervals ==
    ASSUME NEW n \in Nat
    PROVE  Earliest(n) \in Int /\ Earliest(n + 1) = Earliest(n) + RetryInterval
  BY TimersAssumption DEF TimersAssumption, Earliest

LEMMA InitIInv == Init => IInv
<1> SUFFICES ASSUME Init PROVE IInv
  OBVIOUS
<1>1. Timeout \in Nat /\ RequestTimeout \in Nat /\ RetryInterval \in Nat
  BY TimersAssumption DEF TimersAssumption
<1>2. TypeOK
  <2>1. /\ 0 \in 0..Horizon /\ 0 \in 0..(Horizon + RequestTimeout)
        /\ 0 \in 0..(Horizon + RetryInterval)
    BY <1>1 DEF Horizon
  <2>2. QED
    BY <2>1 DEF Init, TypeOK
<1>3. EndsInTime /\ CauseInv
  BY <1>1 DEF Init, EndsInTime, CauseInv, VerdictTruthful
<1>4. PaceInv
  BY <1>1 DEF Init, PaceInv, Earliest
<1>5. QED
  BY <1>2, <1>3, <1>4 DEF IInv

LEMMA CheckerStep == ASSUME IInv, Checker \/ Answered PROVE IInv'
<1>t. /\ Timeout \in Nat /\ RequestTimeout \in Nat /\ RetryInterval \in Nat
      /\ now \in Nat /\ now <= Timeout /\ attempt \in Nat /\ wake \in Nat
  BY TimersAssumption DEF TimersAssumption, IInv, TypeOK, Horizon, EndsInTime
<1>i. /\ Earliest(attempt) \in Int /\ Earliest(attempt + 1) \in Int
      /\ Earliest(attempt + 1) = Earliest(attempt) + RetryInterval
  BY <1>t, Intervals
<1>1. CASE BeginAttempt
  <2>1. TypeOK'
    BY <1>1, <1>t DEF BeginAttempt, Return, IInv, TypeOK, Horizon
  <2>2. EndsInTime' /\ CauseInv'
    BY <1>1 DEF BeginAttempt, Return, IInv, TypeOK, EndsInTime, CauseInv, VerdictTruthful
  <2>3. PaceInv'
    <3>1. pc = "top" /\ now' = now
      BY <1>1 DEF BeginAttempt
    <3>2. CASE pc' = "returned" /\ attempt' = attempt
      BY <3>1, <3>2 DEF IInv, PaceInv, Earliest
    <3>3. CASE pc' = "request" /\ attempt' = attempt + 1
      BY <3>1, <3>3, <1>t, <1>i DEF IInv, PaceInv, Earliest
    <3>4. QED
      BY <1>1, <3>2, <3>3 DEF BeginAttempt, Return
  <2>4. QED
    BY <2>1, <2>2, <2>3 DEF IInv
<1>2. CASE RequestTimesOut
  <2>1. TypeOK'
    BY <1>2 DEF RequestTimesOut, IInv, TypeOK
  <2>2. EndsInTime' /\ CauseInv'
    BY <1>2 DEF RequestTimesOut, IInv, EndsInTime, CauseInv, VerdictTruthful
  <2>3. PaceInv'
    BY <1>2 DEF RequestTimesOut, IInv, PaceInv, Earliest
  <2>4. QED
    BY <2>1, <2>2, <2>3 DEF IInv
<1>3. CASE Answered
  <2>0. got' \in Answers \cup {"timeout"} /\ got' # "none"
    BY <1>3 DEF Answered, Answers
  <2>1. TypeOK'
    BY <1>3, <2>0 DEF Answered, IInv, TypeOK
  <2>2. EndsInTime' /\ CauseInv'
    BY <1>3, <2>0 DEF Answered, IInv, EndsInTime, CauseInv, VerdictTruthful
  <2>3. PaceInv'
    BY <1>3 DEF Answered, IInv, PaceInv, Earliest
  <2>4. QED
    BY <2>1, <2>2, <2>3 DEF IInv
<1>4. CASE Decide
  <2>1. /\ pc = "decide" /\ got # "none"
        /\ UNCHANGED <<check, now, signal, ctxErr, attempt, requestEnd, got>>
    BY <1>4 DEF Decide, IInv, CauseInv
  <2>2. CASE Pause
    <3>1. pc' = "pause" /\ wake' = now + RetryInterval /\ verdict' = verdict
      BY <2>2 DEF Pause
    <3>2. TypeOK'
      BY <2>1, <3>1, <1>t DEF IInv, TypeOK, Horizon
    <3>3. EndsInTime' /\ CauseInv'
      BY <2>1, <3>1 DEF IInv, EndsInTime, CauseInv, VerdictTruthful
    <3>4. PaceInv'
      <4>1. attempt > 0 /\ Earliest(attempt) <= now
        BY <2>1 DEF IInv, PaceInv
      <4>2. Earliest(attempt + 1) <= wake'
        BY <3>1, <4>1, <1>t, <1>i
      <4>3. QED
        BY <2>1, <3>1, <4>1, <4>2 DEF PaceInv, Earliest
    <3>5. QED
      BY <3>2, <3>3, <3>4 DEF IInv
  <2>3. CASE /\ pc' = "returned" /\ wake' = wake
             /\ \/ verdict' = "nil" /\ got = "valid"
                \/ verdict' = "canceled" /\ signal
                \/ verdict' = ctxErr /\ ctxErr # "none"
                \/ verdict' = "refused" /\ ~Retryable(got) /\ got # "valid"
    <3>1. TypeOK'
      BY <2>1, <2>3 DEF IInv, TypeOK
    <3>2. EndsInTime' /\ CauseInv'
      BY <2>1, <2>3
         DEF IInv, TypeOK, EndsInTime, CauseInv, VerdictTruthful, Retryable, Answers
    <3>3. PaceInv'
      BY <2>1, <2>3 DEF IInv, PaceInv, Earliest
    <3>4. QED
      BY <3>1, <3>2, <3>3 DEF IInv
  <2>4. QED
    BY <1>4, <2>2, <2>3 DEF Decide, Return
<1>5. CASE EndPause
  <2>1. TypeOK'
    BY <1>5 DEF EndPause, Return, IInv, TypeOK
  <2>2. EndsInTime' /\ CauseInv'
    BY <1>5 DEF EndPause, Return, IInv, TypeOK, EndsInTime, CauseInv, VerdictTruthful
  <2>3. PaceInv'
    <3>1. pc = "pause" /\ UNCHANGED <<now, attempt, wake>>
          /\ (pc' = "returned" \/ (pc' = "top" /\ now >= wake))
      BY <1>5 DEF EndPause, Return
    <3>2. attempt > 0 /\ Earliest(attempt + 1) <= wake /\ Earliest(attempt) <= now
      BY <3>1 DEF IInv, PaceInv
    <3>3. pc' = "top" => Earliest(attempt + 1) <= now
      BY <3>1, <3>2, <1>t, <1>i
    <3>4. QED
      BY <3>1, <3>2, <3>3 DEF PaceInv, Earliest
  <2>4. QED
    BY <2>1, <2>2, <2>3 DEF IInv
<1>6. QED
  BY <1>1, <1>2, <1>3, <1>4, <1>5 DEF Checker

LEMMA ClockStep == ASSUME IInv, Clock \/ Cancel PROVE IInv'
<1>t. /\ Timeout \in Nat /\ now \in Nat /\ now <= Timeout /\ attempt \in Nat
      /\ Earliest(attempt) \in Int /\ Earliest(attempt + 1) \in Int
  BY TimersAssumption, Intervals
     DEF TimersAssumption, IInv, TypeOK, Horizon, EndsInTime, Earliest
<1>1. CASE Expire
  <2>1. TypeOK'
    BY <1>1 DEF Expire, IInv, TypeOK
  <2>2. EndsInTime' /\ CauseInv'
    BY <1>1 DEF Expire, DeadlineReached, IInv, EndsInTime, CauseInv, VerdictTruthful
  <2>3. PaceInv'
    BY <1>1 DEF Expire, IInv, PaceInv, Earliest
  <2>4. QED
    BY <2>1, <2>2, <2>3 DEF IInv
<1>2. CASE Tick
  \* A check that waits has a live context, so its deadline has not come.
  <2>1. ctxErr = "none" /\ pc # "returned" /\ now' = now + 1 /\ pc # "top"
        /\ UNCHANGED <<check, pc, signal, ctxErr, attempt, requestEnd, wake, got, verdict>>
    BY <1>2 DEF Tick, Waiting, RequestDone, PauseOver
  <2>2. now' \in Nat /\ now' <= Timeout
    BY <1>2, <2>1, <1>t DEF Tick, DeadlineReached
  <2>3. TypeOK'
    BY <2>1, <2>2, <1>t DEF IInv, TypeOK, Horizon
  <2>4. EndsInTime' /\ CauseInv'
    BY <2>1, <2>2 DEF IInv, EndsInTime, CauseInv, VerdictTruthful
  <2>5. PaceInv'
    <3>1. attempt > 0 => Earliest(attempt) <= now'
      BY <2>1, <1>t DEF IInv, PaceInv
    <3>2. QED
      BY <2>1, <3>1 DEF IInv, PaceInv, Earliest
  <2>6. QED
    BY <2>3, <2>4, <2>5 DEF IInv
<1>3. CASE Cancel
  <2>1. TypeOK'
    BY <1>3 DEF Cancel, IInv, TypeOK
  <2>2. EndsInTime' /\ CauseInv'
    BY <1>3 DEF Cancel, IInv, EndsInTime, CauseInv, VerdictTruthful
  <2>3. PaceInv'
    BY <1>3 DEF Cancel, IInv, PaceInv, Earliest
  <2>4. QED
    BY <2>1, <2>2, <2>3 DEF IInv
<1>4. QED
  BY <1>1, <1>2, <1>3 DEF Clock

LEMMA Invariance == Spec => []IInv
<1>1. IInv /\ [Next]_vars => IInv'
  <2> SUFFICES ASSUME IInv, [Next]_vars PROVE IInv'
    OBVIOUS
  <2>1. CASE Next
    BY <2>1, CheckerStep, ClockStep DEF Next
  <2>2. CASE UNCHANGED vars
    <3>1. TypeOK' /\ EndsInTime'
      BY <2>2 DEF vars, IInv, TypeOK, EndsInTime
    <3>2. CauseInv' /\ PaceInv'
      BY <2>2 DEF vars, IInv, CauseInv, VerdictTruthful, PaceInv, Earliest
    <3>3. QED
      BY <3>1, <3>2 DEF IInv
  <2>3. QED
    BY <2>1, <2>2
<1>2. QED
  BY <1>1, InitIInv, PTL DEF Spec

\* The clock and the counters of a check stay in bounds (the loops of both checks).
THEOREM TypeCorrect == Spec => []TypeOK
<1>1. IInv => TypeOK
  BY DEF IInv
<1>2. QED
  BY <1>1, Invariance, PTL

\* No check outlasts its timeout (the request's context is derived from the check's).
THEOREM EndsInTimeHolds == Spec => []EndsInTime
<1>1. IInv => EndsInTime
  BY DEF IInv
<1>2. QED
  BY <1>1, Invariance, PTL

\* The verdict names what happened (CheckGlobalTimeline, WaitForReadiness).
THEOREM VerdictTruthfulHolds == Spec => []VerdictTruthful
<1>1. IInv => VerdictTruthful
  BY DEF IInv, CauseInv
<1>2. QED
  BY <1>1, Invariance, PTL

\* At most one request per interval (the pause between attempts).
THEOREM RequestsPacedHolds == Spec => []RequestsPaced
<1>1. IInv => RequestsPaced
  BY DEF IInv, PaceInv, Earliest, RequestsPaced
<1>2. QED
  BY <1>1, Invariance, PTL

\* No time passes after a signal or the deadline (the select, NewRequestWithContext).
THEOREM NeverLateHolds == Spec => NeverLate
<1>1. IInv /\ [Next]_vars => [signal \/ now >= Timeout => now' = now]_vars
  <2> SUFFICES ASSUME IInv, Next, signal \/ now >= Timeout PROVE now' = now
    BY DEF vars
  <2>1. CASE Tick
    <3>1. ctxErr # "none"
      BY <2>1 DEF IInv, CauseInv, Tick, DeadlineReached
    <3>2. ~Waiting
      BY <3>1 DEF Waiting, RequestDone, PauseOver
    <3>3. QED
      BY <2>1, <3>2 DEF Tick
  <2>2. CASE ~Tick
    BY <2>2, Zenon DEF Next, Checker, BeginAttempt, RequestTimesOut, Decide, EndPause,
       Answered, Cancel, Clock, Expire
  <2>3. QED
    BY <2>1, <2>2
<1>2. QED
  BY <1>1, Invariance, PTL DEF Spec, NeverLate

-----------------------------------------------------------------------------
(* A check comes to its end.                                               *)

\* The guards of Checker and of Clock.
CheckerReady ==
    \/ pc \in {"top", "decide"}
    \/ pc = "request" /\ RequestDone
    \/ pc = "pause" /\ PauseOver

ClockReady ==
    \/ DeadlineReached /\ ctxErr = "none"
    \/ /\ Waiting /\ now < Horizon
       /\ DeadlineReached => ctxErr # "none"

\* Until the check has returned there is something it waits for that comes without an
\* answer: the timeout of the request, the end of the pause, its own deadline.
NeverStuck == pc # "returned" => CheckerReady \/ ClockReady

\* How far the check has to go before time must pass again; a pause that is over
\* leads to another attempt.
Ahead ==
    IF pc = "pause" /\ now >= wake THEN 5
    ELSE IF pc = "top" THEN 4 ELSE IF pc = "request" THEN 3
    ELSE IF pc = "decide" THEN 2 ELSE IF pc = "pause" THEN 1 ELSE 0

\* A bound on the steps that the check still has.
StepsLeft ==
    (5 * (Timeout - now) + Ahead)
      + ((IF ctxErr = "none" THEN 1 ELSE 0) + (IF signal THEN 0 ELSE 1))

\* No step goes back: between two moments there is one attempt at most, whatever the
\* server answers and however fast.
Progress == [][StepsLeft' < StepsLeft]_vars

LEMMA AheadIs == Ahead \in 0..5
  BY DEF Ahead

\* When a moment passes, what lies ahead may grow by four; else it has to fall.
LEMMA MomentCounts ==
  ASSUME NEW t \in Int, NEW n \in Int, NEW a \in Int, NEW a2 \in Int
  PROVE  /\ a2 <= a + 4 => 5 * (t - (n + 1)) + a2 < 5 * (t - n) + a
         /\ a2 < a => 5 * (t - n) + a2 < 5 * (t - n) + a
  OBVIOUS

LEMMA PairFalls ==
  ASSUME NEW a \in Int, NEW b \in Int, NEW a2 \in Int, NEW b2 \in Int, a2 <= a, b2 <= b
  PROVE  /\ a + b \in Int /\ a2 + b2 \in Int /\ a2 + b2 <= a + b
         /\ a2 < a \/ b2 < b => a2 + b2 < a + b
  OBVIOUS

LEMMA StepsLeftIsNat == IInv => StepsLeft \in Nat
<1> SUFFICES ASSUME IInv PROVE StepsLeft \in Nat
  OBVIOUS
<1> DEFINE h == Timeout - now
           x == (IF ctxErr = "none" THEN 1 ELSE 0) + (IF signal THEN 0 ELSE 1)
<1>1. h \in Nat
  BY TimersAssumption DEF TimersAssumption, IInv, TypeOK, Horizon, EndsInTime
<1>2. x \in Nat /\ Ahead \in Nat
  BY AheadIs
<1>3. StepsLeft = (5 * h + Ahead) + x
  BY DEF StepsLeft
<1> HIDE DEF h, x
<1>4. QED
  BY <1>1, <1>2, <1>3

\* A check that has not returned is never without a next step (the three timers).
THEOREM NeverStuckHolds == Spec => []NeverStuck
<1>1. IInv => NeverStuck
  <2> SUFFICES ASSUME IInv, pc # "returned", ~CheckerReady
               PROVE  ClockReady
    BY DEF NeverStuck
  <2>1. (pc = "request" /\ ~RequestDone) \/ (pc = "pause" /\ ~PauseOver)
    BY DEF CheckerReady, IInv, TypeOK
  <2>2. Waiting /\ ctxErr = "none"
    BY <2>1 DEF Waiting, RequestDone, PauseOver
  <2>3. CASE DeadlineReached
    BY <2>2, <2>3 DEF ClockReady
  <2>4. CASE ~DeadlineReached
    <3>1. now < Horizon
      BY TimersAssumption DEF TimersAssumption, IInv, TypeOK, Horizon, EndsInTime
    <3>2. QED
      BY <2>2, <2>4, <3>1 DEF ClockReady
  <2>5. QED
    BY <2>3, <2>4
<1>2. QED
  BY <1>1, Invariance, PTL

\* Each step of a check brings its end nearer (the pause after every failed attempt).
THEOREM ProgressHolds == Spec => [](StepsLeft \in Nat) /\ Progress
<1>1. ASSUME IInv, Next PROVE StepsLeft' < StepsLeft
  <2> DEFINE a == Ahead
             t == 5 * (Timeout - now) + a
             x == IF ctxErr = "none" THEN 1 ELSE 0
             y == IF signal THEN 0 ELSE 1
             Falls ==
               /\ t' <= t /\ x' <= x /\ y' <= y
               /\ t' < t \/ x' < x \/ y' < y
  <2>1. /\ now \in Nat /\ Timeout \in Nat /\ RetryInterval \in Nat \ {0} /\ wake \in Nat
    BY <1>1, TimersAssumption DEF TimersAssumption, IInv, TypeOK, Horizon
  <2>2. now' \in Nat
    <3>1. IInv'
      BY <1>1, CheckerStep, ClockStep, Zenon DEF Next
    <3>2. QED
      BY <3>1, TimersAssumption DEF TimersAssumption, IInv, TypeOK, Horizon
  <2>3. a \in Int /\ a' \in Int /\ a \in 0..5 /\ a' \in 0..5
    BY DEF Ahead
  <2>4. t \in Int /\ t' \in Int
    BY <2>1, <2>2, <2>3
  <2>5. x \in Int /\ x' \in Int /\ y \in Int /\ y' \in Int
    OBVIOUS
  <2>6. (ctxErr' = ctxErr => x' = x) /\ (signal' = signal => y' = y)
    OBVIOUS
  <2>7. now' = now /\ a' < a => t' < t
    <3> HIDE DEF a
    <3>1. now \in Int /\ Timeout \in Int
      BY <2>1
    <3>2. a' < a => 5 * (Timeout - now) + a' < 5 * (Timeout - now) + a
      BY <2>3, <3>1, MomentCounts
    <3>3. QED
      BY <3>2
  <2>8. pc' = "returned" => a' = 0
    BY DEF Ahead
  <2> HIDE DEF a, t, x, y
  <2>9. ASSUME BeginAttempt PROVE Falls
    <3>1. pc = "top" /\ pc' \in {"request", "returned"}
      BY <2>9 DEF BeginAttempt, Return
    <3>2. UNCHANGED <<now, ctxErr, signal>>
      BY <2>9 DEF BeginAttempt
    <3>3. a = 4 /\ (pc' = "request" => a' = 3)
      BY <3>1 DEF Ahead, a
    <3>4. a' < a
      BY <2>8, <3>1, <3>3
    <3>5. QED
      BY <2>4, <2>5, <2>6, <2>7, <3>2, <3>4
  <2>10. ASSUME Answered \/ RequestTimesOut PROVE Falls
    <3>1. pc = "request" /\ pc' = "decide" /\ UNCHANGED <<now, ctxErr, signal>>
      BY <2>10 DEF Answered, RequestTimesOut
    <3>2. a = 3 /\ a' = 2
      BY <3>1 DEF Ahead, a
    <3>3. QED
      BY <2>4, <2>5, <2>6, <2>7, <3>1, <3>2
  <2>11. ASSUME Decide PROVE Falls
    <3>1. pc = "decide" /\ UNCHANGED <<now, ctxErr, signal>>
      BY <2>11 DEF Decide
    <3>2. pc' = "returned" \/ (pc' = "pause" /\ wake' = now + RetryInterval)
      BY <2>11 DEF Decide, Return, Pause
    <3>3. a = 2
      BY <3>1 DEF Ahead, a
    <3>4. ASSUME pc' = "pause", wake' = now + RetryInterval PROVE a' = 1
      <4>1. ~(now' >= wake')
        BY <2>1, <3>1, <3>4
      <4>2. QED
        BY <3>4, <4>1 DEF Ahead, a
    <3>5. a' < a
      BY <2>8, <3>2, <3>3, <3>4
    <3>6. QED
      BY <2>4, <2>5, <2>6, <2>7, <3>1, <3>5
  <2>12. ASSUME EndPause PROVE Falls
    <3>1. pc = "pause" /\ UNCHANGED <<now, ctxErr, signal>>
      BY <2>12 DEF EndPause
    <3>2. (now >= wake /\ pc' = "top") \/ pc' = "returned"
      BY <2>12 DEF EndPause, Return
    <3>3. a \in {1, 5} /\ (now >= wake => a = 5)
      BY <3>1 DEF Ahead, a
    <3>4. pc' = "top" => a' = 4
      BY DEF Ahead, a
    <3>5. a' < a
      BY <2>8, <3>2, <3>3, <3>4
    <3>6. QED
      BY <2>4, <2>5, <2>6, <2>7, <3>1, <3>5
  <2>13. ASSUME Expire \/ Cancel PROVE Falls
    <3>1. UNCHANGED <<pc, now, wake>>
      BY <2>13 DEF Expire, Cancel
    <3>2. t' = t
      BY <3>1 DEF t, a, Ahead
    <3>3. CASE Expire
      <4>1. ctxErr = "none" /\ ctxErr' = "deadline" /\ signal' = signal
        BY <3>3 DEF Expire
      <4>2. x = 1 /\ x' = 0
        BY <4>1 DEF x
      <4>3. QED
        BY <2>4, <2>5, <2>6, <3>2, <4>1, <4>2
    <3>4. CASE Cancel
      <4>1. signal = FALSE /\ signal' = TRUE
        BY <1>1, <3>4, Zenon DEF Cancel, IInv, TypeOK
      <4>2. y = 1 /\ y' = 0
        BY <4>1 DEF y
      <4>3. ctxErr' = ctxErr \/ ctxErr' = "canceled"
        BY <3>4 DEF Cancel
      <4>4. ctxErr' = "canceled" => x' = 0 /\ x \in 0..1
        BY DEF x
      <4>5. x' <= x
        BY <2>5, <2>6, <4>3, <4>4
      <4>6. QED
        BY <2>4, <2>5, <3>2, <4>2, <4>5
    <3>5. QED
      BY <2>13, <3>3, <3>4
  <2>14. ASSUME Tick PROVE Falls
    <3>1. Waiting /\ now' = now + 1 /\ UNCHANGED <<pc, wake, ctxErr, signal>>
      BY <2>14 DEF Tick
    <3>2. \/ pc = "request"
          \/ pc = "pause" /\ ~(now >= wake)
      BY <3>1 DEF Waiting, PauseOver
    <3>3. a' <= a + 4
      <4>1. CASE pc = "request"
        <5>1. a = 3 /\ a' = 3
          BY <3>1, <4>1 DEF Ahead, a
        <5>2. QED
          BY <5>1
      <4>2. CASE pc = "pause" /\ ~(now >= wake)
        <5>1. a = 1
          BY <4>2 DEF Ahead, a
        <5>2. QED
          BY <2>3, <5>1
      <4>3. QED
        BY <3>2, <4>1, <4>2
    <3>4. t' < t
      <4>1. 5 * (Timeout - (now + 1)) + a' < 5 * (Timeout - now) + a
        <5>1. now \in Int /\ Timeout \in Int
          BY <2>1
        <5>2. QED
          BY <2>3, <3>3, <5>1, MomentCounts
      <4>2. QED
        BY <3>1, <4>1 DEF t
    <3>5. QED
      BY <2>4, <2>5, <2>6, <3>1, <3>4
  <2>15. Falls
    BY <1>1, <2>9, <2>10, <2>11, <2>12, <2>13, <2>14, Zenon DEF Next, Checker, Clock
  <2> DEFINE z == x + y
  <2>16. StepsLeft = t + z /\ StepsLeft' = t' + z'
    BY DEF StepsLeft, t, a, x, y
  <2>17. z \in Int /\ z' \in Int /\ z' <= z /\ (x' < x \/ y' < y => z' < z)
    BY <2>5, <2>15, PairFalls
  <2>18. t' <= t /\ (t' < t \/ z' < z)
    BY <2>15, <2>17, Zenon
  <2> HIDE DEF z, Falls
  <2>19. t' + z' < t + z
    BY <2>4, <2>17, <2>18, PairFalls
  <2>20. QED
    BY <2>16, <2>19, Zenon
<1>2. IInv /\ [Next]_vars => [StepsLeft' < StepsLeft]_vars
  BY <1>1
<1>3. QED
  BY <1>2, StepsLeftIsNat, Invariance, PTL DEF Spec, Progress
=============================================================================
