------------------------- MODULE PsqlRestoreProofs -------------------------
(***************************************************************************)
(* PsqlRestore for any length of the dump and any capacity of the pipe:    *)
(* Restore keeps the promise RestoreRun is built on.  Of the liveness      *)
(* property the two halves that need no fairness are proved: a call has    *)
(* only so many steps (Progress), and after a signal one of its own        *)
(* goroutines can always take one (NeverStuck).                            *)
(***************************************************************************)
EXTENDS PsqlRestore, TLAPS

\* What holds of caller, feeder and process together.
ControlInv ==
    /\ caller = "open" => psql = "unborn" /\ feeder = "none" /\ tx = "none"
    /\ caller = "wait" => psql \in {"running", "ok", "failed"} /\ feeder # "none"
    /\ caller = "join" => psql = "reaped" /\ feeder # "none"
    /\ psql = "running" => caller = "wait"
    /\ feeder = "copying" => caller # "open"
    /\ signaled => psql \in {"ok", "failed", "reaped"}
    /\ caller = "returned" => feeder # "copying" /\ psql \in {"unborn", "reaped"}

\* A commit under way has everything that was fed, and unless reading failed that is
\* the whole dump; a process that ended well and was not killed has committed.
CommitInv ==
    /\ tx \in {"committing", "committed"} => feeder = "done" /\ applied = fed
    /\ /\ feeder = "done" /\ ~feedErr
       /\ psql = "running" \/ tx \in {"committing", "committed"}
       => fed = Statements
    /\ psql = "ok" => tx = "committed"
    /\ psql = "reaped" /\ ~waitErr => tx = "committed"
    /\ caller = "returned" /\ ~failed => tx = "committed" /\ applied = Statements

IInv == TypeOK /\ ControlInv /\ CommitInv

-----------------------------------------------------------------------------

LEMMA InitIInv == Init => IInv
<1> SUFFICES ASSUME Init PROVE IInv
  OBVIOUS
<1>1. 0 \in 0..Statements /\ 0 \in 0..0 /\ 0 - 0 <= PipeCapacity
  BY RestoreSizes DEF RestoreSizes
<1>2. TypeOK
  BY <1>1 DEF Init, TypeOK
<1>3. ControlInv
  BY DEF Init, ControlInv
<1>4. CommitInv
  BY DEF Init, CommitInv
<1>5. QED
  BY <1>2, <1>3, <1>4 DEF IInv

LEMMA CallerStep == ASSUME IInv, Caller PROVE IInv'
<1> USE DEF IInv
<1>1. CASE OpenFails
  BY <1>1 DEF OpenFails, TypeOK, ControlInv, CommitInv
<1>2. CASE Start
  BY <1>2 DEF Start, TypeOK, ControlInv, CommitInv
<1>3. CASE Reap
  <2>1. TypeOK'
    BY <1>3 DEF Reap, TypeOK
  <2>2. ControlInv'
    BY <1>3 DEF Reap, TypeOK, ControlInv
  <2>3. CommitInv'
    BY <1>3 DEF Reap, TypeOK, ControlInv, CommitInv
  <2>4. QED
    BY <2>1, <2>2, <2>3
<1>4. CASE Join
  <2>1. TypeOK'
    BY <1>4 DEF Join, TypeOK
  <2>2. ControlInv'
    BY <1>4 DEF Join, TypeOK, ControlInv
  <2>3. ~failed' => /\ ~waitErr /\ ~feedErr
    BY <1>4 DEF Join
  <2>4. psql = "reaped" /\ feeder = "done"
    BY <1>4 DEF Join, ControlInv
  <2>5. ~failed' => tx = "committed" /\ applied = Statements
    BY <2>3, <2>4 DEF CommitInv
  <2>6. CommitInv'
    BY <1>4, <2>5 DEF Join, CommitInv
  <2>7. QED
    BY <2>1, <2>2, <2>6
<1>5. QED
  BY <1>1, <1>2, <1>3, <1>4 DEF Caller

LEMMA FeederStep == ASSUME IInv, Feeder \/ FeedFails PROVE IInv'
<1> USE DEF IInv
<1>1. CASE FeedStatement
  <2>1. /\ feeder = "copying" /\ fed < Statements /\ fed - applied < PipeCapacity
        /\ fed' = fed + 1
        /\ UNCHANGED <<caller, feeder, feedErr, psql, tx, applied, waitErr, failed,
                       canceled, signaled>>
    BY <1>1 DEF FeedStatement
  <2>2. fed \in Nat /\ applied \in Nat /\ applied <= fed
    <3>1. fed \in 0..Statements /\ applied \in 0..fed
      BY DEF TypeOK
    <3>2. QED
      BY <3>1, RestoreSizes DEF RestoreSizes
  <2>3. fed' \in 0..Statements /\ applied' \in 0..fed' /\ fed' - applied' <= PipeCapacity
    <3>1. fed' = fed + 1 /\ applied' = applied /\ fed < Statements
          /\ fed - applied < PipeCapacity
      BY <2>1
    <3>2. QED
      BY ONLY <2>2, <3>1, RestoreSizes DEF RestoreSizes
  <2>4. TypeOK'
    <3>1. /\ caller' = caller /\ feeder' = feeder /\ psql' = psql /\ tx' = tx
          /\ caller \in {"open", "wait", "join", "returned"}
          /\ feeder \in {"none", "copying", "done"}
          /\ psql \in {"unborn", "running", "ok", "failed", "reaped"}
          /\ tx \in {"none", "open", "committing", "committed", "rolled back"}
      BY <2>1, Zenon DEF TypeOK
    <3>2. /\ feedErr' \in BOOLEAN /\ waitErr' \in BOOLEAN /\ failed' \in BOOLEAN
          /\ canceled' \in BOOLEAN /\ signaled' \in BOOLEAN
      BY <2>1, Zenon DEF TypeOK
    <3>3. QED
      BY ONLY <2>3, <3>1, <3>2, Zenon DEF TypeOK
  <2>5. ControlInv'
    BY <2>1 DEF ControlInv
  <2>6. CommitInv'
    BY <2>1 DEF CommitInv, ControlInv
  <2>7. QED
    BY <2>4, <2>5, <2>6
<1>2. CASE FeedEnds
  BY <1>2 DEF FeedEnds, TypeOK, ControlInv, CommitInv
<1>3. CASE FeedFails
  BY <1>3 DEF FeedFails, TypeOK, ControlInv, CommitInv
<1>4. QED
  BY <1>1, <1>2, <1>3 DEF Feeder

LEMMA OthersStep ==
    ASSUME IInv,
           Begin \/ Apply \/ SendCommit \/ ServerDecides \/ PsqlSucceeds \/ PsqlFails
             \/ ContextKill \/ Cancel
    PROVE  IInv'
<1> USE DEF IInv
<1>1. CASE Begin
  BY <1>1 DEF Begin, TypeOK, ControlInv, CommitInv
<1>2. CASE Apply
  BY <1>2, RestoreSizes DEF RestoreSizes, Apply, TypeOK, ControlInv, CommitInv
<1>3. CASE SendCommit
  BY <1>3 DEF SendCommit, TypeOK, ControlInv, CommitInv
<1>4. CASE ServerDecides
  BY <1>4 DEF ServerDecides, TypeOK, ControlInv, CommitInv
<1>5. CASE PsqlSucceeds
  <2>1. TypeOK'
    BY <1>5 DEF PsqlSucceeds, TypeOK
  <2>2. ControlInv'
    BY <1>5 DEF PsqlSucceeds, ControlInv
  <2>3. CommitInv'
    BY <1>5 DEF PsqlSucceeds, ControlInv, CommitInv
  <2>4. QED
    BY <2>1, <2>2, <2>3
<1>6. CASE PsqlFails
  <2>1. TypeOK'
    BY <1>6 DEF PsqlFails, Disconnected, TypeOK
  <2>2. ControlInv'
    BY <1>6 DEF PsqlFails, Disconnected, ControlInv
  <2>3. CommitInv'
    BY <1>6 DEF PsqlFails, Disconnected, ControlInv, CommitInv
  <2>4. QED
    BY <2>1, <2>2, <2>3
<1>7. CASE ContextKill
  <2>1. TypeOK'
    BY <1>7 DEF ContextKill, Disconnected, TypeOK
  <2>2. ControlInv'
    BY <1>7 DEF ContextKill, Disconnected, ControlInv
  <2>3. CommitInv'
    BY <1>7 DEF ContextKill, Disconnected, ControlInv, CommitInv
  <2>4. QED
    BY <2>1, <2>2, <2>3
<1>8. CASE Cancel
  <2>1. TypeOK'
    <3>1. TypeOK /\ fed' = fed /\ applied' = applied
      BY <1>8, Zenon DEF Cancel
    <3>2. /\ fed' \in 0..Statements /\ applied' \in 0..fed'
          /\ fed' - applied' <= PipeCapacity
      BY ONLY <3>1 DEF TypeOK
    <3>3. /\ caller' = caller /\ feeder' = feeder /\ psql' = psql /\ tx' = tx
          /\ feedErr' = feedErr /\ waitErr' = waitErr /\ failed' = failed
          /\ canceled' = TRUE /\ signaled' = signaled
      BY <1>8, Zenon DEF Cancel
    <3>4. /\ caller' \in {"open", "wait", "join", "returned"}
          /\ feeder' \in {"none", "copying", "done"}
          /\ psql' \in {"unborn", "running", "ok", "failed", "reaped"}
          /\ tx' \in {"none", "open", "committing", "committed", "rolled back"}
      BY ONLY <3>1, <3>3 DEF TypeOK
    <3>5. /\ feedErr' \in BOOLEAN /\ waitErr' \in BOOLEAN /\ failed' \in BOOLEAN
          /\ canceled' \in BOOLEAN /\ signaled' \in BOOLEAN
      BY ONLY <3>1, <3>3, Zenon DEF TypeOK
    <3>6. QED
      BY ONLY <3>2, <3>4, <3>5, Zenon DEF TypeOK
  <2>2. ControlInv'
    BY <1>8 DEF Cancel, ControlInv
  <2>3. CommitInv'
    BY <1>8 DEF Cancel, ControlInv, CommitInv
  <2>4. QED
    BY <2>1, <2>2, <2>3
<1> HIDE DEF IInv
<1>9. QED
  BY <1>1, <1>2, <1>3, <1>4, <1>5, <1>6, <1>7, <1>8

LEMMA Invariance == Spec => []IInv
<1>1. IInv /\ [Next]_vars => IInv'
  <2> SUFFICES ASSUME IInv, [Next]_vars PROVE IInv'
    OBVIOUS
  <2>1. CASE Next
    BY <2>1, CallerStep, FeederStep, OthersStep, Zenon DEF Next
  <2>2. CASE UNCHANGED vars
    <3>0. /\ caller' = caller /\ feeder' = feeder /\ fed' = fed /\ feedErr' = feedErr
          /\ psql' = psql /\ tx' = tx /\ applied' = applied /\ waitErr' = waitErr
          /\ failed' = failed /\ canceled' = canceled /\ signaled' = signaled
      BY <2>2 DEF vars
    <3>1. TypeOK'
      <4>1. TypeOK
        BY DEF IInv
      <4>2. /\ fed' \in 0..Statements /\ applied' \in 0..fed' /\ fed' - applied' <= PipeCapacity
        BY <3>0, <4>1 DEF TypeOK
      <4>3. /\ caller' \in {"open", "wait", "join", "returned"}
            /\ feeder' \in {"none", "copying", "done"}
            /\ psql' \in {"unborn", "running", "ok", "failed", "reaped"}
            /\ tx' \in {"none", "open", "committing", "committed", "rolled back"}
        BY <3>0, <4>1 DEF TypeOK
      <4>4. /\ feedErr' \in BOOLEAN /\ waitErr' \in BOOLEAN /\ failed' \in BOOLEAN
            /\ canceled' \in BOOLEAN /\ signaled' \in BOOLEAN
        BY <3>0, <4>1 DEF TypeOK
      <4>5. QED
        BY <4>2, <4>3, <4>4 DEF TypeOK
    <3>2. ControlInv' /\ CommitInv'
      BY <2>2, Zenon DEF vars, IInv, ControlInv, CommitInv
    <3>3. QED
      BY <3>1, <3>2 DEF IInv
  <2>3. QED
    BY <2>1, <2>2
<1>2. QED
  BY <1>1, InitIInv, PTL DEF Spec

\* psql reads what was written, the feeder writes what the file holds (Restore).
THEOREM TypeCorrect == Spec => []TypeOK
<1>1. IInv => TypeOK
  BY DEF IInv
<1>2. QED
  BY <1>1, Invariance, PTL

\* nil comes with the whole dump committed, although psql takes a failed read for the
\* end of its input (psqlRun, Wait returning the copy's error).
THEOREM ReturnsRestoreOutcomeHolds == Spec => []ReturnsRestoreOutcome
<1>1. IInv => ReturnsRestoreOutcome
  <2> SUFFICES ASSUME IInv, caller = "returned"
               PROVE  [database |-> Database, failed |-> failed] \in RestoreOutcomes
    BY DEF ReturnsRestoreOutcome
  <2>1. Database \in {"empty", "dirty", "restored"} /\ failed \in BOOLEAN
    BY DEF IInv, TypeOK, Database
  <2>2. ~failed => Database = "restored"
    BY RestoreSizes DEF RestoreSizes, IInv, CommitInv, Database
  <2>3. QED
    BY <2>1, <2>2 DEF RestoreOutcomes
<1>2. QED
  BY <1>1, Invariance, PTL

-----------------------------------------------------------------------------
(* A call comes to its end.                                                *)

\* The guards of Caller, Feeder and ContextKill.
CallerReady ==
    \/ caller = "open"
    \/ caller = "wait" /\ psql \in {"ok", "failed"}
    \/ caller = "join" /\ feeder = "done"

FeederReady ==
    /\ feeder = "copying"
    /\ psql = "running" /\ fed < Statements => fed - applied < PipeCapacity

KillReady == canceled /\ ~signaled /\ psql \in {"running", "ok", "failed"}

\* After a signal the caller, the feeder or the goroutine that kills can go on,
\* although psql hangs and the feeder stands before a full pipe: none of them waits
\* for another that waits for it.
NeverStuck ==
    canceled /\ caller # "returned" => CallerReady \/ FeederReady \/ KillReady

\* How far each of them, psql and the transaction have to go.
Ahead(place) ==
    IF place = "open" THEN 3 ELSE IF place = "wait" THEN 2 ELSE IF place = "join" THEN 1 ELSE 0

Feeding(place) == IF place = "done" THEN 0 ELSE 1

Alive(process) == IF process \in {"unborn", "running"} THEN 1 ELSE 0

Undecided(state) ==
    IF state = "none" THEN 3 ELSE IF state = "open" THEN 2
    ELSE IF state = "committing" THEN 1 ELSE 0

\* A bound on the steps that a call still has, its own and those of the others.
StepsLeft ==
    ((Ahead(caller) + Feeding(feeder)) + (Alive(psql) + Undecided(tx)))
      + (((Statements - fed) + (Statements - applied))
          + ((IF canceled THEN 0 ELSE 1) + (IF signaled THEN 0 ELSE 1)))

\* No step goes back: file, transaction, process and signal each have an end.
Progress == [][StepsLeft' < StepsLeft]_vars

LEMMA PairFalls ==
  ASSUME NEW a \in Int, NEW b \in Int, NEW a2 \in Int, NEW b2 \in Int, a2 <= a, b2 <= b
  PROVE  /\ a + b \in Int /\ a2 + b2 \in Int /\ a2 + b2 <= a + b
         /\ a2 < a \/ b2 < b => a2 + b2 < a + b
  OBVIOUS

LEMMA StepsLeftIsNat == IInv => StepsLeft \in Nat
<1> SUFFICES ASSUME IInv PROVE StepsLeft \in Nat
  OBVIOUS
<1>1. Statements - fed \in Nat /\ Statements - applied \in Nat
  <2>1. fed \in 0..Statements /\ applied \in 0..fed
    BY DEF IInv, TypeOK
  <2>2. QED
    BY <2>1, RestoreSizes DEF RestoreSizes
<1>2. /\ Ahead(caller) \in 0..3 /\ Feeding(feeder) \in 0..1
      /\ Alive(psql) \in 0..1 /\ Undecided(tx) \in 0..3
  BY DEF Ahead, Feeding, Alive, Undecided
<1> DEFINE a == Ahead(caller) + Feeding(feeder)
           p == Alive(psql) + Undecided(tx)
           d == (Statements - fed) + (Statements - applied)
           x == (IF canceled THEN 0 ELSE 1) + (IF signaled THEN 0 ELSE 1)
<1>3. a \in Nat /\ p \in Nat /\ d \in Nat /\ x \in Nat
  BY <1>1, <1>2
<1>4. StepsLeft = (a + p) + (d + x)
  BY DEF StepsLeft
<1> HIDE DEF a, p, d, x
<1>5. QED
  BY <1>3, <1>4

\* After a signal no call hangs (CommandContext; a write without a reader fails).
THEOREM NeverStuckHolds == Spec => []NeverStuck
<1>1. IInv => NeverStuck
  <2> SUFFICES ASSUME IInv, canceled, caller # "returned", ~CallerReady, ~KillReady
               PROVE  FeederReady
    BY DEF NeverStuck
  <2>1. caller \in {"wait", "join"}
    BY DEF CallerReady, IInv, TypeOK
  <2>2. CASE caller = "wait"
    <3>1. psql = "running"
      BY <2>2 DEF CallerReady, IInv, ControlInv
    <3>2. ~signaled
      BY <3>1 DEF IInv, ControlInv
    <3>3. QED
      BY <3>1, <3>2 DEF KillReady
  <2>3. CASE caller = "join"
    BY <2>3 DEF CallerReady, FeederReady, IInv, TypeOK, ControlInv
  <2>4. QED
    BY <2>1, <2>2, <2>3
<1>2. QED
  BY <1>1, Invariance, PTL

LEMMA DisconnectedIs ==
  Disconnected = tx \/ (tx = "open" /\ Disconnected = "rolled back")
<1>1. CASE tx = "open"
  BY <1>1 DEF Disconnected
<1>2. CASE tx # "open"
  BY <1>2 DEF Disconnected
<1>3. QED
  BY <1>1, <1>2

\* Each step of the call, of psql, of the server and of the signal counts.
THEOREM ProgressHolds == Spec => [](StepsLeft \in Nat) /\ Progress
<1>1. ASSUME IInv, Next PROVE StepsLeft' < StepsLeft
  <2> DEFINE w == Ahead(caller)
             f == Feeding(feeder)
             c == Alive(psql)
             u == Undecided(tx)
             p == Statements - fed
             q == Statements - applied
             x == IF canceled THEN 0 ELSE 1
             y == IF signaled THEN 0 ELSE 1
             Falls ==
               /\ w' <= w /\ f' <= f /\ c' <= c /\ u' <= u
               /\ p' <= p /\ q' <= q /\ x' <= x /\ y' <= y
               /\ \/ w' < w \/ f' < f \/ c' < c \/ u' < u
                  \/ p' < p \/ q' < q \/ x' < x \/ y' < y
  <2>1. /\ fed \in Int /\ applied \in Int /\ Statements \in Int
        /\ fed' \in Int /\ applied' \in Int
    <3>1. IInv'
      BY <1>1, CallerStep, FeederStep, OthersStep, Zenon DEF Next
    <3>2. /\ fed \in 0..Statements /\ applied \in 0..fed
          /\ fed' \in 0..Statements /\ applied' \in 0..fed'
      BY <1>1, <3>1 DEF IInv, TypeOK
    <3>3. QED
      BY <3>2, RestoreSizes DEF RestoreSizes
  <2>2. /\ w \in Int /\ f \in Int /\ c \in Int /\ u \in Int
        /\ w' \in Int /\ f' \in Int /\ c' \in Int /\ u' \in Int
    BY DEF Ahead, Feeding, Alive, Undecided
  <2>3. /\ p \in Int /\ q \in Int /\ p' \in Int /\ q' \in Int
        /\ x \in Int /\ y \in Int /\ x' \in Int /\ y' \in Int
    BY <2>1
  \* What leaves a part as it is.
  <2>4. /\ caller' = caller => w' = w
        /\ feeder' = feeder => f' = f
        /\ psql' = psql => c' = c
        /\ tx' = tx => u' = u
        /\ fed' = fed => p' = p
        /\ applied' = applied => q' = q
        /\ canceled' = canceled => x' = x
        /\ signaled' = signaled => y' = y
    <3>1. (caller' = caller => w' = w) /\ (feeder' = feeder => f' = f)
      BY DEF Ahead, Feeding
    <3>2. psql' = psql => c' = c
      BY DEF Alive
    <3>3. tx' = tx => u' = u
      BY DEF Undecided
    <3>4. (fed' = fed => p' = p) /\ (applied' = applied => q' = q)
      OBVIOUS
    <3>5. (canceled' = canceled => x' = x) /\ (signaled' = signaled => y' = y)
      OBVIOUS
    <3>6. QED
      BY <3>1, <3>2, <3>3, <3>4, <3>5
  \* What makes a part fall.
  <2>5. feeder # "done" /\ feeder' = "done" => f' < f
    BY DEF Feeding
  <2>6. psql = "running" /\ psql' \in {"ok", "failed"} => c' < c
    <3>1. psql = "running" => c = 1
      BY DEF Alive
    <3>2. psql' \in {"ok", "failed"} => c' = 0
      BY DEF Alive
    <3>3. QED
      BY <3>1, <3>2
  <2>7. tx \in {"open", "committing"} /\ tx' \in {"committed", "rolled back"} => u' < u
    <3>1. (tx = "open" => u = 2) /\ (tx = "committing" => u = 1)
      BY DEF Undecided
    <3>2. ASSUME tx' \in {"committed", "rolled back"} PROVE u' = 0
      BY <3>2 DEF Undecided
    <3> HIDE DEF u
    <3>3. u' = 0 /\ (u = 2 \/ u = 1) => u' < u
      OBVIOUS
    <3>4. QED
      BY <3>1, <3>2, <3>3, Zenon
  <2> HIDE DEF w, f, c, u, p, q, x, y
  <2>8. ASSUME OpenFails PROVE Falls
    <3>1. caller = "open" /\ caller' = "returned"
      BY <2>8, Zenon DEF OpenFails
    <3>2. UNCHANGED <<feeder, psql, tx, fed, applied, canceled, signaled>>
      BY <2>8, Zenon DEF OpenFails
    <3>3. w' < w
      BY <3>1 DEF Ahead, w
    <3>4. QED
      BY <2>2, <2>3, <2>4, <3>2, <3>3
  <2>9. ASSUME Join PROVE Falls
    <3>1. caller = "join" /\ caller' = "returned"
      BY <2>9, Zenon DEF Join
    <3>2. UNCHANGED <<feeder, psql, tx, fed, applied, canceled, signaled>>
      BY <2>9, Zenon DEF Join
    <3>3. w' < w
      BY <3>1 DEF Ahead, w
    <3>4. QED
      BY <2>2, <2>3, <2>4, <3>2, <3>3
  <2>10. ASSUME FeedStatement PROVE Falls
    <3>1. fed' = fed + 1
      BY <2>10, Zenon DEF FeedStatement
    <3>2. UNCHANGED <<caller, feeder, psql, tx, applied, canceled, signaled>>
      BY <2>10, Zenon DEF FeedStatement
    <3>3. p' < p
      BY <2>1, <3>1 DEF p
    <3>4. QED
      BY <2>2, <2>3, <2>4, <3>2, <3>3
  <2>11. ASSUME Begin PROVE Falls
    <3>1. tx = "none" /\ tx' = "open"
      BY <2>11, Zenon DEF Begin
    <3>2. UNCHANGED <<caller, feeder, psql, fed, applied, canceled, signaled>>
      BY <2>11, Zenon DEF Begin
    <3>3. u' < u
      BY <3>1 DEF Undecided, u
    <3>4. QED
      BY <2>2, <2>3, <2>4, <3>2, <3>3
  <2>12. ASSUME Apply PROVE Falls
    <3>1. applied' = applied + 1
      BY <2>12, Zenon DEF Apply
    <3>2. UNCHANGED <<caller, feeder, psql, tx, fed, canceled, signaled>>
      BY <2>12, Zenon DEF Apply
    <3>3. q' < q
      BY <2>1, <3>1 DEF q
    <3>4. QED
      BY <2>2, <2>3, <2>4, <3>2, <3>3
  <2>13. ASSUME SendCommit PROVE Falls
    <3>1. tx = "open" /\ tx' = "committing"
      BY <2>13, Zenon DEF SendCommit
    <3>2. UNCHANGED <<caller, feeder, psql, fed, applied, canceled, signaled>>
      BY <2>13, Zenon DEF SendCommit
    <3>3. u' < u
      BY <3>1 DEF Undecided, u
    <3>4. QED
      BY <2>2, <2>3, <2>4, <3>2, <3>3
  <2>14. ASSUME Start PROVE Falls
    <3>1. /\ caller = "open" /\ caller' = "wait" /\ feeder' = "copying" /\ psql' = "running"
          /\ feeder = "none" /\ psql = "unborn"
      BY <1>1, <2>14 DEF Start, IInv, ControlInv
    <3>2. UNCHANGED <<fed, tx, applied, canceled, signaled>>
      BY <2>14, Zenon DEF Start
    <3>3. w' < w /\ f' = f
      BY <3>1 DEF Ahead, Feeding, w, f
    <3>4. c' = c
      BY <3>1 DEF Alive, c
    <3>5. QED
      BY <2>2, <2>3, <2>4, <3>2, <3>3, <3>4
  <2>15. ASSUME Reap PROVE Falls
    <3>1. caller = "wait" /\ caller' = "join" /\ psql' = "reaped"
      BY <2>15, Zenon DEF Reap
    <3>2. UNCHANGED <<feeder, fed, tx, applied, canceled, signaled>>
      BY <2>15, Zenon DEF Reap
    <3>3. w' < w
      BY <3>1 DEF Ahead, w
    <3>4. c' = 0 /\ c \in 0..1
      BY <3>1 DEF Alive, c
    <3>5. QED
      BY <2>2, <2>3, <2>4, <3>2, <3>3, <3>4
  <2>16. ASSUME FeedFails \/ FeedEnds PROVE Falls
    <3>1. feeder = "copying" /\ feeder' = "done"
      BY <2>16, Zenon DEF FeedFails, FeedEnds
    <3>2. UNCHANGED <<caller, fed, psql, tx, applied, canceled, signaled>>
      BY <2>16, Zenon DEF FeedFails, FeedEnds
    <3>3. f' < f
      BY <2>5, <3>1
    <3>4. QED
      BY <2>2, <2>3, <2>4, <3>2, <3>3
  <2>17. ASSUME ServerDecides PROVE Falls
    <3>1. tx = "committing" /\ tx' \in {"committed", "rolled back"}
      BY <2>17, Zenon DEF ServerDecides
    <3>2. UNCHANGED <<caller, feeder, fed, psql, applied, canceled, signaled>>
      BY <2>17, Zenon DEF ServerDecides
    <3>3. u' < u
      BY <2>7, <3>1
    <3>4. QED
      BY <2>2, <2>3, <2>4, <3>2, <3>3
  <2>18. ASSUME PsqlSucceeds PROVE Falls
    <3>1. psql = "running" /\ psql' = "ok"
      BY <2>18, Zenon DEF PsqlSucceeds
    <3>2. UNCHANGED <<caller, feeder, fed, tx, applied, canceled, signaled>>
      BY <2>18, Zenon DEF PsqlSucceeds
    <3>3. c' < c
      BY <2>6, <3>1
    <3>4. QED
      BY <2>2, <2>3, <2>4, <3>2, <3>3
  <2>19. ASSUME PsqlFails PROVE Falls
    <3>1. psql = "running" /\ psql' = "failed" /\ (tx' = tx \/ (tx = "open" /\ tx' = "rolled back"))
      <4>1. psql = "running" /\ psql' = "failed" /\ tx' = Disconnected
        BY <2>19, Zenon DEF PsqlFails
      <4>2. QED
        BY <4>1, DisconnectedIs
    <3>2. UNCHANGED <<caller, feeder, fed, applied, canceled, signaled>>
      BY <2>19, Zenon DEF PsqlFails
    <3>3. c' < c
      BY <2>6, <3>1
    <3>4. u' = u \/ u' < u
      BY <2>4, <2>7, <3>1
    <3>5. QED
      BY <2>2, <2>3, <2>4, <3>2, <3>3, <3>4
  <2>20. ASSUME ContextKill PROVE Falls
    <3>1. \/ psql' = psql /\ tx' = tx
          \/ psql = "running" /\ psql' = "failed" /\ (tx' = tx \/ (tx = "open" /\ tx' = "rolled back"))
      <4>1. \/ psql' = psql /\ tx' = tx
            \/ psql = "running" /\ psql' = "failed" /\ tx' = Disconnected
        BY <2>20, Zenon DEF ContextKill
      <4>2. QED
        BY <4>1, DisconnectedIs
    <3>2. UNCHANGED <<caller, feeder, fed, applied, canceled>>
      BY <2>20, Zenon DEF ContextKill
    <3>3. c' = c \/ c' < c
      BY <2>4, <2>6, <3>1
    <3>4. u' = u \/ u' < u
      BY <2>4, <2>7, <3>1
    <3>5. y = 1 /\ y' = 0
      BY <2>20, Zenon DEF ContextKill, y
    <3>6. QED
      BY <2>2, <2>3, <2>4, <3>2, <3>3, <3>4, <3>5
  <2>21. ASSUME Cancel PROVE Falls
    <3>1. UNCHANGED <<caller, feeder, fed, psql, tx, applied, signaled>>
      BY <2>21, Zenon DEF Cancel
    <3>2. x = 1 /\ x' = 0
      BY <2>21, Zenon DEF Cancel, x
    <3>3. QED
      BY <2>2, <2>3, <2>4, <3>1, <3>2
  <2>22. Falls
    BY <1>1, <2>8, <2>9, <2>10, <2>11, <2>12, <2>13, <2>14, <2>15, <2>16, <2>17, <2>18, <2>19, <2>20, <2>21, Zenon
       DEF Next, Caller, Feeder
  <2> DEFINE a == w + f
             b == c + u
             d == p + q
             e == x + y
             g == a + b
             h == d + e
  <2>23. StepsLeft = g + h /\ StepsLeft' = g' + h'
    BY DEF StepsLeft, w, f, c, u, p, q, x, y
  <2>24. /\ a \in Int /\ a' \in Int /\ a' <= a /\ (w' < w \/ f' < f => a' < a)
         /\ b \in Int /\ b' \in Int /\ b' <= b /\ (c' < c \/ u' < u => b' < b)
    BY <2>2, <2>22, PairFalls
  <2>25. /\ d \in Int /\ d' \in Int /\ d' <= d /\ (p' < p \/ q' < q => d' < d)
         /\ e \in Int /\ e' \in Int /\ e' <= e /\ (x' < x \/ y' < y => e' < e)
    BY <2>3, <2>22, PairFalls
  <2>26. a' < a \/ b' < b \/ d' < d \/ e' < e
    BY <2>22, <2>24, <2>25, Zenon
  <2> HIDE DEF a, b, d, e, Falls
  <2>27. /\ g \in Int /\ g' \in Int /\ g' <= g /\ (a' < a \/ b' < b => g' < g)
         /\ h \in Int /\ h' \in Int /\ h' <= h /\ (d' < d \/ e' < e => h' < h)
    BY <2>24, <2>25, PairFalls
  <2>28. g' < g \/ h' < h
    BY <2>26, <2>27, Zenon
  <2> HIDE DEF g, h
  <2>29. g' + h' < g + h
    BY <2>27, <2>28, PairFalls
  <2>30. QED
    BY <2>23, <2>29, Zenon
<1>2. IInv /\ [Next]_vars => [StepsLeft' < StepsLeft]_vars
  BY <1>1
<1>3. QED
  BY <1>2, StepsLeftIsNat, Invariance, PTL DEF Spec, Progress
=============================================================================
