--------------------------- MODULE DumpPipeProofs ---------------------------
(***************************************************************************)
(* DumpPipe for every length of the SQL and every capacity of the pipe:    *)
(* what dump() returns is among DumpOutcomes, which is what BackupRun      *)
(* assumes, and no process is left behind.  Of the liveness property the   *)
(* two halves that need no fairness are proved: a call has only so many    *)
(* steps (Progress), and after a failed write or a signal one of its own   *)
(* goroutines can always take one (NeverStuck).                            *)
(***************************************************************************)
EXTENDS DumpPipe, TLAPS

Zombie == {"zombie ok", "zombie failed"}

\* The process that goes with each point of dump().
ProcessInv ==
    /\ worker = "start" => child = "unborn"
    /\ worker \in {"copy", "kill"} => child \in Zombie \cup {"running"}
    /\ worker = "wait" => child \in Zombie
    /\ worker = "close" => child = "reaped"
    /\ worker = "returned" => child \in {"unborn", "reaped"}
    /\ signaled => child \in Zombie \cup {"reaped"}

\* No block gets lost between pg_dump and the gzip writer; a copy that ended well
\* has drained the pipe, and a process that ended well has written everything.
FlowInv ==
    /\ produced = pipe + written
    /\ worker \in {"start", "copy"} => ~copyErr
    /\ worker = "kill" => copyErr
    /\ worker \in {"wait", "close"} /\ ~copyErr => pipe = 0
    /\ child = "zombie ok" => produced = Blocks
    /\ worker = "close" /\ ~waitErr => produced = Blocks
    /\ worker = "returned" /\ ~failed => file = "complete"

IInv == TypeOK /\ ProcessInv /\ FlowInv

LEMMA InitIInv == Init => IInv
<1> SUFFICES ASSUME Init PROVE IInv
  OBVIOUS
<1>1. TypeOK
  <2>1. 0 \in 0..Blocks /\ 0 \in 0..PipeCapacity
    BY SizesAssumption DEF SizesAssumption
  <2>2. QED
    BY <2>1 DEF Init, TypeOK, Workers, Children, Dumps
<1>2. ProcessInv
  BY DEF Init, ProcessInv
<1>3. FlowInv
  BY DEF Init, FlowInv
<1>4. QED
  BY <1>1, <1>2, <1>3 DEF IInv

\* A block moved from the pipe to the writer stays within both bounds.
LEMMA CopyCounts ==
    pipe \in 0..PipeCapacity /\ pipe > 0
    /\ written \in 0..Blocks /\ produced \in 0..Blocks /\ produced = pipe + written
    => /\ pipe - 1 \in 0..PipeCapacity /\ written + 1 \in 0..Blocks
       /\ produced = (pipe - 1) + (written + 1)
  BY SizesAssumption DEF SizesAssumption

LEMMA NextIInv == IInv /\ [Next]_vars => IInv'
<1> SUFFICES ASSUME IInv, [Next]_vars PROVE IInv'
  OBVIOUS
<1> USE SizesAssumption
    DEF IInv, TypeOK, ProcessInv, FlowInv, Workers, Children, Dumps, Zombie,
        SizesAssumption
<1>1. CASE StartFails
  BY <1>1 DEF StartFails
<1>2. CASE Start
  BY <1>2 DEF Start
<1>3. CASE CopyBlock
  <2>1. /\ pipe \in 0..PipeCapacity /\ pipe > 0
        /\ written \in 0..Blocks /\ produced \in 0..Blocks
        /\ produced = pipe + written
    BY <1>3, Zenon DEF CopyBlock
  <2>2. /\ pipe - 1 \in 0..PipeCapacity /\ written + 1 \in 0..Blocks
        /\ produced = (pipe - 1) + (written + 1)
    BY ONLY <2>1, CopyCounts
  <2>3. QED
    BY <1>3, <2>2, Zenon DEF CopyBlock
<1>4. CASE CopyEnds
  BY <1>4 DEF CopyEnds
<1>5. CASE KillChild
  BY <1>5 DEF KillChild
<1>6. CASE Wait
  BY <1>6 DEF Wait
<1>7. CASE CloseAndReturn
  BY <1>7 DEF CloseAndReturn, Finished
<1>8. CASE CopyFails
  BY <1>8 DEF CopyFails
<1>9. CASE WriteBlock
  BY <1>9 DEF WriteBlock
<1>10. CASE ChildSucceeds
  BY <1>10 DEF ChildSucceeds
<1>11. CASE ChildFails
  BY <1>11 DEF ChildFails
<1>12. CASE Cancel
  BY <1>12 DEF Cancel
<1>13. CASE ContextKill
  BY <1>13 DEF ContextKill
<1>14. CASE UNCHANGED vars
  <2>1. /\ worker' = worker /\ child' = child /\ pipe' = pipe /\ written' = written
        /\ produced' = produced /\ copyErr' = copyErr /\ waitErr' = waitErr
        /\ file' = file /\ failed' = failed /\ canceled' = canceled /\ signaled' = signaled
    BY ONLY <1>14 DEF vars
  <2> HIDE DEF IInv, TypeOK, ProcessInv, FlowInv, Workers, Children, Dumps, Zombie,
               SizesAssumption
  <2>2. TypeOK /\ ProcessInv /\ FlowInv
    BY DEF IInv
  <2>3. TypeOK'
    <3>1. produced' \in 0..Blocks /\ pipe' \in 0..PipeCapacity /\ written' \in 0..Blocks
      BY ONLY <2>1, <2>2 DEF TypeOK
    <3>2. worker' \in Workers /\ child' \in Children /\ file' \in Dumps
      BY ONLY <2>1, <2>2 DEF TypeOK
    <3>3. /\ copyErr' \in BOOLEAN /\ waitErr' \in BOOLEAN
          /\ failed' \in BOOLEAN /\ canceled' \in BOOLEAN /\ signaled' \in BOOLEAN
      BY ONLY <2>1, <2>2, Zenon DEF TypeOK
    <3>4. QED
      BY ONLY <3>1, <3>2, <3>3, Zenon DEF TypeOK, Workers, Children, Dumps
  <2>4. ProcessInv' /\ FlowInv'
    BY ONLY <2>1, <2>2, Zenon DEF ProcessInv, FlowInv, Zombie
  <2>5. QED
    BY <2>3, <2>4 DEF IInv
<1> HIDE DEF IInv, TypeOK, ProcessInv, FlowInv, Workers, Children, Dumps, Zombie,
             SizesAssumption
<1>15. QED
  BY <1>1, <1>2, <1>3, <1>4, <1>5, <1>6, <1>7, <1>8, <1>9, <1>10, <1>11, <1>12, <1>13, <1>14, Zenon DEF Next, Worker

\* The inductive invariant of dump() (the whole control of dump.go, lines 60-81).
THEOREM Invariance == Spec => []IInv
<1>1. QED
  BY InitIInv, NextIInv, PTL DEF Spec

\* Whatever pg_dump, the disk and the signal do, dump() returns nil only with the
\* whole SQL in a finished gzip stream (the return after copy, Wait and Close).
THEOREM ReturnsDumpOutcomeHolds == Spec => []ReturnsDumpOutcome
<1>1. IInv => ReturnsDumpOutcome
  BY DEF IInv, TypeOK, FlowInv, ReturnsDumpOutcome, DumpOutcomes
<1>2. QED
  BY <1>1, Invariance, PTL

\* The return of dump() leaves no pg_dump behind (Kill and Wait before it).
THEOREM NoProcessLeftHolds == Spec => []NoProcessLeft
<1>1. IInv => NoProcessLeft
  BY DEF IInv, ProcessInv, NoProcessLeft
<1>2. QED
  BY <1>1, Invariance, PTL

-----------------------------------------------------------------------------
(* A call comes to its end.                                                *)

\* The guards of Worker and of ContextKill.
WorkerReady ==
    \/ worker \in {"start", "kill", "close"}
    \/ worker = "copy" /\ (pipe > 0 \/ child # "running")
    \/ worker = "wait" /\ child \in Zombie

KillReady == canceled /\ ~signaled /\ child \in Zombie \cup {"running"}

\* After a failed write or a signal, dump() or the goroutine that kills can go on,
\* whatever pg_dump does and however full the pipe is: none of the three waits for
\* another that waits for it.
NeverStuck == (copyErr \/ canceled) /\ worker # "returned" => WorkerReady \/ KillReady

\* How far dump() and pg_dump have to go.
Ahead(place) ==
    IF place = "start" THEN 5 ELSE IF place = "copy" THEN 4 ELSE IF place = "kill" THEN 3
    ELSE IF place = "wait" THEN 2 ELSE IF place = "close" THEN 1 ELSE 0

Alive(process) == IF process \in {"unborn", "running"} THEN 1 ELSE 0

\* A bound on the steps that a call still has, its own and those of the others.
StepsLeft ==
    (Ahead(worker) + Alive(child))
      + ((Blocks - produced) + (Blocks - written))
      + ((IF canceled THEN 0 ELSE 1) + (IF signaled THEN 0 ELSE 1))

\* No step goes back: of the copy, the process and the signal each has an end.
Progress == [][StepsLeft' < StepsLeft]_vars

LEMMA StepsLeftIsNat == IInv => StepsLeft \in Nat
<1> SUFFICES ASSUME IInv PROVE StepsLeft \in Nat
  OBVIOUS
<1>1. Blocks - produced \in Nat /\ Blocks - written \in Nat
  BY SizesAssumption DEF SizesAssumption, IInv, TypeOK
<1>2. Ahead(worker) \in 0..5 /\ Alive(child) \in 0..1
  BY DEF Ahead, Alive
<1>3. QED
  BY <1>1, <1>2 DEF StepsLeft

\* After its failed write or a signal no call hangs (Kill before Wait, CommandContext).
THEOREM NeverStuckHolds == Spec => []NeverStuck
<1>1. IInv => NeverStuck
  <2> SUFFICES ASSUME IInv, copyErr \/ canceled, worker # "returned", ~WorkerReady
               PROVE  KillReady
    BY DEF NeverStuck
  <2>1. worker \in {"copy", "wait"}
    BY DEF WorkerReady, IInv, TypeOK, Workers
  <2>2. CASE worker = "wait"
    BY <2>2 DEF WorkerReady, IInv, ProcessInv
  <2>3. CASE worker = "copy"
    <3>1. ~copyErr /\ child = "running" /\ pipe = 0
      <4>1. ~copyErr /\ ~(pipe > 0) /\ child = "running"
        BY <2>3 DEF WorkerReady, IInv, ProcessInv, FlowInv
      <4>2. pipe \in Nat
        BY SizesAssumption DEF SizesAssumption, IInv, TypeOK
      <4>3. QED
        BY <4>1, <4>2
    <3>2. ~signaled
      BY <3>1 DEF IInv, ProcessInv, Zombie
    <3>3. QED
      BY <3>1, <3>2 DEF KillReady
  <2>4. QED
    BY <2>1, <2>2, <2>3
<1>2. QED
  BY <1>1, Invariance, PTL

LEMMA PairFalls ==
  ASSUME NEW a \in Int, NEW b \in Int, NEW a2 \in Int, NEW b2 \in Int, a2 <= a, b2 <= b
  PROVE  /\ a + b \in Int /\ a2 + b2 \in Int /\ a2 + b2 <= a + b
         /\ a2 < a \/ b2 < b => a2 + b2 < a + b
  OBVIOUS

\* Each step of a call, of pg_dump and of the signal counts (io.Copy reads what was
\* written, a process exits once, the context is done once).
THEOREM ProgressHolds == Spec => [](StepsLeft \in Nat) /\ Progress
<1>1. ASSUME IInv, Next PROVE StepsLeft' < StepsLeft
  <2> DEFINE w == Ahead(worker)
             c == Alive(child)
             p == Blocks - produced
             q == Blocks - written
             x == IF canceled THEN 0 ELSE 1
             y == IF signaled THEN 0 ELSE 1
             Falls ==
               /\ w' <= w /\ c' <= c /\ p' <= p /\ q' <= q /\ x' <= x /\ y' <= y
               /\ w' < w \/ c' < c \/ p' < p \/ q' < q \/ x' < x \/ y' < y
  <2>1. /\ produced \in Int /\ written \in Int /\ Blocks \in Int
        /\ produced' \in Int /\ written' \in Int
    <3>1. IInv'
      BY <1>1, NextIInv
    <3>2. QED
      BY <1>1, <3>1, SizesAssumption DEF SizesAssumption, IInv, TypeOK
  <2>2. /\ w \in Int /\ c \in Int /\ p \in Int /\ q \in Int /\ x \in Int /\ y \in Int
        /\ w' \in Int /\ c' \in Int /\ p' \in Int /\ q' \in Int /\ x' \in Int /\ y' \in Int
    BY <2>1 DEF Ahead, Alive
  <2>3. /\ child' # "running" /\ child' # "unborn" =>
             c' <= c /\ (child = "running" => c' < c)
        /\ child' = child => c' <= c
    <3>1. ASSUME child' # "running", child' # "unborn" PROVE c' = 0
      BY <3>1 DEF Alive
    <3>2. c \in 0..1 /\ (child = "running" => c = 1)
      BY DEF Alive
    <3>3. child' = child => c' = c
      OBVIOUS
    <3>4. QED
      BY <3>1, <3>2, <3>3
  <2>4. ASSUME StartFails PROVE Falls
    BY <2>1, <2>2, <2>4 DEF StartFails, Ahead
  <2>5. ASSUME Start PROVE Falls
    <3>1. child = "unborn"
      BY <1>1, <2>5 DEF Start, IInv, ProcessInv
    <3>2. QED
      BY <2>1, <2>2, <2>5, <3>1 DEF Start, Ahead, Alive
  <2>6. ASSUME CopyBlock PROVE Falls
    BY <2>1, <2>2, <2>6 DEF CopyBlock
  <2>7. ASSUME CopyEnds PROVE Falls
    BY <2>1, <2>2, <2>7 DEF CopyEnds, Ahead
  <2>8. ASSUME KillChild PROVE Falls
    <3>1. child' = child \/ child' = "zombie failed"
      BY <2>8 DEF KillChild
    <3>2. c' <= c
      BY <2>3, <3>1
    <3>3. w' < w
      <4>1. worker = "kill" /\ worker' = "wait"
        BY <2>8 DEF KillChild
      <4>2. QED
        BY <4>1 DEF Ahead
    <3>4. p' = p /\ q' = q /\ x' = x /\ y' = y
      BY <2>8, Zenon DEF KillChild
    <3>5. QED
      BY <2>2, <3>2, <3>3, <3>4
  <2>9. ASSUME Wait PROVE Falls
    <3>1. child' = "reaped"
      BY <2>9 DEF Wait
    <3>2. c' <= c
      BY <2>3, <3>1
    <3>3. w' < w
      <4>1. worker = "wait" /\ worker' = "close"
        BY <2>9 DEF Wait
      <4>2. QED
        BY <4>1 DEF Ahead
    <3>4. p' = p /\ q' = q /\ x' = x /\ y' = y
      BY <2>9, Zenon DEF Wait
    <3>5. QED
      BY <2>2, <3>2, <3>3, <3>4
  <2>10. ASSUME CloseAndReturn PROVE Falls
    BY <2>1, <2>2, <2>10 DEF CloseAndReturn, Ahead
  <2>11. ASSUME CopyFails PROVE Falls
    BY <2>1, <2>2, <2>11 DEF CopyFails, Ahead
  <2>12. ASSUME WriteBlock PROVE Falls
    BY <2>1, <2>2, <2>12 DEF WriteBlock
  <2>13. ASSUME ChildSucceeds PROVE Falls
    <3>1. child = "running" /\ child' = "zombie ok"
      BY <2>13 DEF ChildSucceeds
    <3>2. c' < c
      BY <2>3, <3>1
    <3>3. w' = w /\ p' = p /\ q' = q /\ x' = x /\ y' = y
      BY <2>13 DEF ChildSucceeds
    <3>4. QED
      BY <2>2, <3>2, <3>3
  <2>14. ASSUME ChildFails PROVE Falls
    <3>1. child = "running" /\ child' = "zombie failed"
      BY <2>14 DEF ChildFails
    <3>2. c' < c
      BY <2>3, <3>1
    <3>3. w' = w /\ p' = p /\ q' = q /\ x' = x /\ y' = y
      BY <2>14 DEF ChildFails
    <3>4. QED
      BY <2>2, <3>2, <3>3
  <2>15. ASSUME Cancel PROVE Falls
    BY <2>1, <2>2, <2>15 DEF Cancel
  <2>16. ASSUME ContextKill PROVE Falls
    <3>1. child' = child \/ child' = "zombie failed"
      BY <2>16 DEF ContextKill
    <3>2. c' <= c
      BY <2>3, <3>1
    <3>3. w' = w /\ p' = p /\ q' = q /\ x' = x
      BY <2>16, Zenon DEF ContextKill
    <3>4. y = 1 /\ y' = 0
      BY <2>16, Zenon DEF ContextKill
    <3>5. QED
      BY <2>2, <3>2, <3>3, <3>4
  <2>17. Falls
    BY <1>1, <2>4, <2>5, <2>6, <2>7, <2>8, <2>9, <2>10, <2>11, <2>12, <2>13, <2>14, <2>15,
       <2>16 DEF Next, Worker
  <2> DEFINE s == w + c
             m == p + q
             z == x + y
  <2>18. StepsLeft = s + m + z /\ StepsLeft' = s' + m' + z'
    BY DEF StepsLeft
  <2> HIDE DEF w, c, p, q, x, y
  <2>19. /\ s \in Int /\ s' \in Int /\ s' <= s /\ (w' < w \/ c' < c => s' < s)
         /\ m \in Int /\ m' \in Int /\ m' <= m /\ (p' < p \/ q' < q => m' < m)
         /\ z \in Int /\ z' \in Int /\ z' <= z /\ (x' < x \/ y' < y => z' < z)
    BY <2>2, <2>17, PairFalls
  <2>20. s' < s \/ m' < m \/ z' < z
    BY <2>17, <2>19, Zenon
  <2> DEFINE k == s + m
  <2> HIDE DEF s, m, z, Falls
  <2>21. k \in Int /\ k' \in Int /\ k' <= k /\ (s' < s \/ m' < m => k' < k)
    BY <2>19, PairFalls
  <2>22. StepsLeft = k + z /\ StepsLeft' = k' + z' /\ (k' < k \/ z' < z)
    BY <2>18, <2>20, <2>21, Zenon
  <2> HIDE DEF k
  <2>23. k' + z' < k + z
    BY <2>19, <2>21, <2>22, PairFalls
  <2>24. QED
    BY <2>22, <2>23, Zenon
<1>2. IInv /\ [Next]_vars => [StepsLeft' < StepsLeft]_vars
  BY <1>1
<1>3. QED
  BY <1>2, StepsLeftIsNat, Invariance, PTL DEF Spec, Progress

-----------------------------------------------------------------------------

\* The counts of blocks stay within the dump and the pipe, whatever their sizes
\* (what io.Copy takes was written, what is written was in the database).
THEOREM TypeCorrect == Spec => []TypeOK
<1>1. IInv => TypeOK
  BY DEF IInv
<1>2. QED
  BY <1>1, Invariance, PTL
=============================================================================
