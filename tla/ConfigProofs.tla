---------------------------- MODULE ConfigProofs ----------------------------
(***************************************************************************)
(* The configuration for every clock, width and default: an accepted       *)
(* timeout is what was asked for, the two commands mean the same target,   *)
(* and the message of a refused load leads on.  The first two are facts of *)
(* every state whose settings have their types.  The last is about edits:  *)
(* each check is about one setting and depends on it alone (ChecksFollow), *)
(* and a setting that is right fails none (RightSettingsPass), so that the *)
(* repair of the first failing check's setting takes that check away and   *)
(* brings back none before it (RepairLeadsOn).                             *)
(***************************************************************************)
EXTENDS Config, SequenceTheorems, WellFoundedInduction, TLAPS

\* Types of the settings alone.
Typed == text \in [TextVars -> Texts] /\ time \in [TimeVars -> Times]

LEMMA SecondType == Second \in Nat \ {0} /\ Second <= MaxInt64 /\ NsPerMs <= Second
<1>1. NsPerMs \in Nat /\ MsPerSecond \in Nat /\ NsPerMs >= 1 /\ MsPerSecond >= 1
  BY ClockAssumption DEF ClockAssumption
<1>2. NsPerMs * MsPerSecond \in Nat /\ NsPerMs <= NsPerMs * MsPerSecond
  BY <1>1
<1>3. QED
  BY <1>1, <1>2, ClockAssumption DEF Second, ClockAssumption

\* The guard of positiveSecondsFromEnv is the largest number that does not wrap.
LEMMA NoWrap ==
  ASSUME NEW n \in 1..(MaxInt64 \div Second)
  PROVE  n * Second \in Second..MaxInt64
<1>1. Second \in Nat \ {0} /\ MaxInt64 \in Nat
  BY SecondType, ClockAssumption DEF ClockAssumption
<1> DEFINE q == MaxInt64 \div Second
<1>2. q \in Int /\ q * Second <= MaxInt64
  BY <1>1
<1> HIDE DEF q
<1>3. n \in Int /\ 1 <= n /\ n <= q
  BY <1>2 DEF q
<1>4. n * Second <= q * Second /\ Second <= n * Second
  BY <1>1, <1>2, <1>3
<1>5. QED
  BY <1>1, <1>2, <1>3, <1>4

\* At least a millisecond is at least one millisecond.
LEMMA MillisecondsPositive ==
  ASSUME NEW d \in Nat, NsPerMs <= d
  PROVE  Milliseconds(d) \in Nat \ {0}
<1>1. NsPerMs \in Nat \ {0}
  BY ClockAssumption DEF ClockAssumption
<1>2. d \div NsPerMs \in Nat /\ d \div NsPerMs >= 1
  BY <1>1
<1>3. QED
  BY <1>2 DEF Milliseconds

\* The number of milliseconds grows with the Duration.
LEMMA MillisecondsMonotone ==
  ASSUME NEW d \in Nat, NEW e \in Nat, d <= e
  PROVE  Milliseconds(d) <= Milliseconds(e)
<1>1. NsPerMs \in Nat \ {0}
  BY ClockAssumption DEF ClockAssumption
<1>2. QED
  BY <1>1 DEF Milliseconds

\* A setting that passes its check is a number of seconds that fits, or is not set.
LEMMA AcceptedDuration ==
  ASSUME Typed, NEW v \in TimeVars, ~TimeRefused(v)
  PROVE  /\ Duration(v) \in 1..MaxInt64
         /\ time[v].kind = "number" =>
              Duration(v) = time[v].n * Second /\ NsPerMs <= Duration(v)
         /\ time[v].kind # "number" => Duration(v) = Default[v]
<1>1. CASE time[v].kind = "number"
  <2>1. time[v].n \in 1..(MaxInt64 \div Second)
    <3>1. time[v].n \in -(MaxInt64 + 1)..MaxInt64 /\ time[v].n > 0
          /\ ~(time[v].n > MaxInt64 \div Second)
      BY <1>1 DEF TimeRefused, SecondsRefused
    <3>2. MaxInt64 \div Second \in Int
      BY SecondType, ClockAssumption DEF ClockAssumption
    <3>3. QED
      BY <3>1, <3>2, ClockAssumption DEF ClockAssumption
  <2>2. time[v].n * Second \in Second..MaxInt64
    BY <2>1, NoWrap
  <2>3. Wrap64(time[v].n * Second) = time[v].n * Second
    BY <2>2, SecondType, ClockAssumption DEF Wrap64, ClockAssumption
  <2>4. QED
    BY <1>1, <2>2, <2>3, SecondType, ClockAssumption DEF Duration, ClockAssumption
<1>2. CASE time[v].kind # "number"
  BY <1>2, ClockAssumption DEF Duration, ClockAssumption
<1>3. QED
  BY <1>1, <1>2

\* Init => Typed, and an edit keeps it.
LEMMA StaysTyped == Spec => []Typed
<1>1. Init => Typed
  BY DEF Init, Typed, Texts, Times
<1>2. Typed /\ [Next]_vars => Typed'
  <2> SUFFICES ASSUME Typed, [Next]_vars PROVE Typed'
    OBVIOUS
  <2>1. CASE UNCHANGED vars
    BY <2>1 DEF Typed, vars
  <2>2. ASSUME NEW v \in TextVars, NEW t \in Texts,
               text' = [text EXCEPT ![v] = t], UNCHANGED time
        PROVE  Typed'
    BY <2>2 DEF Typed
  <2>3. ASSUME NEW v \in TimeVars, NEW t \in Times,
               time' = [time EXCEPT ![v] = t], UNCHANGED text
        PROVE  Typed'
    BY <2>3 DEF Typed
  <2>4. QED
    BY <2>1, <2>2, <2>3 DEF Next, Edit
<1>3. QED
  BY <1>1, <1>2, PTL DEF Spec

\* What LoadFromEnv has checked when it returns a configuration.
LEMMA LoadsChecks ==
  ASSUME RestoreLoads
  PROVE  (\A v \in TimeVars : ~TimeRefused(v)) /\ ~AnalyzeTooLong
<1>1. \A i \in DOMAIN TimeChecks : ~TimeChecks[i].fails
  BY DEF RestoreLoads, Passes
<1>2. QED
  BY <1>1 DEF TimeChecks, TimeVars, Analyze, Check

\* No accepted number of seconds wraps around, and ANALYZE has a limit of at least a
\* millisecond that PostgreSQL can hold, for any clock, widths and defaults within
\* ClockAssumption (positiveSecondsFromEnv, the last check of LoadFromEnv, Analyze).
THEOREM TimeoutsAsGivenHolds == Spec => []TimeoutsAsGiven
<1>1. Typed => TimeoutsAsGiven
  <2> SUFFICES ASSUME Typed, RestoreLoads
               PROVE  /\ \A v \in TimeVars :
                           time[v].kind = "number" => Duration(v) = time[v].n * Second
                      /\ StatementTimeout \in 1..MaxInt32
                      /\ LockTimeout \in 1..StatementTimeout
    BY DEF TimeoutsAsGiven
  <2>1. \A v \in TimeVars :
           time[v].kind = "number" => Duration(v) = time[v].n * Second
    BY LoadsChecks, AcceptedDuration
  <2>2. AnalyzeTimeout \in 1..MaxInt64 /\ NsPerMs <= AnalyzeTimeout
    <3>1. Analyze \in TimeVars
      BY DEF TimeVars
    <3>2. Duration(Analyze) \in 1..MaxInt64 /\ NsPerMs <= Duration(Analyze)
      BY <3>1, LoadsChecks, AcceptedDuration, ClockAssumption DEF ClockAssumption
    <3>3. QED
      BY <3>2, ClockAssumption DEF AnalyzeTimeout, ClockAssumption
  <2>3. AnalyzeTimeout = Duration(Analyze)
    BY <2>2, LoadsChecks, AcceptedDuration, ClockAssumption
       DEF AnalyzeTimeout, ClockAssumption, TimeVars
  <2>4. StatementTimeout \in Nat \ {0} /\ StatementTimeout <= MaxInt32
    <3>1. AnalyzeTimeout \in Nat
      BY <2>2, ClockAssumption DEF ClockAssumption
    <3>2. Milliseconds(AnalyzeTimeout) \in Nat \ {0}
      BY <2>2, <3>1, MillisecondsPositive
    <3>3. ~(Milliseconds(AnalyzeTimeout) > MaxInt32)
      BY <2>3, LoadsChecks DEF AnalyzeTooLong
    <3>4. QED
      BY <3>2, <3>3, ClockAssumption DEF StatementTimeout, ClockAssumption
  <2>5. LockTimeout \in Nat \ {0} /\ LockTimeout <= StatementTimeout
    <3> DEFINE d == IF AnalyzeTimeout < LockLimit THEN AnalyzeTimeout ELSE LockLimit
    <3>1. d \in Nat /\ NsPerMs <= d /\ AnalyzeTimeout \in Nat /\ d <= AnalyzeTimeout
      BY <2>2, ClockAssumption DEF ClockAssumption
    <3> HIDE DEF d
    <3>2. Milliseconds(d) \in Nat \ {0} /\ Milliseconds(d) <= Milliseconds(AnalyzeTimeout)
      BY <3>1, MillisecondsPositive, MillisecondsMonotone
    <3>3. QED
      BY <3>2 DEF LockTimeout, StatementTimeout, d
  <2>6. QED
    BY <2>1, <2>4, <2>5, ClockAssumption DEF ClockAssumption
<1>2. QED
  BY <1>1, StaysTyped, PTL

-----------------------------------------------------------------------------
(* The lists of checks.                                                    *)

\* A set of numbers that is not empty has a least one.
LEMMA LeastNumber ==
  ASSUME NEW T \in SUBSET Nat, T # {}
  PROVE  \E m \in T : \A n \in T : m <= n
<1> DEFINE R == {p \in Nat \X Nat : p[1] < p[2]}
<1>1. R = OpToRel(<, Nat)
  BY DEF OpToRel
<1>2. IsWellFoundedOn(R, Nat)
  BY <1>1, NatLessThanWellFounded, Zenon
<1>3. \E m \in T : \A n \in T : ~(<<n, m>> \in R)
  BY <1>2, WFMin, Zenon
<1>4. \A m, n \in T : ~(<<n, m>> \in R) => m <= n
  OBVIOUS
<1>5. QED
  BY <1>3, <1>4

LEMMA FirstFailingIs ==
  ASSUME NEW n \in Nat, NEW checks, DOMAIN checks = 1..n, ~Passes(checks)
  PROVE  LET at == FirstFailing(checks)
         IN  at \in 1..n /\ checks[at].fails /\ \A j \in 1..(at - 1) : ~checks[j].fails
<1> DEFINE Failing == {i \in 1..n : checks[i].fails}
<1>1. PICK m \in Failing : \A i \in Failing : m <= i
  <2>1. Failing \in SUBSET Nat /\ Failing # {}
    BY DEF Passes
  <2>2. QED
    BY <2>1, LeastNumber
<1>2. m \in 1..n /\ checks[m].fails /\ \A j \in 1..(m - 1) : ~checks[j].fails
  BY <1>1
<1>3. QED
  BY <1>2 DEF FirstFailing

\* The settings the checks after the presence of each are about, in their order.
Formed == <<"WEB_WORKLOAD", "DB_WORKLOAD", "MISSKEY_BASE_URL", "S3_ENDPOINT">>
Timed  == <<Analyze, "MISSKEY_GTL_REQUEST_TIMEOUT_SECONDS",
            "MISSKEY_GTL_RETRY_INTERVAL_SECONDS", "MISSKEY_GTL_RETRY_TIMEOUT_SECONDS">>

\* LoadFromEnv's checks one by one.
RestoreListed ==
    /\ DOMAIN RestoreChecks = 1..19
    /\ \A i \in 1..10 : RestoreChecks[i] = Check(RestoreRequired[i], Missing(RestoreRequired[i]))
    /\ \A i \in 1..4 : RestoreChecks[10 + i] = Check(Formed[i], Misformed(Formed[i]))
    /\ \A i \in 1..4 : RestoreChecks[14 + i] = Check(Timed[i], TimeRefused(Timed[i]))
    /\ RestoreChecks[19] = Check(Analyze, AnalyzeTooLong)

Settings == TextVars \cup TimeVars
CheckRecords == [var : Settings, fails : BOOLEAN]

LEMMA RequiredSettings ==
  /\ Len(RestoreRequired) = 10 /\ \A i \in 1..10 : RestoreRequired[i] \in TextVars
  /\ Len(BackupRequired) = 8 /\ \A i \in 1..8 : BackupRequired[i] \in TextVars
  /\ \A i \in 1..4 : Formed[i] \in TextVars /\ Timed[i] \in TimeVars
  /\ Analyze \in TimeVars /\ "S3_ENDPOINT" \in TextVars /\ "DB_PORT" \in TextVars
<1>1. Len(RestoreRequired) = 10 /\ DOMAIN RestoreRequired = 1..10
  BY DEF RestoreRequired
<1>2. Len(BackupRequired) = 8 /\ DOMAIN BackupRequired = 1..8
  BY DEF BackupRequired
<1>3. \A i \in 1..10 : RestoreRequired[i] \in Names(RestoreRequired)
  BY <1>1 DEF Names
<1>4. \A i \in 1..8 : BackupRequired[i] \in Names(BackupRequired)
  BY <1>2 DEF Names
<1>5. "WEB_WORKLOAD" = RestoreRequired[1] /\ "DB_WORKLOAD" = RestoreRequired[2]
      /\ "MISSKEY_BASE_URL" = RestoreRequired[3] /\ "DB_PORT" = RestoreRequired[8]
  BY DEF RestoreRequired
<1>6. \A i \in 1..4 : Formed[i] \in {RestoreRequired[1], RestoreRequired[2], RestoreRequired[3],
                                   "S3_ENDPOINT"}
  BY <1>5 DEF Formed
<1>7. \A i \in 1..4 : Timed[i] \in TimeVars
  BY DEF Timed, TimeVars
<1>8. QED
  BY <1>1, <1>2, <1>3, <1>4, <1>5, <1>6, <1>7 DEF TextVars, RestoreTexts, BackupTexts, TimeVars

\* Where the elements of two sequences are in their concatenation.
LEMMA ConcatAt ==
  ASSUME NEW S, NEW s \in Seq(S), NEW t \in Seq(S)
  PROVE  /\ s \o t \in Seq(S) /\ Len(s \o t) = Len(s) + Len(t)
         /\ \A i \in 1..Len(s) : (s \o t)[i] = s[i]
         /\ \A i \in 1..Len(t) : (s \o t)[Len(s) + i] = t[i]
<1> DEFINE st == s \o t
<1>1. /\ st \in Seq(S) /\ Len(st) = Len(s) + Len(t)
      /\ \A i \in 1..(Len(s) + Len(t)) :
           st[i] = IF i <= Len(s) THEN s[i] ELSE t[i - Len(s)]
  BY ConcatProperties, Zenon
<1> HIDE DEF st
<1>2. \A i \in 1..Len(s) : st[i] = s[i]
  BY <1>1
<1>3. ASSUME NEW i \in 1..Len(t)
      PROVE  st[Len(s) + i] = t[i]
  <2>1. Len(s) \in Nat /\ Len(t) \in Nat
    OBVIOUS
  <2>2. Len(s) + i \in 1..(Len(s) + Len(t)) /\ ~(Len(s) + i <= Len(s))
        /\ (Len(s) + i) - Len(s) = i
    BY <2>1
  <2>3. QED
    BY <1>1, <2>2, Zenon
<1>4. QED
  BY <1>1, <1>2, <1>3 DEF st

LEMMA RestoreIsListed == RestoreListed
<1>1. PresenceChecks \in Seq(CheckRecords) /\ Len(PresenceChecks) = 10
      /\ \A i \in 1..10 : PresenceChecks[i] = Check(RestoreRequired[i], Missing(RestoreRequired[i]))
  BY RequiredSettings DEF PresenceChecks, CheckRecords, Check, Missing, Settings
<1>2. FormatChecks = <<Check(Formed[1], Misformed(Formed[1])), Check(Formed[2], Misformed(Formed[2])),
                       Check(Formed[3], Misformed(Formed[3])), Check(Formed[4], Misformed(Formed[4]))>>
  BY DEF FormatChecks, Formed
<1>3. FormatChecks \in Seq(CheckRecords) /\ Len(FormatChecks) = 4
      /\ \A i \in 1..4 : FormatChecks[i] = Check(Formed[i], Misformed(Formed[i]))
  <2> DEFINE c(i) == Check(Formed[i], Misformed(Formed[i]))
  <2>1. \A i \in 1..4 : c(i) \in CheckRecords
    BY RequiredSettings DEF CheckRecords, Check, Misformed, Settings
  <2>2. FormatChecks = <<c(1), c(2), c(3), c(4)>>
    BY <1>2
  <2> HIDE DEF c
  <2>3. FormatChecks \in Seq(CheckRecords) /\ Len(FormatChecks) = 4
        /\ \A i \in 1..4 : FormatChecks[i] = c(i)
    BY <2>1, <2>2
  <2>4. QED
    BY <2>3 DEF c
<1>4. TimeChecks \in Seq(CheckRecords) /\ Len(TimeChecks) = 5
      /\ (\A i \in 1..4 : TimeChecks[i] = Check(Timed[i], TimeRefused(Timed[i])))
      /\ TimeChecks[5] = Check(Analyze, AnalyzeTooLong)
  <2> DEFINE c(i) == Check(Timed[i], TimeRefused(Timed[i]))
             last == Check(Analyze, AnalyzeTooLong)
  <2>1. last \in CheckRecords /\ \A i \in 1..4 : c(i) \in CheckRecords
    BY RequiredSettings DEF CheckRecords, Check, TimeRefused, AnalyzeTooLong, Settings
  <2>2. TimeChecks = <<c(1), c(2), c(3), c(4), last>>
    BY DEF TimeChecks, Timed
  <2> HIDE DEF c, last
  <2>3. TimeChecks \in Seq(CheckRecords) /\ Len(TimeChecks) = 5
        /\ (\A i \in 1..4 : TimeChecks[i] = c(i)) /\ TimeChecks[5] = last
    BY <2>1, <2>2
  <2>4. QED
    BY <2>3 DEF c, last
<1> DEFINE front == PresenceChecks \o FormatChecks
<1>5. RestoreChecks = front \o TimeChecks
  BY DEF RestoreChecks
<1>6. /\ front \in Seq(CheckRecords) /\ Len(front) = 14
      /\ \A i \in 1..10 : front[i] = PresenceChecks[i]
      /\ \A i \in 1..4 : front[10 + i] = FormatChecks[i]
  <2>1. /\ front \in Seq(CheckRecords) /\ Len(front) = Len(PresenceChecks) + Len(FormatChecks)
        /\ \A i \in 1..Len(PresenceChecks) : front[i] = PresenceChecks[i]
        /\ \A i \in 1..Len(FormatChecks) : front[Len(PresenceChecks) + i] = FormatChecks[i]
    <3>1. PresenceChecks \in Seq(CheckRecords) /\ FormatChecks \in Seq(CheckRecords)
      BY <1>1, <1>3
    <3>2. QED
      BY <3>1, ConcatAt, SMT
  <2> HIDE DEF front
  <2>2. QED
    BY <1>1, <1>3, <2>1
<1> HIDE DEF front
<1>7. /\ DOMAIN RestoreChecks = 1..19
      /\ \A i \in 1..14 : RestoreChecks[i] = front[i]
      /\ \A i \in 1..5 : RestoreChecks[14 + i] = TimeChecks[i]
  <2>1. /\ RestoreChecks \in Seq(CheckRecords)
        /\ Len(RestoreChecks) = Len(front) + Len(TimeChecks)
        /\ \A i \in 1..Len(front) : RestoreChecks[i] = front[i]
        /\ \A i \in 1..Len(TimeChecks) : RestoreChecks[Len(front) + i] = TimeChecks[i]
    <3>1. front \in Seq(CheckRecords) /\ TimeChecks \in Seq(CheckRecords)
      BY <1>4, <1>6
    <3>2. QED
      BY <1>5, <3>1, ConcatAt, SMTT(30)
  <2>2. Len(front) = 14 /\ Len(TimeChecks) = 5
    BY <1>4, <1>6
  <2>3. Len(RestoreChecks) = 19 /\ DOMAIN RestoreChecks = 1..19
    BY <2>1, <2>2
  <2>4. QED
    BY <2>1, <2>2, <2>3
<1>8. ASSUME NEW i \in 1..10
      PROVE  RestoreChecks[i] = PresenceChecks[i]
  <2>1. i \in 1..14
    OBVIOUS
  <2>2. QED
    BY <1>6, <1>7, <2>1, Zenon
<1>9. ASSUME NEW i \in 1..4
      PROVE  RestoreChecks[10 + i] = FormatChecks[i]
  <2>1. 10 + i \in 1..14
    OBVIOUS
  <2>2. QED
    BY <1>6, <1>7, <2>1, Zenon
<1>10. /\ \A i \in 1..4 : RestoreChecks[14 + i] = TimeChecks[i]
       /\ RestoreChecks[19] = TimeChecks[5]
  BY <1>7
<1>11. QED
  BY <1>1, <1>3, <1>4, <1>7, <1>8, <1>9, <1>10 DEF RestoreListed

Unset(v)    == text[v] = "unset"
NotPlain(v) == text[v] # "plain"
EndpointRefused == ~BackupEndpointAccepted

\* LoadBackupFromEnv's checks one by one.
BackupListed ==
    /\ DOMAIN BackupChecks = 1..10
    /\ \A i \in 1..8 : BackupChecks[i] = Check(BackupRequired[i], Unset(BackupRequired[i]))
    /\ BackupChecks[9] = Check("DB_PORT", NotPlain("DB_PORT"))
    /\ BackupChecks[10] = Check("S3_ENDPOINT", EndpointRefused)

LEMMA BackupIsListed == BackupListed
<1> DEFINE c(i) == Check(BackupRequired[i], Unset(BackupRequired[i]))
           presence == [i \in 1..Len(BackupRequired) |-> c(i)]
           port == Check("DB_PORT", NotPlain("DB_PORT"))
           endpoint == Check("S3_ENDPOINT", EndpointRefused)
           form == <<port, endpoint>>
<1>1. /\ port \in CheckRecords /\ endpoint \in CheckRecords
      /\ \A i \in 1..8 : c(i) \in CheckRecords
  BY RequiredSettings DEF CheckRecords, Check, Settings, Unset, NotPlain, EndpointRefused
<1>2. BackupChecks = presence \o form
  BY DEF BackupChecks, Unset, NotPlain, EndpointRefused
<1> HIDE DEF c, port, endpoint
<1>3. /\ presence \in Seq(CheckRecords) /\ Len(presence) = 8
      /\ \A i \in 1..8 : presence[i] = c(i)
  BY <1>1, RequiredSettings
<1>4. form \in Seq(CheckRecords) /\ Len(form) = 2 /\ form[1] = port /\ form[2] = endpoint
  BY <1>1
<1> HIDE DEF presence, form
<1>5. presence \in Seq(CheckRecords) /\ form \in Seq(CheckRecords)
  BY <1>3, <1>4
<1>6. /\ BackupChecks \in Seq(CheckRecords) /\ Len(BackupChecks) = Len(presence) + Len(form)
      /\ \A i \in 1..Len(presence) : BackupChecks[i] = presence[i]
      /\ \A i \in 1..Len(form) : BackupChecks[Len(presence) + i] = form[i]
  BY <1>2, <1>5, ConcatAt, SMT
<1>7. DOMAIN BackupChecks = 1..10 /\ \A i \in 1..8 : BackupChecks[i] = presence[i]
  BY <1>3, <1>4, <1>6
<1>8. \A i \in 1..2 : BackupChecks[8 + i] = form[i]
  BY <1>3, <1>4, <1>6
<1>9. BackupChecks[9] = port /\ BackupChecks[10] = endpoint
  BY <1>4, <1>8
<1>10. QED
  BY <1>3, <1>7, <1>9 DEF BackupListed, c, port, endpoint

\* A setting as it was.
Kept(v) == (v \in TextVars => text'[v] = text[v]) /\ (v \in TimeVars => time'[v] = time[v])

\* A setting that is right, or left out where it may be, fails no check.
OnlyEditedFail(checks, n) == \A i \in 1..n : checks[i].fails => checks[i].var \in Edits

LEMMA RightSettingsPass ==
  OnlyEditedFail(RestoreChecks, 19) /\ OnlyEditedFail(BackupChecks, 10)
<1>1. \A v \in TextVars : v \notin Edits => text[v] = "plain"
  BY DEF Edits
<1>2. \A v \in TimeVars : v \notin Edits => time[v].kind = "unset" /\ Duration(v) = Default[v]
  BY DEF Edits, Absent, Duration
<1>3. \A v \in TextVars : Missing(v) \/ Misformed(v) => v \in Edits
  BY <1>1 DEF Missing, Misformed, TrimSpace
<1>4. \A v \in TimeVars : TimeRefused(v) => v \in Edits
  BY <1>2 DEF TimeRefused
<1>5. AnalyzeTooLong => Analyze \in Edits
  <2>1. ~(Milliseconds(Default[Analyze]) > MaxInt32)
    <3>1. Default[Analyze] \div NsPerMs <= MaxInt32 /\ Default[Analyze] \in Int
          /\ NsPerMs \in Nat \ {0} /\ MaxInt32 \in Int
      BY RequiredSettings, ClockAssumption DEF ClockAssumption
    <3>2. Default[Analyze] \div NsPerMs \in Int
      BY <3>1
    <3>3. QED
      BY <3>1, <3>2 DEF Milliseconds
  <2>2. QED
    BY <1>2, <2>1, RequiredSettings DEF AnalyzeTooLong
<1>6. ASSUME NEW i \in 1..19, RestoreChecks[i].fails PROVE RestoreChecks[i].var \in Edits
  <2>1. CASE i \in 1..10
    BY <1>3, <1>6, <2>1, RestoreIsListed, RequiredSettings DEF RestoreListed, Check
  <2>2. CASE i \in 11..14
    <3>1. i - 10 \in 1..4 /\ 10 + (i - 10) = i
      BY <2>2
    <3>2. RestoreChecks[i] = Check(Formed[i - 10], Misformed(Formed[i - 10]))
      BY <3>1, RestoreIsListed DEF RestoreListed
    <3>3. QED
      BY <1>3, <1>6, <3>1, <3>2, RequiredSettings DEF Check
  <2>3. CASE i \in 15..18
    <3>1. i - 14 \in 1..4 /\ 14 + (i - 14) = i
      BY <2>3
    <3>2. RestoreChecks[i] = Check(Timed[i - 14], TimeRefused(Timed[i - 14]))
      BY <3>1, RestoreIsListed DEF RestoreListed
    <3>3. QED
      BY <1>4, <1>6, <3>1, <3>2, RequiredSettings DEF Check
  <2>4. CASE i = 19
    BY <1>5, <1>6, <2>4, RestoreIsListed DEF RestoreListed, Check
  <2>5. QED
    BY <2>1, <2>2, <2>3, <2>4
<1>7. \A v \in TextVars : Unset(v) \/ NotPlain(v) => v \in Edits
  BY <1>1 DEF Unset, NotPlain
<1>8. EndpointRefused => "S3_ENDPOINT" \in Edits
  BY <1>1, RequiredSettings DEF EndpointRefused, BackupEndpointAccepted
<1>9. ASSUME NEW i \in 1..10, BackupChecks[i].fails PROVE BackupChecks[i].var \in Edits
  <2>1. CASE i \in 1..8
    BY <1>7, <1>9, <2>1, BackupIsListed, RequiredSettings DEF BackupListed, Check
  <2>2. CASE i = 9
    BY <1>7, <1>9, <2>2, BackupIsListed, RequiredSettings DEF BackupListed, Check
  <2>3. CASE i = 10
    BY <1>8, <1>9, <2>3, BackupIsListed DEF BackupListed, Check
  <2>4. QED
    BY <2>1, <2>2, <2>3
<1>10. QED
  BY <1>6, <1>9 DEF OnlyEditedFail

\* The check at i is about one setting, for good, and depends on it alone.
Follows(checks, later, i) ==
    /\ checks[i].var \in Settings /\ later[i].var = checks[i].var
    /\ Kept(checks[i].var) => later[i].fails = checks[i].fails

LEMMA ChecksFollow ==
  /\ \A i \in 1..19 : Follows(RestoreChecks, RestoreChecks', i)
  /\ \A i \in 1..10 : Follows(BackupChecks, BackupChecks', i)
<1>1. RestoreListed /\ RestoreListed' /\ BackupListed /\ BackupListed'
  BY RestoreIsListed, BackupIsListed, PTL
<1>2. \A v \in TextVars : Kept(v) => /\ Missing(v)' = Missing(v) /\ Misformed(v)' = Misformed(v)
                                     /\ Unset(v)' = Unset(v) /\ NotPlain(v)' = NotPlain(v)
  BY DEF Kept, Missing, Misformed, Unset, NotPlain
<1>3. \A v \in TimeVars : Kept(v) => TimeRefused(v)' = TimeRefused(v) /\ Duration(v)' = Duration(v)
  BY DEF Kept, TimeRefused, Duration
<1>4. Kept(Analyze) => AnalyzeTooLong' = AnalyzeTooLong
  BY <1>3, RequiredSettings DEF AnalyzeTooLong
<1>5. Kept("S3_ENDPOINT") => EndpointRefused' = EndpointRefused
  BY RequiredSettings DEF Kept, EndpointRefused, BackupEndpointAccepted
<1>6. ASSUME NEW v \in Settings, NEW p, NEW q, NEW checks, NEW later, NEW i,
             checks[i] = Check(v, p), later[i] = Check(v, q), Kept(v) => q = p
      PROVE  Follows(checks, later, i)
  BY <1>6 DEF Follows, Check
<1>7. ASSUME NEW i \in 1..19 PROVE Follows(RestoreChecks, RestoreChecks', i)
  <2>1. CASE i \in 1..10
    BY <1>1, <1>2, <1>6, <2>1, RequiredSettings DEF RestoreListed, Settings
  <2>2. CASE i \in 11..14
    <3>1. i - 10 \in 1..4 /\ 10 + (i - 10) = i
      BY <2>2
    <3>2. /\ RestoreChecks[i] = Check(Formed[i - 10], Misformed(Formed[i - 10]))
          /\ RestoreChecks'[i] = Check(Formed[i - 10], Misformed(Formed[i - 10])')
      BY <1>1, <3>1 DEF RestoreListed
    <3>3. QED
      BY <1>2, <1>6, <3>1, <3>2, RequiredSettings DEF Settings
  <2>3. CASE i \in 15..18
    <3>1. i - 14 \in 1..4 /\ 14 + (i - 14) = i
      BY <2>3
    <3>2. /\ RestoreChecks[i] = Check(Timed[i - 14], TimeRefused(Timed[i - 14]))
          /\ RestoreChecks'[i] = Check(Timed[i - 14], TimeRefused(Timed[i - 14])')
      BY <1>1, <3>1 DEF RestoreListed
    <3>3. QED
      BY <1>3, <1>6, <3>1, <3>2, RequiredSettings DEF Settings
  <2>4. CASE i = 19
    BY <1>1, <1>4, <1>6, <2>4, RequiredSettings DEF RestoreListed, Settings
  <2>5. QED
    BY <2>1, <2>2, <2>3, <2>4
<1>8. ASSUME NEW i \in 1..10 PROVE Follows(BackupChecks, BackupChecks', i)
  <2>1. CASE i \in 1..8
    BY <1>1, <1>2, <1>6, <2>1, RequiredSettings DEF BackupListed, Settings
  <2>2. CASE i = 9
    BY <1>1, <1>2, <1>6, <2>2, RequiredSettings DEF BackupListed, Settings
  <2>3. CASE i = 10
    BY <1>1, <1>5, <1>6, <2>3, RequiredSettings DEF BackupListed, Settings
  <2>4. QED
    BY <2>1, <2>2, <2>3
<1>9. QED
  BY <1>7, <1>8

\* When the edits lose a setting, no other setting has changed.
LEMMA OnlyOneRepaired ==
  ASSUME Typed, [Next]_vars, NEW w \in Edits, Edits' = Edits \ {w}
  PROVE  \A v \in Settings : v # w => Kept(v)
<1>1. w \in Settings /\ w \notin Edits'
  BY DEF Edits, Settings
<1>2. CASE UNCHANGED vars
  BY <1>1, <1>2 DEF vars, Edits
<1>3. ASSUME NEW u \in Settings, Edit(u)
      PROVE  \A v \in Settings : v # w => Kept(v)
  <2>1. \A v \in Settings : v # u => Kept(v)
    BY <1>3 DEF Edit, Typed, Kept
  <2>2. Kept(w) => w \in Edits'
    BY DEF Kept, Edits
  <2>3. u = w
    BY <1>1, <2>1, <2>2
  <2>4. QED
    BY <2>1, <2>3
<1>4. QED
  BY <1>2, <1>3 DEF Next, Settings

\* The repair of the setting the first failing check names takes that check away and
\* brings back none before it.
LEMMA RepairLeadsOn ==
  ASSUME Typed, [Next]_vars, NEW n \in Nat, NEW checks, NEW later,
         DOMAIN checks = 1..n, DOMAIN later = 1..n,
         OnlyEditedFail(checks, n),
         \A i \in 1..n : later[i].fails => later[i].var \in Edits',
         \A i \in 1..n : Follows(checks, later, i)
  PROVE  LeadsOn(checks, later)
<1> DEFINE at == FirstFailing(checks)
<1> SUFFICES ASSUME ~Passes(checks), Edits' = Edits \ {checks[at].var}, ~Passes(later)
             PROVE  FirstFailing(later) > at
  BY DEF LeadsOn
<1>1. at \in 1..n /\ checks[at].fails /\ \A j \in 1..(at - 1) : ~checks[j].fails
  BY FirstFailingIs
<1> DEFINE next == FirstFailing(later)
<1>2. next \in 1..n /\ later[next].fails
  BY FirstFailingIs
<1> HIDE DEF at, next
<1> DEFINE w == checks[at].var
<1>3. w \in Edits /\ w \notin Edits'
  BY <1>1 DEF OnlyEditedFail
<1>4. \A v \in Settings : v # w => Kept(v)
  BY <1>3, OnlyOneRepaired
<1>5. checks[next].var # w
  BY <1>2, <1>3 DEF Follows
<1>6. checks[next].fails
  BY <1>2, <1>4, <1>5 DEF Follows
<1>7. ~(next \in 1..(at - 1)) /\ next # at
  BY <1>1, <1>5, <1>6
<1>8. next > at
  BY <1>1, <1>2, <1>7
<1>9. QED
  BY <1>8 DEF next, at

-----------------------------------------------------------------------------
(* What follows.                                                           *)

\* Whoever repairs the setting a message names gets to a later check or to a load, for
\* both commands, whatever else is wrong (the order of the checks in LoadFromEnv and
\* LoadBackupFromEnv, each of which is about the setting its message names).
THEOREM MessageLeadsOnHolds == Spec => MessageLeadsOn
<1>1. Typed /\ [Next]_vars =>
        LeadsOn(RestoreChecks, RestoreChecks') /\ LeadsOn(BackupChecks, BackupChecks')
  <2> SUFFICES ASSUME Typed, [Next]_vars
               PROVE  /\ LeadsOn(RestoreChecks, RestoreChecks')
                      /\ LeadsOn(BackupChecks, BackupChecks')
    OBVIOUS
  <2>1. /\ RestoreListed /\ RestoreListed' /\ BackupListed /\ BackupListed'
        /\ OnlyEditedFail(RestoreChecks, 19) /\ OnlyEditedFail(RestoreChecks, 19)'
        /\ OnlyEditedFail(BackupChecks, 10) /\ OnlyEditedFail(BackupChecks, 10)'
    BY RestoreIsListed, BackupIsListed, RightSettingsPass, PTL
  <2>2. LeadsOn(RestoreChecks, RestoreChecks')
    <3>1. /\ DOMAIN RestoreChecks = 1..19 /\ DOMAIN RestoreChecks' = 1..19
          /\ \A i \in 1..19 : RestoreChecks'[i].fails => RestoreChecks'[i].var \in Edits'
      BY <2>1 DEF RestoreListed, OnlyEditedFail
    <3>2. 19 \in Nat
      OBVIOUS
    <3>3. QED
      BY <2>1, <3>1, <3>2, ChecksFollow, RepairLeadsOn
  <2>3. LeadsOn(BackupChecks, BackupChecks')
    <3>1. /\ DOMAIN BackupChecks = 1..10 /\ DOMAIN BackupChecks' = 1..10
          /\ \A i \in 1..10 : BackupChecks'[i].fails => BackupChecks'[i].var \in Edits'
      BY <2>1 DEF BackupListed, OnlyEditedFail
    <3>2. 10 \in Nat
      OBVIOUS
    <3>3. QED
      BY <2>1, <3>1, <3>2, ChecksFollow, RepairLeadsOn
  <2>4. QED
    BY <2>2, <2>3
<1>2. QED
  BY <1>1, StaysTyped, PTL DEF Spec, MessageLeadsOn
=============================================================================
