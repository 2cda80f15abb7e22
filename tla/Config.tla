------------------------------- MODULE Config -------------------------------
(***************************************************************************)
(* The inputs of both commands, taken from the environment                 *)
(* (internal/config/config.go), and what ANALYZE makes of its timeout      *)
(* (Analyze in internal/restore/db.go).                                    *)
(*                                                                         *)
(* The state is the environment the manifests give to the next command.    *)
(* An operator edits one setting at a time; LoadFromEnv and                *)
(* LoadBackupFromEnv are functions of what is set.  A text is known by     *)
(* what the loaders tell apart, a number of seconds by its value; nanosec- *)
(* onds are 64 bits wide.                                                  *)
(***************************************************************************)
EXTENDS Integers, Sequences, FiniteSets

CONSTANTS
    NsPerMs, MsPerSecond,   \* the clock
    MaxInt64, MaxInt32,     \* the largest Duration and the largest statement_timeout
    Default,                \* the timeouts in nanoseconds that hold when nothing is set
    LockLimit,              \* the most ANALYZE waits for a lock, in nanoseconds
    Numbers,                \* bound: the numbers of seconds an operator tries
    MaxEdits                \* bound: settings that differ from a working environment

Second == NsPerMs * MsPerSecond

Analyze == "DB_ANALYZE_TIMEOUT_SECONDS"

TimeVars == {Analyze, "MISSKEY_GTL_REQUEST_TIMEOUT_SECONDS",
             "MISSKEY_GTL_RETRY_INTERVAL_SECONDS", "MISSKEY_GTL_RETRY_TIMEOUT_SECONDS"}

\* A second fits into 64 bits, and so do the defaults, ANALYZE's into 32 as well.
ASSUME ClockAssumption ==
    /\ NsPerMs \in Nat \ {0} /\ MsPerSecond \in Nat \ {0}
    /\ MaxInt64 \in Nat /\ MaxInt32 \in Nat /\ Second <= MaxInt64
    /\ Default \in [TimeVars -> 1..MaxInt64]
    /\ NsPerMs <= Default[Analyze] /\ Default[Analyze] \div NsPerMs <= MaxInt32
    /\ LockLimit \in Nat /\ NsPerMs <= LockLimit
    /\ Numbers \subseteq Int /\ MaxEdits \in Nat

VARIABLES
    text,       \* setting -> what its value is to the loaders
    time        \* setting of a timeout -> its value

vars == <<text, time>>

(***************************************************************************)
(*   unset   not in the environment, or empty                              *)
(*   blank   white space                                                   *)
(*   plain   a value that means something to what it is handed to          *)
(*   padded  the same between white space                                  *)
(*   trailed a URL with a path, and white space behind it                  *)
(*   bad     malformed for a setting that has a form                       *)
(***************************************************************************)
Texts == {"unset", "blank", "plain", "padded", "trailed", "bad"}

\* strings.TrimSpace.
TrimSpace(t) ==
    CASE t = "blank"                 -> "unset"
      [] t \in {"padded", "trailed"} -> "plain"
      [] OTHER                       -> t

Absent    == [kind |-> "unset", n |-> 0]
Malformed == [kind |-> "bad", n |-> 0]
Given(n)  == [kind |-> "number", n |-> n]
Times     == {Absent, Malformed} \cup {Given(n) : n \in Numbers}

\* In the order of requiredEnv.
RestoreRequired ==
    <<"WEB_WORKLOAD", "DB_WORKLOAD", "MISSKEY_BASE_URL", "S3_REGION", "S3_BUCKET", "S3_KEY",
      "DB_HOST", "DB_PORT", "DB_USER", "DB_PASS">>

\* In the order LoadBackupFromEnv asks for them.
BackupRequired ==
    <<"DB_HOST", "DB_PORT", "DB_USER", "DB_PASS", "DB_NAME", "S3_REGION", "S3_BUCKET", "S3_KEY">>

Names(s) == {s[i] : i \in DOMAIN s}

RestoreTexts == Names(RestoreRequired) \cup {"S3_ENDPOINT"}
BackupTexts  == Names(BackupRequired) \cup {"S3_ENDPOINT"}
TextVars     == RestoreTexts \cup BackupTexts

\* The settings that differ from an environment with which both commands load.
Edits == {v \in TextVars : text[v] # "plain"} \cup {v \in TimeVars : time[v] # Absent}

Init ==
    /\ text = [v \in TextVars |-> "plain"]
    /\ time = [v \in TimeVars |-> Absent]

\* A manifest is changed.
Edit(v) ==
    /\ v \in Edits \/ Cardinality(Edits) < MaxEdits
    /\ \/ v \in TextVars /\ text' \in {[text EXCEPT ![v] = t] : t \in Texts} /\ UNCHANGED time
       \/ v \in TimeVars /\ time' \in {[time EXCEPT ![v] = t] : t \in Times} /\ UNCHANGED text

Next == \E v \in TextVars \cup TimeVars : Edit(v)

Spec == Init /\ [][Next]_vars

-----------------------------------------------------------------------------
(* LoadFromEnv.                                                            *)

\* The product of two Durations keeps 64 bits of itself.
Wrap64(x) ==
    IF x \in -(MaxInt64 + 1)..MaxInt64 THEN x
    ELSE ((x + MaxInt64 + 1) % (2 * (MaxInt64 + 1))) - (MaxInt64 + 1)

\* Every number that is positive is taken.
TooManySecondsAccepted(n) == n \notin 1..MaxInt64

\* What ParseInt or the checks after it refuse.
SecondsRefused(n) ==
    \/ n \notin -(MaxInt64 + 1)..MaxInt64
    \/ n <= 0
    \/ n > MaxInt64 \div Second

TimeRefused(v) ==
    \/ time[v].kind = "bad"
    \/ time[v].kind = "number" /\ SecondsRefused(time[v].n)

Duration(v) ==
    IF time[v].kind = "number" THEN Wrap64(time[v].n * Second) ELSE Default[v]

Milliseconds(d) == d \div NsPerMs

AnalyzeTooLong == Milliseconds(Duration(Analyze)) > MaxInt32

Missing(v)   == TrimSpace(text[v]) = "unset"
Misformed(v) == text[v] = "bad"

Check(v, fails) == [var |-> v, fails |-> fails]

PresenceChecks ==
    [i \in 1..Len(RestoreRequired) |-> Check(RestoreRequired[i], Missing(RestoreRequired[i]))]

\* A message copied from the check before it.
FormatChecksMisnamed ==
    <<Check("WEB_WORKLOAD", Misformed("WEB_WORKLOAD")),
      Check("WEB_WORKLOAD", Misformed("DB_WORKLOAD")),
      Check("MISSKEY_BASE_URL", Misformed("MISSKEY_BASE_URL")),
      Check("S3_ENDPOINT", Misformed("S3_ENDPOINT"))>>

FormatChecks ==
    LET Format(v) == Check(v, Misformed(v))
    IN  <<Format("WEB_WORKLOAD"), Format("DB_WORKLOAD"), Format("MISSKEY_BASE_URL"),
          Format("S3_ENDPOINT")>>

TimeChecks ==
    LET Positive(v) == Check(v, TimeRefused(v))
    IN  <<Positive(Analyze), Positive("MISSKEY_GTL_REQUEST_TIMEOUT_SECONDS"),
          Positive("MISSKEY_GTL_RETRY_INTERVAL_SECONDS"),
          Positive("MISSKEY_GTL_RETRY_TIMEOUT_SECONDS"),
          Check(Analyze, AnalyzeTooLong)>>

\* Every check in the order of the code, with the setting its message names.
RestoreChecks == PresenceChecks \o FormatChecks \o TimeChecks

Passes(checks) == \A i \in DOMAIN checks : ~checks[i].fails

\* The check that ends a load; meant for checks that do not all pass.
FirstFailing(checks) ==
    CHOOSE i \in DOMAIN checks :
        checks[i].fails /\ \A j \in 1..(i - 1) : ~checks[j].fails

RestoreLoads == Passes(PresenceChecks) /\ Passes(FormatChecks) /\ Passes(TimeChecks)

\* What Analyze puts into its session, in milliseconds.
AnalyzeTimeout == IF Duration(Analyze) <= 0 THEN Default[Analyze] ELSE Duration(Analyze)
StatementTimeout == Milliseconds(AnalyzeTimeout)
LockTimeout == Milliseconds(IF AnalyzeTimeout < LockLimit THEN AnalyzeTimeout ELSE LockLimit)

-----------------------------------------------------------------------------
(* LoadBackupFromEnv.  Nothing is trimmed, so space around a port is       *)
(* malformed, and a blank password is a password.                          *)

\* url.Parse takes white space in a path, and nowhere before it.
BackupEndpointAccepted == text["S3_ENDPOINT"] \in {"unset", "plain", "trailed"}

BackupChecks ==
    [i \in 1..Len(BackupRequired) |-> Check(BackupRequired[i], text[BackupRequired[i]] = "unset")]
    \o <<Check("DB_PORT", text["DB_PORT"] # "plain"),
         Check("S3_ENDPOINT", ~BackupEndpointAccepted)>>

BackupLoads == Passes(BackupChecks)

-----------------------------------------------------------------------------
(* Correctness.                                                            *)

\* A timeout that is accepted is the one that was asked for: no number of seconds
\* wraps around in nanoseconds, and ANALYZE gets a limit PostgreSQL takes, neither
\* too large for it nor 0, which would switch the limit off (positiveSecondsFromEnv).
TimeoutsAsGiven ==
    RestoreLoads =>
        /\ \A v \in TimeVars :
             time[v].kind = "number" => Duration(v) = time[v].n * Second
        /\ StatementTimeout \in 1..MaxInt32
        /\ LockTimeout \in 1..StatementTimeout

LeadsOn(checks, later) ==
    ~Passes(checks) =>
        LET at == FirstFailing(checks)
        IN  Edits' = Edits \ {checks[at].var} => Passes(later) \/ FirstFailing(later) > at

\* Whoever repairs the setting a message names gets further: no message of either
\* command sends the operator to a setting that is fine, so repairing ends (the order
\* of LoadFromEnv and LoadBackupFromEnv).
MessageLeadsOn ==
    [][LeadsOn(RestoreChecks, RestoreChecks') /\ LeadsOn(BackupChecks, BackupChecks')]_vars
=============================================================================
