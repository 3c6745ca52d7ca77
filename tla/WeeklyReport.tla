---------------------------- MODULE WeeklyReport ----------------------------
(***************************************************************************)
(* What the self-heal loop counts: the selflog writer                      *)
(* (selfheal/selflog.py), the mining of one day (selfheal/scan.py and      *)
(* detection/clustering.py) and the ranking of one week                    *)
(* (selfheal/report.py).  When scans and consolidations run is up to       *)
(* SelfHealScheduler; here they may run at any time, as the manual routes  *)
(* allow, while runs and log writers go on.                                *)
(*                                                                         *)
(* A failure is the fingerprint of a candidate event, a number, and a file *)
(* is how often each failure is in it.                                     *)
(***************************************************************************)
EXTENDS Integers, FiniteSets, Functions

CONSTANTS
    LogFailures, RunFailures,
                 \* fingerprints, compared as numbers: that of a log record is
                 \* never that of a run's event, for the service is part of it
    Class,       \* failure -> the class of its representative message
    Errors,      \* failures that are events of type error, which is terminal
    Runs,        \* each stands for runs of one day that share their fate
    Loggers,     \* threads that log
    Retention,   \* self_heal_retention_days
    TopN, FixN,  \* arguments of consolidate_week
    WeekLength,  \* days of a week
    MaxDay,      \* bound: days that pass
    MaxEvents,   \* bound: times that candidate events happen
    Bursts       \* bound: how many such events happen at a time in runs

Failures == LogFailures \cup RunFailures
Classes == {"quality", "ops", "handled_upstream", "by_design"}

ASSUME ReportAssumption ==
    /\ Failures \subseteq Nat /\ LogFailures \cap RunFailures = {} /\ IsFiniteSet(Failures)
    /\ Errors \subseteq RunFailures /\ IsFiniteSet(Runs)
    /\ Class \in [Failures -> Classes]
    /\ Retention \in Nat \ {0} /\ TopN \in Nat /\ FixN \in 0..TopN
    /\ WeekLength \in Nat \ {0} /\ MaxDay \in Nat \ {0} /\ MaxEvents \in Nat
    /\ Bursts \subseteq Nat

VARIABLES
    today, happened,
    selflog,  \* day -> what its file holds
    written,  \* history: day -> what was ever appended for it
    writer,   \* per thread: what it writes once it has the lock, or Idle
    lastDay,  \* SelfLogWriter._last_day, 0 for None
    runs,     \* run -> its event file
    digest,   \* day -> the clusters of its digest, or NoDigest
    unseen,   \* history: days whose files changed since they were mined, or
              \* were mined after their log had been pruned
    report    \* week -> its report, or NoReport

vars == <<today, happened, selflog, written, writer, lastDay, runs, digest, unseen, report>>

Days == 1..MaxDay
Weeks == {d \div WeekLength : d \in Days}
WeekDays(w) == {d \in Days : d \div WeekLength = w}
Counts == [Failures -> Nat]
None == [f \in Failures |-> 0]
Idle == [day |-> 0]
NoRun == [day |-> 0]
NoDigest == [scanned |-> FALSE]
NoReport == [written |-> FALSE]

\* The file of a run: the day of its first event, whether it is a run of a fix
\* wave, whether it has a terminal event, whether one is its last line
RunFiles == [day : Days, self : BOOLEAN, ended : BOOLEAN, endsLast : BOOLEAN,
             events : Counts]
Reports == [written : {TRUE}, toFix : SUBSET Failures, reportOnly : SUBSET Failures,
            count : Counts, truth : Counts, complete : BOOLEAN]

TypeOK ==
    /\ today \in Days /\ happened \in 0..MaxEvents
    /\ selflog \in [Days -> Counts] /\ written \in [Days -> Counts]
    /\ writer \in [Loggers -> {Idle} \cup [day : Days, failure : LogFailures]]
    /\ lastDay \in {0} \cup Days
    /\ runs \in [Runs -> {NoRun} \cup RunFiles]
    /\ digest \in [Days -> {NoDigest} \cup [scanned : {TRUE}, count : Counts]]
    /\ unseen \subseteq Days
    /\ report \in [Weeks -> {NoReport} \cup Reports]

Init ==
    /\ today = 1 /\ happened = 0
    /\ selflog = [d \in Days |-> None] /\ written = [d \in Days |-> None]
    /\ writer = [t \in Loggers |-> Idle] /\ lastDay = 0
    /\ runs = [r \in Runs |-> NoRun]
    /\ digest = [d \in Days |-> NoDigest] /\ unseen = {}
    /\ report = [w \in Weeks |-> NoReport]

Add(f, counts) == [counts EXCEPT ![f] = @ + 1]
-----------------------------------------------------------------------------
(* SelfLogWriter._write: the day is taken before the lock                  *)

LogError(t, f) ==
    /\ writer[t] = Idle /\ happened < MaxEvents
    /\ happened' = happened + 1
    /\ writer' = [writer EXCEPT ![t] = [day |-> today, failure |-> f]]
    /\ UNCHANGED <<today, selflog, written, lastDay, runs, digest, unseen, report>>

\* Mutant: the cutoff is taken from the end of the day
PrunedToo(files, day) ==
    [d \in Days |-> IF d <= day - Retention THEN None ELSE files[d]]

\* _prune: files older than the retention go
Pruned(files, day) ==
    [d \in Days |-> IF d < day - Retention THEN None ELSE files[d]]

\* A write that fails is swallowed, and the record is lost
AppendLog(t) ==
    /\ writer[t] # Idle /\ writer' = [writer EXCEPT ![t] = Idle]
    /\ \/ LET day == writer[t].day
              appended == [selflog EXCEPT ![day] = Add(writer[t].failure, @)]
          IN  /\ selflog' = IF day = lastDay THEN appended ELSE Pruned(appended, day)
              /\ written' = [written EXCEPT ![day] = Add(writer[t].failure, @)]
              /\ lastDay' = day /\ unseen' = unseen \cup {day}
       \/ UNCHANGED <<selflog, written, lastDay, unseen>>
    /\ UNCHANGED <<today, happened, runs, digest, report>>

\* The process comes back with a new SelfLogWriter
Restart ==
    /\ lastDay # 0 /\ lastDay' = 0 /\ writer' = [t \in Loggers |-> Idle]
    /\ UNCHANGED <<today, happened, selflog, written, runs, digest, unseen, report>>
-----------------------------------------------------------------------------
(* The runs whose files are mined                                          *)

StartRun(r) ==
    /\ runs[r] = NoRun
    /\ \E self \in BOOLEAN :
          runs' = [runs EXCEPT ![r] = [day |-> today, self |-> self, ended |-> FALSE,
                                       endsLast |-> FALSE, events |-> None]]
    /\ UNCHANGED <<today, happened, selflog, written, writer, lastDay, digest, unseen, report>>

\* An error, an investigation without confidence, a verdict repro_broken: of
\* the run itself or of its verification, which appends after the end
RunFails(r, f) ==
    /\ runs[r] # NoRun /\ happened < MaxEvents
    /\ happened' = happened + 1
    /\ \E n \in Bursts :
          runs' = [runs EXCEPT ![r].events[f] = @ + n, ![r].ended = @ \/ f \in Errors,
                               ![r].endsLast = f \in Errors]
    /\ unseen' = unseen \cup {runs[r].day}
    /\ UNCHANGED <<today, selflog, written, writer, lastDay, digest, report>>

\* The run ends, or the sweep of a later start ends it
EndRun(r) ==
    /\ runs[r] # NoRun /\ ~runs[r].ended
    /\ runs' = [runs EXCEPT ![r].ended = TRUE, ![r].endsLast = TRUE]
    /\ unseen' = unseen \cup {runs[r].day}
    /\ UNCHANGED <<today, happened, selflog, written, writer, lastDay, digest, report>>

NextDay ==
    /\ today < MaxDay /\ today' = today + 1
    /\ UNCHANGED <<happened, selflog, written, writer, lastDay, runs, digest, unseen, report>>
-----------------------------------------------------------------------------
(* scan_day                                                                *)

\* Mutant: a run is finished when its last line says so
MinedIfEndsLast(day) ==
    {r \in Runs : runs[r] # NoRun /\ runs[r].day = day /\ ~runs[r].self /\ runs[r].endsLast}

\* _run_candidates: the runs of the day that are not the loop's own and have a
\* terminal event anywhere
Mined(day) ==
    {r \in Runs : runs[r] # NoRun /\ runs[r].day = day /\ ~runs[r].self /\ runs[r].ended}

\* cluster_events: one cluster for each fingerprint
Clusters(day, files) ==
    [f \in Failures |-> files[day][f] + SumFunction([r \in Mined(day) |-> runs[r].events[f]])]

Scan(day) ==
    /\ day <= today
    /\ digest' = [digest EXCEPT ![day] = [scanned |-> TRUE, count |-> Clusters(day, selflog)]]
    /\ unseen' = IF selflog[day] = written[day] THEN unseen \ {day} ELSE unseen \cup {day}
    /\ UNCHANGED <<today, happened, selflog, written, writer, lastDay, runs, report>>
-----------------------------------------------------------------------------
(* consolidate_week                                                        *)

\* SEVERITY_WEIGHTS, in twentieths
Weight == [quality |-> 60, ops |-> 20, handled_upstream |-> 5, by_design |-> 1]

\* The days whose digest exists; load_daily skips the others
Loaded(w) == {d \in WeekDays(w) : digest[d] # NoDigest}

\* _Merged.absorb
Merged(w) == [f \in Failures |-> SumFunction([d \in Loaded(w) |-> digest[d].count[f]])]

\* The order of _rank
Outranks(count, f, g) ==
    LET Score(h) == count[h] * Weight[Class[h]]
    IN  \/ Score(f) > Score(g)
        \/ Score(f) = Score(g) /\ count[f] > count[g]
        \/ Score(f) = Score(g) /\ count[f] = count[g] /\ f > g

\* The first n of S in that order
First(n, count, S) ==
    {f \in S : Cardinality({g \in S : Outranks(count, g, f)}) < n}

Top(count) == First(TopN, count, {f \in Failures : count[f] > 0})

Fixable == {f \in Failures : Class[f] # "by_design"}

ToFix(count) == First(FixN, count, Top(count) \cap Fixable)

\* The runs of the week that have ended and are not the loop's own
WeekRuns(w) ==
    {r \in Runs : runs[r] # NoRun /\ runs[r].day \in WeekDays(w) /\ ~runs[r].self /\ runs[r].ended}

\* Every candidate of the week that was written to a file
Truth(w) ==
    [f \in Failures |-> SumFunction([d \in WeekDays(w) |-> written[d][f]])
                        + SumFunction([r \in WeekRuns(w) |-> runs[r].events[f]])]

Consolidate(w) ==
    /\ LET count == Merged(w)
       IN  report' = [report EXCEPT ![w] =
              [written |-> TRUE, toFix |-> ToFix(count),
               reportOnly |-> Top(count) \ ToFix(count), count |-> count,
               truth |-> Truth(w), complete |-> WeekDays(w) \cap unseen = {}]]
    /\ UNCHANGED <<today, happened, selflog, written, writer, lastDay, runs, digest, unseen>>
-----------------------------------------------------------------------------
Next == \/ (\E t \in Loggers : AppendLog(t) \/ \E f \in LogFailures : LogError(t, f))
        \/ Restart
        \/ (\E r \in Runs : StartRun(r) \/ EndRun(r) \/ \E f \in RunFailures : RunFails(r, f))
        \/ NextDay \/ (\E d \in Days : Scan(d)) \/ (\E w \in Weeks : Consolidate(w))

Spec == Init /\ [][Next]_vars
-----------------------------------------------------------------------------
(*                               Properties                                *)

CountsTrue(r) ==
    \A f \in Failures :
        /\ r.count[f] <= r.truth[f]
        /\ r.complete => r.count[f] = r.truth[f]

FixesOutrank(r) ==
    LET rest == r.reportOnly \cap Fixable
    IN  /\ r.toFix \subseteq Fixable
        /\ \A f \in r.toFix, g \in rest : Outranks(r.count, f, g)
        /\ Cardinality(r.toFix) = FixN \/ rest = {}

\* A report is true.  A candidate is never counted twice over the days of a week,
\* nor at all for a run of the loop itself; a week whose files were all mined in
\* time misses none, whatever was appended after a run's end and however often a
\* day was scanned (_run_candidates).  And what the wave is given to fix is never
\* by design and outranks what else could be fixed; it is cut short only when
\* nothing else that is reported could be fixed (consolidate_week).
ReportHonest ==
    \A w \in Weeks : report[w] # NoReport => CountsTrue(report[w]) /\ FixesOutrank(report[w])

\* The log of a day can still be mined on the following one: no file younger
\* than the retention loses a record, although a writer may have taken its day
\* before midnight and a restart prunes again (_write, _prune).
RecentLogsKept ==
    \A d \in Days : d >= today - Retention => selflog[d] = written[d]
=============================================================================
