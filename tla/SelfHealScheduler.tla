-------------------------- MODULE SelfHealScheduler --------------------------
(***************************************************************************)
(* The self-heal scheduler thread (selfheal/scheduler.py), the files it    *)
(* reads and writes (its state, the daily digests of selfheal/scan.py) and *)
(* a manual daily scan (api/routes/selfheal.py) that rewrites a digest     *)
(* while the thread works.  The clock runs on while a hook does; the       *)
(* process can die between any two steps, and Path.write_text is two       *)
(* steps: the file is truncated, then written.                             *)
(***************************************************************************)
EXTENDS Integers, FiniteSets

CONSTANTS
    WeekLen,      \* days in a week (7 in the code)
    WeeklyDay,    \* self_heal_weekly_day, counted from 0 = Monday
    MaxDay,       \* bound: the last day of the model's calendar
    MaxCrashes,   \* bound: number of times the server process dies
    SaveFails,    \* TRUE: SchedulerState.save can raise OSError
    ManualScans,  \* TRUE: POST /api/selfheal/scan is used
    NoDay, NoWeek, \* None
    Torn          \* what a state file cut short holds

ASSUME CalendarAssumption ==
    /\ WeekLen \in Nat \ {0} /\ WeeklyDay \in 0..(WeekLen - 1)
    /\ MaxDay \in Nat /\ MaxDay >= WeekLen
    /\ MaxCrashes \in Nat
    /\ SaveFails \in BOOLEAN /\ ManualScans \in BOOLEAN
    /\ NoDay \notin Nat /\ NoWeek \notin Nat

\* report.py week_key, _week_days; date.isoweekday
WeekOf(d)   == d \div WeekLen
WeekDays(w) == {d \in 0..MaxDay : WeekOf(d) = w}
Weekday(d)  == d % WeekLen

Days  == 0..MaxDay
Weeks == 0..WeekOf(MaxDay)

VARIABLES
    \* the world
    day, late,    \* the date, and whether self_heal_daily_hour is reached
    polled,       \* a tick began since day or late last changed
    up, crashes,
    \* the scheduler thread
    mem,          \* SchedulerState in memory: [daily, weekly]
    tpc,          \* where the thread is in tick()
    tDay, tWeek,  \* tick's locals: yesterday; the target week, if it is the day
    found,        \* what consolidate_week returned: "none", "empty", "full"
    \* the disk
    disk,         \* scheduler_state.json: a state, or Torn
    digest,       \* day -> "none", "blank" (truncated), "torn" or "ok"
    manual,       \* the day a manual scan is writing, or NoDay
    \* history
    dailyRuns,    \* day -> number of times its daily hook was started
    weeklyRuns,   \* week -> number of times its weekly hook was started
    posts,        \* week -> number of escalations sent or tried
    full,         \* weeks whose report had clusters and whose hook went on
    abandoned,    \* days whose scan was decided on and never started
    lost          \* number of restarts that found the state file unreadable

clockVars  == <<day, late, polled>>
procVars   == <<up, crashes>>
tickVars   == <<tpc, tDay, tWeek, found>>
fileVars   == <<disk, digest, manual>>
historyVars == <<dailyRuns, weeklyRuns, posts, full, abandoned, lost>>
vars == <<clockVars, procVars, mem, tickVars, fileVars, historyVars>>

Fresh == [daily |-> NoDay, weekly |-> NoWeek]
State == [daily : Days \cup {NoDay}, weekly : Weeks \cup {NoWeek}]

ASSUME TornAssumption == Torn \notin State

TPc == {"idle", "saveDaily", "writeDaily", "scan", "writeDigest", "weekly",
        "saveWeekly", "writeWeekly", "consolidate", "wave", "outcomes", "escalate"}

TypeOK ==
    /\ day \in Days /\ late \in BOOLEAN /\ polled \in BOOLEAN
    /\ up \in BOOLEAN /\ crashes \in 0..MaxCrashes
    /\ mem \in State /\ disk \in State \cup {Torn}
    /\ tpc \in TPc /\ tDay \in Days \cup {NoDay} /\ tWeek \in Weeks \cup {NoWeek}
    /\ found \in {"none", "empty", "full"}
    /\ digest \in [Days -> {"none", "blank", "torn", "ok"}]
    /\ manual \in Days \cup {NoDay}
    /\ dailyRuns \in [Days -> Nat] /\ weeklyRuns \in [Weeks -> Nat]
    /\ posts \in [Weeks -> Nat] /\ full \subseteq Weeks
    /\ abandoned \subseteq Days /\ lost \in Nat

\* A fresh install, on the first day of week 1
Init ==
    /\ day = WeekLen /\ late = FALSE /\ polled = FALSE
    /\ up = TRUE /\ crashes = 0
    /\ mem = Fresh /\ disk = Fresh
    /\ tpc = "idle" /\ tDay = NoDay /\ tWeek = NoWeek /\ found = "none"
    /\ digest = [d \in Days |-> "none"] /\ manual = NoDay
    /\ dailyRuns = [d \in Days |-> 0] /\ weeklyRuns = [w \in Weeks |-> 0]
    /\ posts = [w \in Weeks |-> 0] /\ full = {} /\ abandoned = {} /\ lost = 0
-----------------------------------------------------------------------------
(* The clock.  An idle thread polls every _POLL_SECONDS, so it ticks at    *)
(* least once before the hour and once after it, each day.                 *)

Polls == up /\ tpc = "idle" => polled

HourReached ==
    /\ ~late /\ Polls
    /\ late' = TRUE /\ polled' = FALSE
    /\ UNCHANGED <<day, procVars, mem, tickVars, fileVars, historyVars>>

Midnight ==
    /\ late /\ Polls /\ day < MaxDay
    /\ day' = day + 1 /\ late' = FALSE /\ polled' = FALSE
    /\ UNCHANGED <<procVars, mem, tickVars, fileVars, historyVars>>
-----------------------------------------------------------------------------
(* tick                                                                    *)

Yesterday  == day - 1

\* Mutants: the report of the week that has begun; a week ahead
TargetWeekCurrent == WeekOf(day)
TargetWeek == WeekOf(day - WeekLen)

\* Mutant: on the weekly day the tick fires the weekly job or the daily one
TickEither ==
    /\ up /\ tpc = "idle"
    /\ polled' = TRUE
    /\ IF ~late
       THEN UNCHANGED <<mem, tpc, tDay, tWeek>>
       ELSE /\ tDay' = Yesterday
            /\ tWeek' = IF Weekday(day) = WeeklyDay THEN TargetWeek ELSE NoWeek
            /\ IF /\ mem.daily # Yesterday
                  /\ Weekday(day) = WeeklyDay => mem.weekly = TargetWeek
               THEN tpc' = "saveDaily" /\ mem' = [mem EXCEPT !.daily = Yesterday]
               ELSE tpc' = "weekly" /\ UNCHANGED mem
    /\ UNCHANGED <<day, late, procVars, found, fileVars, historyVars>>

\* now_fn() is read once: the tick goes on with this date however long its
\* daily hook takes.
Tick ==
    /\ up /\ tpc = "idle"
    /\ polled' = TRUE
    /\ IF ~late
       THEN UNCHANGED <<mem, tpc, tDay, tWeek>>
       ELSE /\ tDay' = Yesterday
            /\ tWeek' = IF Weekday(day) = WeeklyDay THEN TargetWeek ELSE NoWeek
            /\ IF mem.daily # Yesterday
               THEN tpc' = "saveDaily" /\ mem' = [mem EXCEPT !.daily = Yesterday]
               ELSE tpc' = "weekly" /\ UNCHANGED mem
    /\ UNCHANGED <<day, late, procVars, found, fileVars, historyVars>>

\* The weekly half of tick
WeeklyDue ==
    /\ tpc = "weekly"
    /\ IF tWeek # NoWeek /\ mem.weekly # tWeek
       THEN tpc' = "saveWeekly" /\ mem' = [mem EXCEPT !.weekly = tWeek]
       ELSE tpc' = "idle" /\ UNCHANGED mem
    /\ UNCHANGED <<clockVars, procVars, tDay, tWeek, found, fileVars, historyVars>>

\* Mutant: the hook is called while the file is being written
TruncateStateAndGo ==
    /\ tpc \in {"saveDaily", "saveWeekly"}
    /\ disk' = Torn
    /\ tpc' = IF tpc = "saveDaily" THEN "scan" ELSE "consolidate"
    /\ UNCHANGED <<clockVars, procVars, mem, tDay, tWeek, found, digest, manual, historyVars>>

\* SchedulerState.save: truncate, then write
TruncateState ==
    /\ tpc \in {"saveDaily", "saveWeekly"}
    /\ disk' = Torn
    /\ tpc' = IF tpc = "saveDaily" THEN "writeDaily" ELSE "writeWeekly"
    /\ UNCHANGED <<clockVars, procVars, mem, tDay, tWeek, found, digest, manual, historyVars>>

WriteState ==
    /\ tpc \in {"writeDaily", "writeWeekly"}
    /\ disk' = mem
    /\ tpc' = IF tpc = "writeDaily" THEN "scan" ELSE "consolidate"
    /\ UNCHANGED <<clockVars, procVars, mem, tDay, tWeek, found, digest, manual, historyVars>>

\* save raises, outside the hook's try: tick raises and _loop logs it
SaveRaises ==
    /\ SaveFails
    /\ tpc \in {"saveDaily", "writeDaily", "saveWeekly", "writeWeekly"}
    /\ tpc' = "idle"
    /\ abandoned' = IF tpc \in {"saveDaily", "writeDaily"}
                    THEN abandoned \cup {tDay} ELSE abandoned
    /\ UNCHANGED <<clockVars, procVars, mem, tDay, tWeek, found, fileVars,
                   dailyRuns, weeklyRuns, posts, full, lost>>
-----------------------------------------------------------------------------
(* The daily hook: scan_day(yesterday).                                    *)

\* _fire_daily calls the hook; scan_day raises before it writes, or truncates
\* the digest
Scan ==
    /\ tpc = "scan"
    /\ dailyRuns' = [dailyRuns EXCEPT ![tDay] = @ + 1]
    /\ \/ tpc' = "weekly" /\ UNCHANGED digest
       \/ tpc' = "writeDigest" /\ digest' = [digest EXCEPT ![tDay] = "blank"]
    /\ UNCHANGED <<clockVars, procVars, mem, tDay, tWeek, found, disk, manual,
                   weeklyRuns, posts, full, abandoned, lost>>

\* What is left of a digest whose write was cut short: nothing, half a line, or
\* whole lines, which read like a digest with fewer clusters
Fragments == {"blank", "torn", "ok"}

\* _write_digest, whole or cut short by an OSError
WriteDigest ==
    /\ tpc = "writeDigest"
    /\ \E left \in Fragments : digest' = [digest EXCEPT ![tDay] = left]
    /\ tpc' = "weekly"
    /\ UNCHANGED <<clockVars, procVars, mem, tDay, tWeek, found, disk, manual, historyVars>>

\* POST /api/selfheal/scan, kind daily: another thread rewrites a digest
ManualScan ==
    /\ ManualScans /\ up /\ manual = NoDay
    /\ \E d \in 0..Yesterday :
          manual' = d /\ digest' = [digest EXCEPT ![d] = "blank"]
    /\ UNCHANGED <<clockVars, procVars, mem, tickVars, disk, historyVars>>

ManualWrite ==
    /\ manual # NoDay
    /\ digest' = [digest EXCEPT ![manual] = "ok"]
    /\ manual' = NoDay
    /\ UNCHANGED <<clockVars, procVars, mem, tickVars, disk, historyVars>>
-----------------------------------------------------------------------------
(* The weekly hook: _default_weekly(target_week).                          *)

\* consolidate_week: load_daily raises on a torn digest and skips the days
\* without one, a truncated file among them
Consolidate ==
    /\ tpc = "consolidate"
    /\ weeklyRuns' = [weeklyRuns EXCEPT ![tWeek] = @ + 1]
    /\ IF \E d \in WeekDays(tWeek) : digest[d] = "torn"
       THEN tpc' = "idle" /\ UNCHANGED <<found, full>>
       ELSE /\ \E f \in {"empty", "full"} :
                  /\ f = "full" => \E d \in WeekDays(tWeek) : digest[d] = "ok"
                  /\ found' = f
                  /\ full' = IF f = "full" THEN full \cup {tWeek} ELSE full
            /\ tpc' = "wave"
    /\ UNCHANGED <<clockVars, procVars, mem, tDay, tWeek, fileVars,
                   dailyRuns, posts, abandoned, lost>>

\* Mutant: a fix wave that raises ends the hook
FixWaveOrNothing ==
    /\ tpc = "wave" /\ tpc' \in {"outcomes", "idle"}
    /\ UNCHANGED <<clockVars, procVars, mem, tDay, tWeek, found, fileVars, historyVars>>

\* run_fix_wave ends, or raises and is logged; then write_outcomes, likewise
FixWave ==
    /\ tpc = "wave" /\ tpc' = "outcomes"
    /\ UNCHANGED <<clockVars, procVars, mem, tDay, tWeek, found, fileVars, historyVars>>

WriteOutcomes ==
    /\ tpc = "outcomes"
    /\ tpc' = IF found = "full" THEN "escalate" ELSE "idle"
    /\ UNCHANGED <<clockVars, procVars, mem, tDay, tWeek, found, fileVars, historyVars>>

\* One Slack post; a notifier that fails is logged
Escalate ==
    /\ tpc = "escalate"
    /\ posts' = [posts EXCEPT ![tWeek] = @ + 1]
    /\ tpc' = "idle"
    /\ UNCHANGED <<clockVars, procVars, mem, tDay, tWeek, found, fileVars,
                   dailyRuns, weeklyRuns, full, abandoned, lost>>
-----------------------------------------------------------------------------
(* The process dies and comes back.                                        *)

\* A digest that was being written is cut short; the week whose hook was running
\* is never heard of again
Crash ==
    /\ up /\ crashes < MaxCrashes
    /\ up' = FALSE /\ crashes' = crashes + 1
    /\ LET writing == (IF tpc = "writeDigest" THEN {tDay} ELSE {}) \cup
                      (IF manual # NoDay THEN {manual} ELSE {})
       IN  \E cut \in [writing -> Fragments] :
             digest' = [d \in Days |-> IF d \in writing THEN cut[d] ELSE digest[d]]
    /\ full' = IF tpc \in {"wave", "outcomes", "escalate"} THEN full \ {tWeek} ELSE full
    /\ abandoned' = IF tpc = "scan" THEN abandoned \cup {tDay} ELSE abandoned
    /\ tpc' = "idle" /\ mem' = Fresh /\ manual' = NoDay
    /\ UNCHANGED <<clockVars, tDay, tWeek, found, disk, dailyRuns, weeklyRuns,
                   posts, lost>>

\* Mutant: the state file is not read back
RestartForgets ==
    /\ ~up
    /\ up' = TRUE /\ polled' = FALSE
    /\ mem' = Fresh
    /\ lost' = IF disk = Torn THEN lost + 1 ELSE lost
    /\ UNCHANGED <<day, late, crashes, tickVars, fileVars, dailyRuns, weeklyRuns,
                   posts, full, abandoned>>

\* create_app: SelfHealScheduler(...).start(), which ticks at once
Restart ==
    /\ ~up
    /\ up' = TRUE /\ polled' = FALSE
    /\ mem' = IF disk = Torn THEN Fresh ELSE disk
    /\ lost' = IF disk = Torn THEN lost + 1 ELSE lost
    /\ UNCHANGED <<day, late, crashes, tickVars, fileVars, dailyRuns, weeklyRuns,
                   posts, full, abandoned>>

Thread == \/ Tick \/ WeeklyDue \/ TruncateState \/ WriteState \/ SaveRaises
          \/ Scan \/ WriteDigest \/ Consolidate \/ FixWave \/ WriteOutcomes
          \/ Escalate

Next == \/ HourReached \/ Midnight \/ Thread \/ ManualScan \/ ManualWrite
        \/ Crash \/ Restart

Spec == Init /\ [][Next]_vars
-----------------------------------------------------------------------------
(*                               Properties                                *)

\* Nothing fires twice.  The scan of a day is started at most once for each
\* state file there was: a crash or an exception in the hook never makes it fire
\* again, only the loss of the state file does (tick saves before it fires).  No
\* week is consolidated, sent through a fix wave or posted to Slack twice, not
\* even when the state file is lost: its day comes once, and on that day the daily
\* save has already been made when the weekly hook runs (tick).
FiresOnce ==
    /\ \A d \in Days : dailyRuns[d] <= 1 + lost
    /\ \A w \in Weeks : weeklyRuns[w] <= 1 /\ posts[w] <= 1

\* A week is consolidated after the last scan the scheduler makes of one of its
\* days, whatever day is configured: the daily job comes first in a tick, and
\* the target is the week of seven days ago.
NoScanAfterReport ==
    [][\A d \in Days :
          dailyRuns'[d] > dailyRuns[d] => weeklyRuns[WeekOf(d)] = 0]_vars

\* What runs is on disk: while a hook runs, the decision to run it is durable
\* (_fire_daily, _fire_weekly save first).
DecisionDurable ==
    /\ tpc \in {"scan", "writeDigest"} => disk # Torn /\ disk.daily = tDay
    /\ tpc \in {"consolidate", "wave", "outcomes", "escalate"} =>
          disk # Torn /\ disk.weekly = tWeek

\* Once an idle scheduler has ticked after the hour, the scan of yesterday was
\* started, whatever days it missed before: it is given up only when the save
\* raised, or when the process died between the save and the hook (tick,
\* _fire_daily).
YesterdayCaughtUp ==
    (up /\ late /\ polled /\ tpc = "idle")
        => dailyRuns[Yesterday] >= 1 \/ Yesterday \in abandoned

\* Whatever happens to the fix wave and to the outcomes file, a week whose
\* report has clusters is posted, unless the process dies first.
ReportedWeeksPosted ==
    \A w \in full :
        posts[w] = 1 \/ (tpc \in {"wave", "outcomes", "escalate"} /\ tWeek = w)

\* From the weekly day on, the last complete week was consolidated: ADR-0009
\* has a missed period "caught up exactly once (yesterday for the daily job;
\* the last complete ISO week for the weekly job)".
LastWeekCaughtUp ==
    (up /\ late /\ polled /\ tpc = "idle" /\ Weekday(day) >= WeeklyDay)
        => weeklyRuns[TargetWeek] >= 1
=============================================================================
