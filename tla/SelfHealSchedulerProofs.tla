----------------------- MODULE SelfHealSchedulerProofs -----------------------
(***************************************************************************)
(* The scheduler's promises for weeks of any length, any weekly day, any   *)
(* number of days, crashes and lost state files.                           *)
(***************************************************************************)
EXTENDS SelfHealScheduler, TLAPS

-----------------------------------------------------------------------------
(* Arithmetic of weeks                                                     *)

LEMMA Scale ==
    ASSUME NEW k \in Nat, NEW a \in Int, NEW b \in Int, a <= b
    PROVE  k * a <= k * b
<1>1. k * (b - a) >= 0
    OBVIOUS
<1>2. QED  BY <1>1

LEMMA DivMod ==
    ASSUME NEW k \in Nat \ {0}, NEW a \in Nat
    PROVE  a \div k \in Nat /\ a % k \in 0..(k - 1) /\ a = k * (a \div k) + (a % k)
<1>1. a % k \in 0..(k - 1) /\ a \div k \in Int
    OBVIOUS
<1>2. a = k * (a \div k) + (a % k)
    OBVIOUS
<1>3. a \div k >= 0
  <2> DEFINE q == a \div k
             r == a % k
  <2>1. q \in Int /\ r \in 0..(k - 1) /\ a = k * q + r
      BY <1>1, <1>2
  <2> HIDE DEF q, r
  <2>2. ASSUME q <= -1 PROVE FALSE
    <3>1. k * q <= k * (-1)
        BY <2>1, <2>2, Scale
    <3>2. QED  BY <2>1, <3>1
  <2>3. q >= 0
      BY <2>1, <2>2
  <2>4. QED  BY <2>3 DEF q
<1>4. QED  BY <1>1, <1>2, <1>3

LEMMA DivMonotone ==
    ASSUME NEW k \in Nat \ {0}, NEW a \in Nat, NEW b \in Nat, a <= b
    PROVE  a \div k <= b \div k
<1> DEFINE p == a \div k
           q == b \div k
           r == a % k
           s == b % k
<1>1. p \in Nat /\ q \in Nat /\ r \in 0..(k - 1) /\ s \in 0..(k - 1) /\ a = k * p + r /\ b = k * q + s
    BY DivMod
<1> HIDE DEF p, q, r, s
<1>2. ASSUME q + 1 <= p PROVE FALSE
  <2>1. k * (q + 1) <= k * p
      BY <1>1, <1>2, Scale
  <2>2. k * (q + 1) = k * q + k /\ k * q \in Nat /\ k * p \in Nat
      BY <1>1
  <2>3. QED  BY <1>1, <2>1, <2>2
<1>3. p <= q
    BY <1>1, <1>2
<1>4. QED  BY <1>3 DEF p, q

\* A quotient and a remainder determine a number
LEMMA QuotientUnique ==
    ASSUME NEW k \in Nat \ {0}, NEW p \in Nat, NEW q \in Nat,
           NEW r \in 0..(k - 1), NEW s \in 0..(k - 1), k * p + r = k * q + s
    PROVE  p = q /\ r = s
<1>1. k * p \in Nat /\ k * q \in Nat
    OBVIOUS
<1>2. ASSUME NEW x \in Nat, NEW y \in Nat, NEW u \in 0..(k - 1), NEW v \in 0..(k - 1),
             k * x + u = k * y + v, x + 1 <= y
      PROVE  FALSE
  <2>1. k * (x + 1) <= k * y
      BY <1>2, Scale
  <2>2. k * (x + 1) = k * x + k /\ k * x \in Nat /\ k * y \in Nat
      OBVIOUS
  <2>3. QED  BY <1>2, <2>1, <2>2
<1>3. ~(p + 1 <= q) /\ ~(q + 1 <= p)
    BY <1>2
<1>4. p = q
    BY <1>3
<1>5. QED  BY <1>1, <1>4

\* A week earlier
LEMMA WeekBefore ==
    ASSUME NEW d \in Nat, d >= WeekLen
    PROVE  WeekOf(d) = WeekOf(d - WeekLen) + 1 /\ Weekday(d) = Weekday(d - WeekLen)
<1> DEFINE k == WeekLen
           p == (d - k) \div k
           q == d \div k
           r == (d - k) % k
           s == d % k
<1>1. k \in Nat \ {0}
    BY CalendarAssumption
<1>2. p \in Nat /\ q \in Nat /\ r \in 0..(k - 1) /\ s \in 0..(k - 1) /\ d - k = k * p + r /\ d = k * q + s
  <2>1. d - k \in Nat
      BY <1>1
  <2> DEFINE e == d - k
  <2>2. e \in Nat
      BY <2>1
  <2> HIDE DEF e
  <2>3. /\ e \div k \in Nat /\ e % k \in 0..(k - 1) /\ e = k * (e \div k) + (e % k)
        /\ d \div k \in Nat /\ d % k \in 0..(k - 1) /\ d = k * (d \div k) + (d % k)
      BY <1>1, <2>2, DivMod
  <2>4. QED  BY <2>3 DEF e
<1> HIDE DEF k, p, q, r, s
<1>3. k * (p + 1) = k * p + k /\ k * p \in Nat /\ k * q \in Nat /\ p + 1 \in Nat
    BY <1>1, <1>2
<1>4. k * (p + 1) + r = k * q + s
    BY <1>1, <1>2, <1>3
<1>5. p + 1 = q /\ r = s
    BY <1>1, <1>2, <1>3, <1>4, QuotientUnique
<1>6. QED  BY <1>5 DEF k, p, q, r, s, WeekOf, Weekday

\* The days on which the report of week w is due
DateOf(w, d) ==
    d \in Days /\ d >= WeekLen /\ Weekday(d) = WeeklyDay /\ WeekOf(d - WeekLen) = w

LEMMA OneDate ==
    ASSUME NEW w, NEW d, NEW e, DateOf(w, d), DateOf(w, e)
    PROVE  d = e
<1> DEFINE x == d - WeekLen
           y == e - WeekLen
<1>1. /\ d \in Nat /\ e \in Nat /\ d >= WeekLen /\ e >= WeekLen
      /\ WeekLen \in Nat \ {0}
    BY CalendarAssumption DEF DateOf, Days
<1>2. x \in Nat /\ y \in Nat /\ x \div WeekLen = y \div WeekLen /\ x % WeekLen = y % WeekLen
  <2>1. Weekday(x) = Weekday(y)
      BY <1>1, WeekBefore DEF DateOf
  <2>2. QED  BY <1>1, <2>1 DEF DateOf, WeekOf, Weekday
<1> HIDE DEF x, y
<1>3. /\ x = WeekLen * (x \div WeekLen) + (x % WeekLen)
      /\ y = WeekLen * (y \div WeekLen) + (y % WeekLen)
    BY <1>1, <1>2, DivMod
<1>4. x = y
    BY <1>2, <1>3
<1>5. QED  BY <1>1, <1>4 DEF x, y

LEMMA WeekBack ==
    ASSUME NEW d \in Days, d >= WeekLen
    PROVE  d - WeekLen \in Days
BY CalendarAssumption DEF Days

LEMMA WeekTyped ==
    ASSUME NEW d \in Days
    PROVE  WeekOf(d) \in Weeks
<1>1. d \in Nat /\ MaxDay \in Nat /\ d <= MaxDay /\ WeekLen \in Nat \ {0}
    BY CalendarAssumption DEF Days
<1>2. WeekOf(d) \in Nat /\ WeekOf(MaxDay) \in Nat /\ WeekOf(d) <= WeekOf(MaxDay)
    BY <1>1, DivMod, DivMonotone DEF WeekOf
<1>3. QED  BY <1>2 DEF Weeks
-----------------------------------------------------------------------------
(* Types, and where the tick's locals have a value                         *)

Weekly == {"saveWeekly", "writeWeekly", "consolidate", "wave", "outcomes", "escalate"}

Typed ==
    /\ TypeOK /\ day >= WeekLen
    /\ tpc # "idle" => up /\ tDay \in Days /\ tDay < day
    /\ tpc \in Weekly => tWeek \in Weeks

LEMMA Calendar ==
    ASSUME TypeOK, day >= WeekLen
    PROVE  /\ Yesterday \in Days /\ Yesterday < day /\ day \in Nat /\ WeekLen \in Nat \ {0}
           /\ TargetWeek \in Weeks /\ day - WeekLen \in Days
<1>1. day \in 0..MaxDay /\ MaxDay \in Nat /\ WeekLen \in Nat \ {0}
    BY CalendarAssumption DEF TypeOK, Days
<1>2. Yesterday \in Days /\ Yesterday < day /\ day - WeekLen \in Days
    BY <1>1 DEF Yesterday, Days
<1>3. QED  BY <1>1, <1>2, WeekTyped DEF TargetWeek

LEMMA States ==
    /\ Fresh \in State /\ Torn \notin State
    /\ \A s \in State, d \in Days : [s EXCEPT !.daily = d] \in State
    /\ \A s \in State, w \in Weeks : [s EXCEPT !.weekly = w] \in State
BY TornAssumption DEF Fresh, State

LEMMA TypesInit == Init => Typed
<1> SUFFICES ASSUME Init PROVE Typed
    OBVIOUS
<1>1. day \in Days /\ day >= WeekLen
    BY CalendarAssumption DEF Init, Days
<1>2. crashes \in 0..MaxCrashes
    BY CalendarAssumption DEF Init
<1>3. QED  BY <1>1, <1>2, States DEF Init, Typed, TypeOK, TPc, Weekly

LEMMA TypesStep == Typed /\ [Next]_vars => Typed'
<1> SUFFICES ASSUME Typed, [Next]_vars PROVE Typed'
    OBVIOUS
<1> USE DEF Typed
<1>0. CASE UNCHANGED vars
    BY <1>0 DEF vars, clockVars, procVars, tickVars, fileVars, historyVars, TypeOK
<1>1. CASE HourReached
    BY <1>1 DEF HourReached, procVars, tickVars, fileVars, historyVars, TypeOK
<1>2. CASE Midnight
  <2>1. day' \in Days /\ day' >= WeekLen /\ day' > day
      BY <1>2, Calendar, CalendarAssumption DEF Midnight, Days, TypeOK
  <2>2. tpc' # "idle" => tDay < day'
      BY <1>2, <2>1, Calendar DEF Midnight, tickVars, Days
  <2>3. QED  BY <1>2, <2>1, <2>2 DEF Midnight, procVars, tickVars, fileVars, historyVars, TypeOK
<1>3. CASE Tick
  <2>1. mem' \in State /\ tpc' \in {"idle", "saveDaily", "weekly"}
      BY <1>3, Calendar, States DEF Tick, TypeOK
  <2>2. tDay' \in Days \cup {NoDay} /\ tWeek' \in Weeks \cup {NoWeek}
      BY <1>3, Calendar DEF Tick, TypeOK
  <2>3. tpc' # "idle" => up /\ tDay' \in Days /\ tDay' < day
      BY <1>3, Calendar DEF Tick
  <2>4. QED  BY <1>3, <2>1, <2>2, <2>3 DEF Tick, procVars, fileVars, historyVars, TypeOK, TPc, Weekly
<1>4. CASE WeeklyDue
  <2>1. mem' \in State /\ tpc' \in {"saveWeekly", "idle"} /\ (tpc' = "saveWeekly" => tWeek \in Weeks)
      BY <1>4, States DEF WeeklyDue, TypeOK
  <2>2. QED  BY <1>4, <2>1 DEF WeeklyDue, clockVars, procVars, fileVars, historyVars, TypeOK, TPc, Weekly
<1>5. CASE TruncateState
    BY <1>5 DEF TruncateState, clockVars, procVars, historyVars, TypeOK, TPc, Weekly
<1>6. CASE WriteState
    BY <1>6 DEF WriteState, clockVars, procVars, historyVars, TypeOK, TPc, Weekly
<1>7. CASE SaveRaises
  <2>1. abandoned' \subseteq Days /\ tpc' = "idle"
      BY <1>7 DEF SaveRaises, TypeOK
  <2>2. QED  BY <1>7, <2>1 DEF SaveRaises, clockVars, procVars, fileVars, TypeOK, TPc, Weekly
<1>8. CASE Scan
  <2>1. dailyRuns' \in [Days -> Nat]
      BY <1>8 DEF Scan, TypeOK
  <2>2. digest' \in [Days -> {"none", "blank", "torn", "ok"}] /\ tpc' \in {"weekly", "writeDigest"}
      BY <1>8 DEF Scan, TypeOK
  <2>3. QED  BY <1>8, <2>1, <2>2 DEF Scan, clockVars, procVars, TypeOK, TPc, Weekly
<1>9. CASE WriteDigest
  <2>1. digest' \in [Days -> {"none", "blank", "torn", "ok"}]
      BY <1>9 DEF WriteDigest, Fragments, TypeOK
  <2>2. QED  BY <1>9, <2>1 DEF WriteDigest, clockVars, procVars, historyVars, TypeOK, TPc, Weekly
<1>10. CASE ManualScan
  <2>1. 0..Yesterday \subseteq Days
    <3>1. Yesterday \in 0..MaxDay /\ MaxDay \in Nat
        BY Calendar, CalendarAssumption DEF Days
    <3>2. QED  BY <3>1 DEF Days
  <2>2. digest' \in [Days -> {"none", "blank", "torn", "ok"}] /\ manual' \in Days
      BY <1>10, <2>1 DEF ManualScan, TypeOK
  <2>3. QED  BY <1>10, <2>2 DEF ManualScan, clockVars, procVars, tickVars, historyVars, TypeOK
<1>11. CASE ManualWrite
  <2>1. digest' \in [Days -> {"none", "blank", "torn", "ok"}]
      BY <1>11 DEF ManualWrite, TypeOK
  <2>2. QED  BY <1>11, <2>1 DEF ManualWrite, clockVars, procVars, tickVars, historyVars, TypeOK
<1>12. CASE Consolidate
  <2>1. weeklyRuns' \in [Weeks -> Nat]
      BY <1>12 DEF Consolidate, Weekly, TypeOK
  <2>2. tpc' \in {"idle", "wave"} /\ full' \subseteq Weeks /\ found' \in {"none", "empty", "full"}
      BY <1>12 DEF Consolidate, TypeOK, Weekly
  <2>3. tpc = "consolidate" /\ tWeek \in Weeks
      BY <1>12 DEF Consolidate, Weekly
  <2>4. QED  BY <1>12, <2>1, <2>2, <2>3 DEF Consolidate, clockVars, procVars, fileVars, TypeOK, TPc
<1>13. CASE FixWave
    BY <1>13 DEF FixWave, clockVars, procVars, fileVars, historyVars, TypeOK, TPc, Weekly
<1>14. CASE WriteOutcomes
    BY <1>14 DEF WriteOutcomes, clockVars, procVars, fileVars, historyVars, TypeOK, TPc, Weekly
<1>15. CASE Escalate
  <2>1. posts' \in [Weeks -> Nat]
      BY <1>15 DEF Escalate, Weekly, TypeOK
  <2>2. QED  BY <1>15, <2>1 DEF Escalate, clockVars, procVars, fileVars, TypeOK, TPc, Weekly
<1>16. CASE Crash
  <2>1. digest' \in [Days -> {"none", "blank", "torn", "ok"}]
      BY <1>16 DEF Crash, Fragments, TypeOK
  <2>2. full' \subseteq Weeks /\ abandoned' \subseteq Days
      BY <1>16 DEF Crash, TypeOK
  <2>3. crashes' \in 0..MaxCrashes
      BY <1>16, CalendarAssumption DEF Crash, TypeOK
  <2>4. up' = FALSE /\ tpc' = "idle" /\ mem' = Fresh /\ manual' = NoDay
      BY <1>16 DEF Crash
  <2>5. QED  BY <1>16, <2>1, <2>2, <2>3, <2>4, States DEF Crash, clockVars, TypeOK, TPc, Weekly
<1>17. CASE Restart
  <2>1. mem' \in State /\ lost' \in Nat
      BY <1>17, States DEF Restart, TypeOK
  <2>2. QED  BY <1>17, <2>1 DEF Restart, tickVars, fileVars, TypeOK
<1>18. QED
    BY <1>0, <1>1, <1>2, <1>3, <1>4, <1>5, <1>6, <1>7, <1>8, <1>9, <1>10, <1>11, <1>12, <1>13, <1>14, <1>15,
       <1>16, <1>17 DEF Next, Thread

LEMMA Types == Spec => []Typed
<1>1. QED  BY TypesInit, TypesStep, PTL DEF Spec
-----------------------------------------------------------------------------
(* What a hook runs on is in memory from the decision on, and on disk once *)
(* the hook runs                                                           *)

Decided ==
    /\ tpc # "idle" => mem.daily = tDay
    /\ tpc \in Weekly => mem.weekly = tWeek
    /\ tpc \in {"scan", "writeDigest", "consolidate", "wave", "outcomes", "escalate"} => disk = mem

LEMMA DecidedInit == Init => Decided
BY DEF Init, Decided, Weekly

LEMMA DecidedStep == Typed /\ Decided /\ [Next]_vars => Decided'
<1> SUFFICES ASSUME Typed, Decided, [Next]_vars PROVE Decided'
    OBVIOUS
<1> USE DEF Decided, Weekly
<1>1. CASE Tick
  <2>1. mem \in State
      BY DEF Typed, TypeOK
  <2>2. tpc' # "idle" => tpc' \in {"saveDaily", "weekly"} /\ tDay' = Yesterday /\ mem'.daily = Yesterday
      BY <1>1, <2>1 DEF Tick, State
  <2>3. QED  BY <2>2
<1>2. CASE WeeklyDue
  <2>1. mem \in State
      BY DEF Typed, TypeOK
  <2>2. tpc' # "idle" => tpc' = "saveWeekly" /\ mem'.weekly = tWeek /\ mem'.daily = mem.daily
      BY <1>2, <2>1 DEF WeeklyDue, State
  <2>3. UNCHANGED <<tDay, tWeek>> /\ tpc = "weekly"
      BY <1>2 DEF WeeklyDue
  <2>4. QED  BY <2>2, <2>3
<1>3. CASE TruncateState
    BY <1>3 DEF TruncateState
<1>4. CASE WriteState
    BY <1>4 DEF WriteState
<1>5. CASE Scan \/ WriteDigest \/ SaveRaises
    BY <1>5 DEF Scan, WriteDigest, SaveRaises, fileVars
<1>6. CASE Consolidate \/ FixWave \/ WriteOutcomes \/ Escalate
    BY <1>6 DEF Consolidate, FixWave, WriteOutcomes, Escalate, fileVars
<1>7. CASE Crash
    BY <1>7 DEF Crash
<1>8. CASE Restart
    BY <1>8 DEF Restart, tickVars, Typed
<1>9. CASE HourReached \/ Midnight \/ ManualScan \/ ManualWrite \/ UNCHANGED vars
    BY <1>9 DEF HourReached, Midnight, ManualScan, ManualWrite, vars, tickVars, fileVars
<1>10. QED
    BY <1>1, <1>2, <1>3, <1>4, <1>5, <1>6, <1>7, <1>8, <1>9 DEF Next, Thread

(* DecisionDurable for every calendar: a hook never runs on a decision that *)
(* a crash would forget (_fire_daily, _fire_weekly).                        *)
THEOREM DecisionsHold == Spec => []DecisionDurable
<1>1. Typed /\ Decided => DecisionDurable
  <2>1. Typed => mem \in State
      BY DEF Typed, TypeOK
  <2>2. QED  BY <2>1, States DEF Decided, DecisionDurable, Weekly
<1>2. QED  BY <1>1, DecidedInit, DecidedStep, Types, PTL DEF Spec
-----------------------------------------------------------------------------
(* Yesterday's scan: what is remembered was started or given up, and an    *)
(* idle scheduler that has polled after the hour remembers yesterday       *)

Handled(d) == dailyRuns[d] >= 1 \/ d \in abandoned

Remembered ==
    /\ mem.daily \in Days /\ tpc \notin {"saveDaily", "writeDaily", "scan"} => Handled(mem.daily)
    /\ disk # Torn /\ disk.daily \in Days => Handled(disk.daily) \/ (tpc = "scan" /\ disk.daily = tDay)
    /\ up /\ late /\ polled => mem.daily = Yesterday

LEMMA RememberedInit == Init => Remembered
<1> SUFFICES ASSUME Init PROVE Remembered
    OBVIOUS
<1>1. NoDay \notin Days
    BY CalendarAssumption DEF Days
<1>2. QED  BY <1>1 DEF Init, Remembered, Fresh

LEMMA RememberedStep == Typed /\ Decided /\ Remembered /\ [Next]_vars => Remembered'
<1> SUFFICES ASSUME Typed, Decided, Remembered, [Next]_vars PROVE Remembered'
    OBVIOUS
<1>0. mem \in State /\ NoDay \notin Days /\ (disk \in State \/ disk = Torn) /\ Torn \notin State
    BY CalendarAssumption, TornAssumption DEF Typed, TypeOK, Days
<1>1. CASE UNCHANGED <<mem, disk, dailyRuns, abandoned, tDay, tpc, up, day, late>> /\ (polled' => polled)
    BY <1>1 DEF Remembered, Handled, Yesterday
<1>2. CASE HourReached \/ Midnight
    BY <1>2 DEF HourReached, Midnight, Remembered, Handled, procVars, tickVars, fileVars, historyVars
<1>3. CASE ManualScan \/ ManualWrite \/ UNCHANGED vars
  <2>1. UNCHANGED <<mem, disk, dailyRuns, abandoned, tDay, tpc, up, day, late, polled>>
      BY <1>3 DEF ManualScan, ManualWrite, vars, clockVars, procVars, tickVars, fileVars, historyVars
  <2>2. QED  BY <1>1, <2>1
<1>4. CASE Tick
  <2>1. UNCHANGED <<disk, dailyRuns, abandoned, up, day, late>> /\ tpc = "idle"
      BY <1>4 DEF Tick, procVars, fileVars, historyVars
  <2>2. CASE ~late
    <3>1. UNCHANGED <<mem, tpc, tDay>>
        BY <1>4, <2>2 DEF Tick
    <3>2. QED  BY <2>1, <2>2, <3>1 DEF Remembered, Handled
  <2>3. CASE late /\ mem.daily # Yesterday
    <3>1. tpc' = "saveDaily" /\ mem'.daily = Yesterday
        BY <1>0, <1>4, <2>3 DEF Tick, State
    <3>2. QED  BY <2>1, <3>1 DEF Remembered, Handled, Yesterday
  <2>4. CASE late /\ mem.daily = Yesterday
    <3>1. tpc' = "weekly" /\ UNCHANGED mem
        BY <1>4, <2>4 DEF Tick
    <3>2. QED  BY <2>1, <2>4, <3>1 DEF Remembered, Handled, Yesterday
  <2>5. QED  BY <2>2, <2>3, <2>4
<1>5. CASE WeeklyDue
  <2>1. /\ UNCHANGED <<disk, dailyRuns, abandoned, tDay, up, day, late, polled>>
        /\ tpc = "weekly" /\ tpc' \in {"saveWeekly", "idle"} /\ mem'.daily = mem.daily
      BY <1>0, <1>5 DEF WeeklyDue, clockVars, procVars, fileVars, historyVars, State
  <2>2. QED  BY <2>1 DEF Remembered, Handled, Yesterday
<1>6. CASE TruncateState
    BY <1>6 DEF TruncateState, clockVars, procVars, historyVars, Remembered, Handled, Yesterday
<1>7. CASE WriteState
  <2>1. /\ UNCHANGED <<mem, dailyRuns, abandoned, tDay, up, day, late, polled>> /\ disk' = mem
        /\ \/ tpc = "writeDaily" /\ tpc' = "scan"
           \/ tpc = "writeWeekly" /\ tpc' = "consolidate"
      BY <1>7 DEF WriteState, clockVars, procVars, historyVars
  <2>2. mem.daily = tDay
      BY <2>1 DEF Decided
  <2>3. QED  BY <2>1, <2>2 DEF Remembered, Handled, Yesterday
<1>8. CASE SaveRaises
  <2>1. /\ UNCHANGED <<mem, disk, dailyRuns, tDay, up, day, late, polled>>
        /\ tpc \in {"saveDaily", "writeDaily", "saveWeekly", "writeWeekly"} /\ tpc' = "idle"
        /\ abandoned \subseteq abandoned' /\ (tpc \in {"saveDaily", "writeDaily"} => tDay \in abandoned')
      BY <1>8 DEF SaveRaises, clockVars, procVars, fileVars
  <2>2. mem.daily = tDay
      BY <2>1 DEF Decided
  <2>3. QED  BY <2>1, <2>2 DEF Remembered, Handled, Yesterday
<1>9. CASE Scan
  <2>1. /\ UNCHANGED <<mem, disk, abandoned, tDay, up, day, late, polled>>
        /\ tpc = "scan" /\ tpc' \in {"weekly", "writeDigest"}
        /\ dailyRuns' = [dailyRuns EXCEPT ![tDay] = @ + 1]
      BY <1>9 DEF Scan, clockVars, procVars
  <2>2. mem.daily = tDay /\ tDay \in Days
      BY <2>1 DEF Decided, Typed
  <2>3. dailyRuns'[tDay] >= 1 /\ \A d \in Days : dailyRuns[d] >= 1 => dailyRuns'[d] >= 1
      BY <2>1, <2>2 DEF Typed, TypeOK
  <2>4. QED  BY <2>1, <2>2, <2>3 DEF Remembered, Handled, Yesterday
<1>10. CASE WriteDigest \/ Consolidate \/ FixWave \/ WriteOutcomes \/ Escalate
  <2>1. /\ UNCHANGED <<mem, disk, dailyRuns, abandoned, tDay, up, day, late, polled>>
        /\ tpc \notin {"saveDaily", "writeDaily", "scan"} /\ tpc' \notin {"saveDaily", "writeDaily", "scan"}
      BY <1>10 DEF WriteDigest, Consolidate, FixWave, WriteOutcomes, Escalate, clockVars, procVars,
         fileVars, historyVars
  <2>2. QED  BY <2>1 DEF Remembered, Handled, Yesterday
<1>11. CASE Crash
  <2>1. /\ UNCHANGED <<disk, dailyRuns>> /\ mem' = Fresh /\ up' = FALSE /\ tpc' = "idle"
        /\ abandoned \subseteq abandoned' /\ (tpc = "scan" => tDay \in abandoned')
      BY <1>11 DEF Crash
  <2>2. QED  BY <1>0, <2>1 DEF Remembered, Handled, Fresh
<1>12. CASE Restart
  <2>1. /\ UNCHANGED <<disk, dailyRuns, abandoned, tDay, tpc>> /\ polled' = FALSE /\ tpc = "idle"
        /\ mem' = IF disk = Torn THEN Fresh ELSE disk
      BY <1>12 DEF Restart, tickVars, fileVars, Typed
  <2>2. QED  BY <1>0, <2>1 DEF Remembered, Handled, Fresh
<1>13. QED
    BY <1>2, <1>3, <1>4, <1>5, <1>6, <1>7, <1>8, <1>9, <1>10, <1>11, <1>12 DEF Next, Thread

(* YesterdayCaughtUp for every calendar and any number of crashes and       *)
(* failed saves (tick, _fire_daily).                                        *)
THEOREM YesterdayHolds == Spec => []YesterdayCaughtUp
<1>1. Typed /\ Remembered => YesterdayCaughtUp
  <2>1. Typed => Yesterday \in Days
      BY Calendar DEF Typed
  <2>2. QED  BY <2>1 DEF Remembered, Handled, YesterdayCaughtUp
<1>2. QED  BY <1>1, DecidedInit, DecidedStep, RememberedInit, RememberedStep, Types, PTL DEF Spec
-----------------------------------------------------------------------------
(* Scans: once started, yesterday's is remembered as long as the state     *)
(* file is                                                                 *)

ScansOnce ==
    /\ \A d \in Days : dailyRuns[d] <= 1 + lost /\ (d >= day => dailyRuns[d] = 0)
    /\ tpc \in {"saveDaily", "writeDaily", "scan"} => dailyRuns[tDay] <= lost
    /\ dailyRuns[Yesterday] > lost =>
          (up => mem.daily = Yesterday) /\ (disk # Torn => disk.daily = Yesterday)

LEMMA ScansInit == Init => ScansOnce
<1> SUFFICES ASSUME Init PROVE ScansOnce
    OBVIOUS
<1>1. \A d \in Days : dailyRuns[d] = 0
    BY DEF Init
<1>2. Yesterday \in Days
    BY TypesInit, Calendar DEF Typed
<1>3. QED  BY <1>1, <1>2 DEF Init, ScansOnce

LEMMA ScansStep == Typed /\ Decided /\ ScansOnce /\ [Next]_vars => ScansOnce'
<1> SUFFICES ASSUME Typed, Decided, ScansOnce, [Next]_vars PROVE ScansOnce'
    OBVIOUS
<1>0. /\ dailyRuns \in [Days -> Nat] /\ lost \in Nat /\ Yesterday \in Days /\ day \in Nat
      /\ mem \in State /\ Torn \notin State
    BY Calendar, TornAssumption DEF Typed, TypeOK
<1>1. CASE /\ UNCHANGED <<dailyRuns, lost, day, tDay, disk>>
           /\ (up' => up /\ mem'.daily = mem.daily)
           /\ (tpc' \in {"saveDaily", "writeDaily", "scan"} => tpc \in {"saveDaily", "writeDaily", "scan"})
    BY <1>1 DEF ScansOnce, Yesterday
<1>2. CASE Midnight
  <2>1. day' = day + 1 /\ day' \in Days /\ Yesterday' = day
      BY <1>0, <1>2, Calendar, CalendarAssumption DEF Midnight, Yesterday, Days
  <2>2. UNCHANGED <<dailyRuns, lost, tDay, tpc>>
      BY <1>2 DEF Midnight, tickVars, historyVars
  <2>3. day \in Days
      BY DEF Typed, TypeOK
  <2>4. dailyRuns[day] = 0
      BY <1>0, <2>3 DEF ScansOnce
  <2>5. \A d \in Days : d \in Nat
      BY DEF Days
  <2>6. QED  BY <1>0, <2>1, <2>2, <2>4, <2>5 DEF ScansOnce
<1>3. CASE HourReached \/ ManualScan \/ ManualWrite \/ UNCHANGED vars
  <2>1. UNCHANGED <<dailyRuns, lost, day, tDay, disk, up, mem, tpc>>
      BY <1>3 DEF HourReached, ManualScan, ManualWrite, vars, clockVars, procVars, tickVars, fileVars, historyVars
  <2>2. QED  BY <1>1, <2>1
<1>4. CASE Tick
  <2>1. UNCHANGED <<dailyRuns, lost, day, disk, up>> /\ up
      BY <1>4 DEF Tick, procVars, fileVars, historyVars
  <2>2. CASE tpc' = "saveDaily"
    <3>1. late /\ mem.daily # Yesterday /\ mem'.daily = Yesterday /\ tDay' = Yesterday
        BY <1>0, <1>4, <2>2 DEF Tick, State
    <3>2. dailyRuns[Yesterday] <= lost
        BY <1>0, <2>1, <3>1 DEF ScansOnce
    <3>3. QED  BY <1>0, <2>1, <3>1, <3>2 DEF ScansOnce, Yesterday
  <2>3. CASE tpc' # "saveDaily"
    <3>1. UNCHANGED mem /\ tpc' \in {"idle", "weekly"}
        BY <1>4, <2>3 DEF Tick
    <3>2. QED  BY <2>1, <3>1 DEF ScansOnce, Yesterday
  <2>4. QED  BY <2>2, <2>3
<1>5. CASE WeeklyDue
  <2>1. /\ UNCHANGED <<dailyRuns, lost, day, tDay, disk, up>> /\ mem'.daily = mem.daily
        /\ tpc' \in {"saveWeekly", "idle"}
      BY <1>0, <1>5 DEF WeeklyDue, clockVars, procVars, fileVars, historyVars, State
  <2>2. QED  BY <1>1, <2>1
<1>6. CASE TruncateState
  <2>1. /\ UNCHANGED <<dailyRuns, lost, day, tDay, up, mem>> /\ disk' = Torn
        /\ tpc' \in {"writeDaily", "writeWeekly"} /\ (tpc' = "writeDaily" => tpc = "saveDaily")
      BY <1>6 DEF TruncateState, clockVars, procVars, historyVars
  <2>2. QED  BY <2>1 DEF ScansOnce, Yesterday
<1>7. CASE WriteState
  <2>1. /\ UNCHANGED <<dailyRuns, lost, day, tDay, up, mem>> /\ disk' = mem
        /\ tpc' \in {"scan", "consolidate"} /\ (tpc' = "scan" => tpc = "writeDaily") /\ tpc # "idle"
      BY <1>7 DEF WriteState, clockVars, procVars, historyVars
  <2>2. up
      BY <2>1 DEF Typed
  <2>3. QED  BY <2>1, <2>2 DEF ScansOnce, Yesterday
<1>8. CASE SaveRaises \/ WriteDigest \/ Consolidate \/ FixWave \/ WriteOutcomes \/ Escalate
  <2>1. /\ UNCHANGED <<dailyRuns, lost, day, tDay, disk, up, mem>>
        /\ tpc' \notin {"saveDaily", "writeDaily", "scan"}
      BY <1>8 DEF SaveRaises, WriteDigest, Consolidate, FixWave, WriteOutcomes, Escalate, clockVars, procVars,
         fileVars, historyVars
  <2>2. QED  BY <1>1, <2>1
<1>9. CASE Scan
  <2>1. /\ UNCHANGED <<mem, disk, lost, tDay, up, day>>
        /\ tpc = "scan" /\ tpc' \in {"weekly", "writeDigest"}
        /\ dailyRuns' = [dailyRuns EXCEPT ![tDay] = @ + 1]
      BY <1>9 DEF Scan, clockVars, procVars, historyVars
  <2>2. mem.daily = tDay /\ disk = mem /\ tDay \in Days /\ tDay < day /\ dailyRuns[tDay] <= lost
      BY <2>1 DEF Decided, Typed, ScansOnce
  <2>3. \A d \in Days : dailyRuns'[d] = IF d = tDay THEN dailyRuns[d] + 1 ELSE dailyRuns[d]
      BY <1>0, <2>1
  <2>4. \A d \in Days : dailyRuns'[d] <= 1 + lost /\ (d >= day => dailyRuns'[d] = 0)
      BY <1>0, <2>2, <2>3 DEF ScansOnce, Days
  <2>5. dailyRuns'[Yesterday] > lost => (mem.daily = Yesterday /\ disk.daily = Yesterday) \/ dailyRuns[Yesterday] > lost
      BY <1>0, <2>2, <2>3
  <2>6. QED  BY <2>1, <2>4, <2>5 DEF ScansOnce, Yesterday
<1>10. CASE Crash
  <2>1. UNCHANGED <<dailyRuns, lost, day, tDay, disk>> /\ up' = FALSE /\ tpc' = "idle"
      BY <1>10 DEF Crash, clockVars
  <2>2. QED  BY <1>1, <2>1
<1>11. CASE Restart
  <2>1. /\ UNCHANGED <<dailyRuns, day, tDay, disk, tpc>> /\ tpc = "idle"
        /\ mem' = (IF disk = Torn THEN Fresh ELSE disk) /\ lost' = (IF disk = Torn THEN lost + 1 ELSE lost)
      BY <1>11 DEF Restart, tickVars, fileVars, clockVars, Typed
  <2>2. CASE disk = Torn
      BY <1>0, <2>1, <2>2 DEF ScansOnce, Yesterday
  <2>3. CASE disk # Torn
      BY <2>1, <2>3 DEF ScansOnce, Yesterday
  <2>4. QED  BY <2>2, <2>3
<1>12. QED
    BY <1>2, <1>3, <1>4, <1>5, <1>6, <1>7, <1>8, <1>9, <1>10, <1>11 DEF Next, Thread
-----------------------------------------------------------------------------
(* Weeks: a week is consolidated on its date, by the tick of that date,    *)
(* and remembered for the rest of the date                                 *)

\* The tick in progress began on the day after tDay
TickDated ==
    tpc # "idle" =>
        /\ tWeek # NoWeek => tWeek \in Weeks /\ DateOf(tWeek, tDay + 1)
        /\ Weekday(tDay + 1) = WeeklyDay => tWeek # NoWeek

LEMMA DatedStep == Typed /\ TickDated /\ [Next]_vars => TickDated'
<1> SUFFICES ASSUME Typed, TickDated, [Next]_vars PROVE TickDated'
    OBVIOUS
<1>1. CASE UNCHANGED <<tDay, tWeek>> /\ (tpc' # "idle" => tpc # "idle")
    BY <1>1 DEF TickDated, DateOf
<1>2. CASE Tick
  <2>1. /\ Yesterday + 1 = day /\ TargetWeek \in Weeks /\ day \in Days /\ NoWeek \notin Weeks
        /\ day >= WeekLen
      BY Calendar, CalendarAssumption DEF Yesterday, Weeks, Typed, TypeOK
  <2>2. tpc' # "idle" =>
           tDay' = Yesterday /\ tWeek' = (IF Weekday(day) = WeeklyDay THEN TargetWeek ELSE NoWeek)
      BY <1>2 DEF Tick
  <2>3. QED  BY <2>1, <2>2 DEF TickDated, DateOf, TargetWeek
<1>3. CASE HourReached \/ Midnight \/ ManualScan \/ ManualWrite \/ UNCHANGED vars
    BY <1>1, <1>3 DEF HourReached, Midnight, ManualScan, ManualWrite, vars, tickVars
<1>4. CASE WeeklyDue \/ TruncateState \/ WriteState \/ SaveRaises \/ Scan \/ WriteDigest
    BY <1>1, <1>4 DEF WeeklyDue, TruncateState, WriteState, SaveRaises, Scan, WriteDigest
<1>5. CASE Consolidate \/ FixWave \/ WriteOutcomes \/ Escalate \/ Crash \/ Restart
    BY <1>1, <1>5 DEF Consolidate, FixWave, WriteOutcomes, Escalate, Crash, Restart, tickVars
<1>6. QED
    BY <1>2, <1>3, <1>4, <1>5 DEF Next, Thread

Before == {"saveDaily", "writeDaily", "scan", "writeDigest", "saveWeekly", "writeWeekly", "consolidate"}

RanOnItsDate(w) == \E d \in Days : DateOf(w, d) /\ d <= day /\ (tpc # "idle" => d <= tDay + 1)

WeeksOnce ==
    /\ \A w \in Weeks : weeklyRuns[w] <= 1 /\ (weeklyRuns[w] >= 1 => RanOnItsDate(w))
    /\ tWeek # NoWeek =>
          /\ tpc \in Before => weeklyRuns[tWeek] = 0
          /\ tpc = "weekly" /\ weeklyRuns[tWeek] >= 1 => mem.weekly = tWeek
    /\ Weekday(day) = WeeklyDay /\ weeklyRuns[TargetWeek] >= 1 =>
          /\ disk # Torn /\ disk.daily = Yesterday /\ disk.weekly = TargetWeek
          /\ up => mem = disk

\* After the weekly hook of the date, the tick in progress is that of the date
LEMMA SameDay ==
    ASSUME Typed, TickDated, WeeksOnce,
           Weekday(day) = WeeklyDay, weeklyRuns[TargetWeek] >= 1, tpc # "idle"
    PROVE  /\ tDay + 1 = day /\ tWeek = TargetWeek /\ tWeek # NoWeek
           /\ tpc \notin Before /\ (tpc = "weekly" => mem.weekly = tWeek)
<1>1. DateOf(TargetWeek, day) /\ TargetWeek \in Weeks
    BY Calendar DEF DateOf, TargetWeek, Typed, TypeOK
<1>2. PICK d \in Days : DateOf(TargetWeek, d) /\ d <= tDay + 1
    BY <1>1 DEF WeeksOnce, RanOnItsDate
<1>3. d = day
    BY <1>1, <1>2, OneDate
<1>4. tDay \in Nat /\ tDay < day /\ day \in Nat
    BY Calendar DEF Typed, Days
<1>5. tDay + 1 = day
    BY <1>2, <1>3, <1>4
<1>6. tWeek # NoWeek /\ DateOf(tWeek, day)
    BY <1>5 DEF TickDated
<1>7. tWeek = TargetWeek
    BY <1>6 DEF DateOf, TargetWeek
<1>8. weeklyRuns[TargetWeek] # 0
    OBVIOUS
<1>9. QED  BY <1>5, <1>6, <1>7, <1>8 DEF WeeksOnce

\* Steps without a week's hook that leave what is remembered alone
LEMMA WeeksFrame ==
    ASSUME Typed, WeeksOnce, UNCHANGED <<weeklyRuns, day, tDay, tWeek>>,
           tpc' # "idle" => tpc # "idle",
           tpc' \in Before => tpc \in Before,
           tpc' = "weekly" => tpc \in Before \cup {"weekly"} /\ mem'.weekly = mem.weekly,
           Weekday(day) = WeeklyDay /\ weeklyRuns[TargetWeek] >= 1 =>
              disk' = disk /\ (up' => up /\ mem' = mem)
    PROVE  WeeksOnce'
<1>1. \A w \in Weeks : weeklyRuns'[w] <= 1 /\ (weeklyRuns'[w] >= 1 => RanOnItsDate(w)')
    BY DEF WeeksOnce, RanOnItsDate, DateOf
<1>2. tWeek' # NoWeek =>
          /\ tpc' \in Before => weeklyRuns'[tWeek'] = 0
          /\ tpc' = "weekly" /\ weeklyRuns'[tWeek'] >= 1 => mem'.weekly = tWeek'
    BY DEF WeeksOnce
<1>3. TargetWeek' = TargetWeek /\ Yesterday' = Yesterday
    BY DEF TargetWeek, Yesterday
<1>4. Weekday(day') = WeeklyDay /\ weeklyRuns'[TargetWeek'] >= 1 =>
          /\ disk' # Torn /\ disk'.daily = Yesterday' /\ disk'.weekly = TargetWeek'
          /\ up' => mem' = disk'
    BY <1>3 DEF WeeksOnce
<1>5. QED  BY <1>1, <1>2, <1>4 DEF WeeksOnce

LEMMA WeeksInit == Init => WeeksOnce
<1> SUFFICES ASSUME Init PROVE WeeksOnce
    OBVIOUS
<1>1. \A w \in Weeks : weeklyRuns[w] = 0
    BY DEF Init
<1>2. TargetWeek \in Weeks
    BY TypesInit, Calendar DEF Typed
<1>3. QED  BY <1>1, <1>2 DEF Init, WeeksOnce, Before

LEMMA WeeksStep ==
    Typed /\ Decided /\ TickDated /\ WeeksOnce /\ [Next]_vars => WeeksOnce'
<1> SUFFICES ASSUME Typed, Decided, TickDated, WeeksOnce, [Next]_vars PROVE WeeksOnce'
    OBVIOUS
<1>0. /\ weeklyRuns \in [Weeks -> Nat] /\ Yesterday \in Days /\ day \in Days /\ TargetWeek \in Weeks
      /\ mem \in State /\ Torn \notin State /\ NoWeek \notin Weeks /\ Days \subseteq Nat
    BY Calendar, TornAssumption, CalendarAssumption DEF Typed, TypeOK, Weeks, Days
<1>1. CASE HourReached \/ ManualScan \/ ManualWrite \/ UNCHANGED vars
  <2>1. UNCHANGED <<weeklyRuns, day, tDay, tWeek, tpc, mem, disk, up>>
      BY <1>1 DEF HourReached, ManualScan, ManualWrite, vars, clockVars, procVars, tickVars, fileVars, historyVars
  <2>2. QED  BY <2>1, WeeksFrame
<1>2. CASE Midnight
  <2>1. UNCHANGED <<weeklyRuns, tDay, tWeek, tpc, mem>> /\ day' = day + 1
      BY <1>2 DEF Midnight, tickVars, historyVars
  <2>2. \A w \in Weeks : weeklyRuns'[w] <= 1 /\ (weeklyRuns'[w] >= 1 => RanOnItsDate(w)')
      BY <1>0, <2>1 DEF WeeksOnce, RanOnItsDate, DateOf
  <2>3. ASSUME Weekday(day') = WeeklyDay PROVE ~(weeklyRuns'[TargetWeek'] >= 1)
    <3>1. DateOf(TargetWeek', day') /\ TargetWeek' \in Weeks
      <4>1. Typed'
          BY TypesStep
      <4>2. day' \in Days /\ day' >= WeekLen
          BY <4>1 DEF Typed, TypeOK
      <4>3. TargetWeek' = WeekOf(day' - WeekLen)
          BY DEF TargetWeek
      <4>4. day' - WeekLen \in Days
          BY <4>2, WeekBack
      <4>5. QED  BY <2>3, <4>2, <4>3, <4>4, WeekTyped DEF DateOf
    <3>2. SUFFICES ASSUME weeklyRuns[TargetWeek'] >= 1 PROVE FALSE
        BY <2>1
    <3>3. PICK d \in Days : DateOf(TargetWeek', d) /\ d <= day
        BY <3>1, <3>2 DEF WeeksOnce, RanOnItsDate
    <3>4. d = day'
        BY <3>1, <3>3, OneDate
    <3>5. QED  BY <1>0, <2>1, <3>3, <3>4
  <2>4. QED  BY <2>1, <2>2, <2>3 DEF WeeksOnce
<1>3. CASE Tick
  <2>1. UNCHANGED <<weeklyRuns, day, disk, up>> /\ up /\ tpc = "idle"
      BY <1>3 DEF Tick, procVars, fileVars, historyVars
  <2>2. CASE tpc' = "idle"
    <3>1. UNCHANGED <<mem, tDay, tWeek>>
        BY <1>3, <2>2 DEF Tick
    <3>2. QED  BY <2>1, <2>2, <3>1, WeeksFrame DEF Before
  <2>3. CASE tpc' # "idle"
    <3>1. /\ tDay' = Yesterday /\ tWeek' = (IF Weekday(day) = WeeklyDay THEN TargetWeek ELSE NoWeek)
          /\ \/ tpc' = "saveDaily" /\ mem.daily # Yesterday
             \/ tpc' = "weekly" /\ UNCHANGED mem
        BY <1>3, <2>3 DEF Tick
    <3>2. tDay' + 1 = day
        BY <1>0, <3>1 DEF Yesterday
    <3>3. \A w \in Weeks : weeklyRuns'[w] <= 1 /\ (weeklyRuns'[w] >= 1 => RanOnItsDate(w)')
        BY <2>1, <3>2 DEF WeeksOnce, RanOnItsDate, DateOf
    <3>4. TargetWeek' = TargetWeek /\ Yesterday' = Yesterday
        BY <2>1 DEF TargetWeek, Yesterday
    <3>5. CASE Weekday(day) = WeeklyDay /\ weeklyRuns[TargetWeek] >= 1
      <4>1. mem = disk /\ disk # Torn /\ disk.daily = Yesterday /\ disk.weekly = TargetWeek
          BY <2>1, <3>5 DEF WeeksOnce
      <4>2. tpc' = "weekly" /\ mem' = mem
          BY <3>1, <4>1
      <4>3. QED  BY <2>1, <3>1, <3>3, <3>4, <3>5, <4>1, <4>2 DEF WeeksOnce, Before
    <3>6. CASE Weekday(day) = WeeklyDay /\ ~(weeklyRuns[TargetWeek] >= 1)
      <4>1. weeklyRuns[TargetWeek] = 0
          BY <1>0, <3>6
      <4>2. QED  BY <2>1, <3>1, <3>3, <3>4, <3>6, <4>1 DEF WeeksOnce
    <3>7. CASE Weekday(day) # WeeklyDay
        BY <2>1, <3>1, <3>3, <3>7 DEF WeeksOnce
    <3>8. QED  BY <3>5, <3>6, <3>7
  <2>4. QED  BY <2>2, <2>3
<1>4. CASE WeeklyDue
  <2>1. UNCHANGED <<weeklyRuns, day, tDay, tWeek, disk, up>> /\ tpc = "weekly"
      BY <1>4 DEF WeeklyDue, clockVars, procVars, fileVars, historyVars
  <2>2. CASE tWeek # NoWeek /\ mem.weekly # tWeek
    <3>1. tpc' = "saveWeekly"
        BY <1>4, <2>2 DEF WeeklyDue
    <3>2. weeklyRuns[tWeek] = 0
        BY <1>0, <2>1, <2>2 DEF WeeksOnce, TickDated
    <3>3. ~(Weekday(day) = WeeklyDay /\ weeklyRuns[TargetWeek] >= 1)
        BY <2>1, <2>2, SameDay
    <3>4. \A w \in Weeks : weeklyRuns'[w] <= 1 /\ (weeklyRuns'[w] >= 1 => RanOnItsDate(w)')
        BY <2>1, <3>1 DEF WeeksOnce, RanOnItsDate, DateOf
    <3>5. TargetWeek' = TargetWeek
        BY <2>1 DEF TargetWeek
    <3>6. QED  BY <2>1, <3>1, <3>2, <3>3, <3>4, <3>5 DEF WeeksOnce
  <2>3. CASE ~(tWeek # NoWeek /\ mem.weekly # tWeek)
    <3>1. tpc' = "idle" /\ UNCHANGED mem
        BY <1>4, <2>3 DEF WeeklyDue
    <3>2. QED  BY <2>1, <3>1, WeeksFrame DEF Before
  <2>4. QED  BY <2>2, <2>3
<1>5. CASE TruncateState \/ WriteState \/ SaveRaises
  <2>1. /\ UNCHANGED <<weeklyRuns, day, tDay, tWeek, mem, up>>
        /\ tpc \in Before /\ tpc' \in Before \cup {"idle"}
      BY <1>5 DEF TruncateState, WriteState, SaveRaises, clockVars, procVars, historyVars, Before
  <2>2. ~(Weekday(day) = WeeklyDay /\ weeklyRuns[TargetWeek] >= 1)
      BY <2>1, SameDay DEF Before
  <2>3. QED  BY <2>1, <2>2, WeeksFrame DEF Before
<1>6. CASE Scan \/ WriteDigest
  <2>1. /\ UNCHANGED <<weeklyRuns, day, tDay, tWeek, mem, disk, up>>
        /\ tpc \in Before /\ tpc' \in Before \cup {"weekly"}
      BY <1>6 DEF Scan, WriteDigest, clockVars, procVars, historyVars, Before
  <2>2. QED  BY <2>1, WeeksFrame DEF Before
<1>7. CASE Consolidate
  <2>1. /\ UNCHANGED <<day, tDay, tWeek, mem, disk, up>>
        /\ tpc = "consolidate" /\ tpc' \in {"idle", "wave"}
        /\ weeklyRuns' = [weeklyRuns EXCEPT ![tWeek] = @ + 1]
      BY <1>7 DEF Consolidate, clockVars, procVars, fileVars
  <2>2. tWeek \in Weeks /\ tWeek # NoWeek /\ DateOf(tWeek, tDay + 1) /\ tDay + 1 \in Days /\ tDay + 1 <= day
    <3>1. tWeek \in Weeks /\ tDay \in Nat /\ tDay < day /\ day \in Nat
        BY <1>0, <2>1 DEF Typed, Weekly
    <3>2. tWeek # NoWeek
        BY <1>0, <3>1
    <3>3. DateOf(tWeek, tDay + 1)
        BY <2>1, <3>2 DEF TickDated
    <3>4. QED  BY <3>1, <3>2, <3>3 DEF DateOf
  <2>3. weeklyRuns[tWeek] = 0
      BY <2>1, <2>2 DEF WeeksOnce, Before
  <2>4. \A w \in Weeks : weeklyRuns'[w] = IF w = tWeek THEN 1 ELSE weeklyRuns[w]
      BY <1>0, <2>1, <2>3
  <2>5. \A w \in Weeks : weeklyRuns'[w] <= 1
      BY <2>4 DEF WeeksOnce
  <2>6. RanOnItsDate(tWeek)'
    <3>1. DateOf(tWeek, tDay + 1)' /\ (tDay + 1)' \in Days /\ (tDay + 1)' <= day'
        BY <2>1, <2>2 DEF DateOf
    <3>2. (tDay + 1)' <= tDay' + 1
        BY <1>0, <2>1, <2>2 DEF Days
    <3>3. QED  BY <3>1, <3>2 DEF RanOnItsDate
  <2>7. \A w \in Weeks : weeklyRuns'[w] >= 1 => RanOnItsDate(w)'
      BY <2>1, <2>4, <2>6 DEF WeeksOnce, RanOnItsDate, DateOf
  <2>8. TargetWeek' = TargetWeek /\ Yesterday' = Yesterday
      BY <2>1 DEF TargetWeek, Yesterday
  <2>9. ASSUME Weekday(day) = WeeklyDay, weeklyRuns'[TargetWeek] >= 1
        PROVE  /\ disk # Torn /\ disk.daily = Yesterday /\ disk.weekly = TargetWeek
               /\ up => mem = disk
    <3>1. CASE tWeek = TargetWeek
      <4>1. DateOf(TargetWeek, day)
          BY <1>0, <2>9 DEF DateOf, TargetWeek, Typed
      <4>2. tDay + 1 = day
          BY <2>2, <3>1, <4>1, OneDate
      <4>3. tDay = Yesterday
        <5>1. tDay \in Nat
            BY <1>0, <2>1 DEF Typed
        <5>2. QED  BY <4>2, <5>1 DEF Yesterday
      <4>4. mem.daily = tDay /\ mem.weekly = tWeek /\ disk = mem
          BY <2>1 DEF Decided, Weekly
      <4>5. QED  BY <1>0, <3>1, <4>3, <4>4
    <3>2. CASE tWeek # TargetWeek
        BY <1>0, <2>4, <2>9, <3>2 DEF WeeksOnce
    <3>3. QED  BY <3>1, <3>2
  <2>10. QED  BY <2>1, <2>5, <2>7, <2>8, <2>9 DEF WeeksOnce, Before
<1>8. CASE FixWave \/ WriteOutcomes \/ Escalate
  <2>1. /\ UNCHANGED <<weeklyRuns, day, tDay, tWeek, mem, disk, up>>
        /\ tpc # "idle" /\ tpc' \in {"outcomes", "escalate", "idle"}
      BY <1>8 DEF FixWave, WriteOutcomes, Escalate, clockVars, procVars, fileVars, historyVars
  <2>2. QED  BY <2>1, WeeksFrame DEF Before
<1>9. CASE Crash
  <2>1. UNCHANGED <<weeklyRuns, day, tDay, tWeek, disk>> /\ up' = FALSE /\ tpc' = "idle"
      BY <1>9 DEF Crash, clockVars
  <2>2. QED  BY <2>1, WeeksFrame DEF Before
<1>10. CASE Restart
  <2>1. /\ UNCHANGED <<weeklyRuns, day, tDay, tWeek, tpc, disk>> /\ tpc = "idle"
        /\ mem' = IF disk = Torn THEN Fresh ELSE disk
      BY <1>10 DEF Restart, tickVars, fileVars, Typed
  <2>2. TargetWeek' = TargetWeek /\ Yesterday' = Yesterday
      BY <2>1 DEF TargetWeek, Yesterday
  <2>3. QED  BY <2>1, <2>2 DEF WeeksOnce, RanOnItsDate, DateOf, Before
<1>11. QED
    BY <1>1, <1>2, <1>3, <1>4, <1>5, <1>6, <1>7, <1>8, <1>9, <1>10 DEF Next, Thread
-----------------------------------------------------------------------------
(* Posts: one for a week that was consolidated, and one for each report    *)

Posts ==
    /\ \A w \in Weeks : posts[w] <= weeklyRuns[w]
    /\ tpc \in {"wave", "outcomes", "escalate"} => weeklyRuns[tWeek] = 1 /\ posts[tWeek] = 0
    /\ \A w \in full : /\ weeklyRuns[w] >= 1
                       /\ posts[w] = 1 \/ (tpc \in {"wave", "outcomes", "escalate"} /\ tWeek = w)
    /\ tpc \in {"wave", "outcomes"} /\ tWeek \in full => found = "full"

LEMMA PostsInit == Init => Posts
BY DEF Init, Posts

LEMMA PostsStep ==
    Typed /\ TickDated /\ WeeksOnce /\ Posts /\ [Next]_vars => Posts'
<1> SUFFICES ASSUME Typed, TickDated, WeeksOnce, Posts, [Next]_vars PROVE Posts'
    OBVIOUS
<1>0. /\ weeklyRuns \in [Weeks -> Nat] /\ posts \in [Weeks -> Nat] /\ full \subseteq Weeks
      /\ NoWeek \notin Weeks
    BY CalendarAssumption DEF Typed, TypeOK, Weeks
<1> DEFINE Ending == {"wave", "outcomes", "escalate"}
<1>1. ASSUME UNCHANGED <<weeklyRuns, posts, full, found>>, tpc \notin Ending, tpc' \notin Ending
      PROVE  Posts'
    BY <1>1 DEF Posts
<1>2. CASE HourReached \/ Midnight \/ ManualScan \/ ManualWrite \/ UNCHANGED vars
    BY <1>2 DEF HourReached, Midnight, ManualScan, ManualWrite, vars, tickVars, historyVars, Posts
<1>3. CASE Tick \/ WeeklyDue
    BY <1>1, <1>3 DEF Tick, WeeklyDue, historyVars
<1>4. CASE TruncateState \/ WriteState \/ SaveRaises
    BY <1>1, <1>4 DEF TruncateState, WriteState, SaveRaises, historyVars
<1>5. CASE Scan \/ WriteDigest
    BY <1>1, <1>5 DEF Scan, WriteDigest, historyVars
<1>6. CASE Consolidate
  <2>1. /\ UNCHANGED <<tWeek, posts>> /\ tpc = "consolidate" /\ tpc' \in {"idle", "wave"}
        /\ weeklyRuns' = [weeklyRuns EXCEPT ![tWeek] = @ + 1]
        /\ \/ UNCHANGED full /\ tpc' = "idle"
           \/ UNCHANGED full /\ tpc' = "wave"
           \/ full' = full \cup {tWeek} /\ found' = "full" /\ tpc' = "wave"
      BY <1>6 DEF Consolidate
  <2>2. tWeek \in Weeks /\ weeklyRuns[tWeek] = 0
    <3>1. tWeek \in Weeks
        BY <2>1 DEF Typed, Weekly
    <3>2. QED  BY <1>0, <2>1, <3>1 DEF WeeksOnce, Before
  <2>3. \A w \in Weeks : weeklyRuns'[w] = IF w = tWeek THEN 1 ELSE weeklyRuns[w]
      BY <1>0, <2>1, <2>2
  <2>4. posts[tWeek] = 0 /\ tWeek \notin full
    <3>1. posts[tWeek] \in Nat /\ posts[tWeek] <= 0
        BY <1>0, <2>2 DEF Posts
    <3>2. tWeek \notin full
        BY <2>2 DEF Posts
    <3>3. QED  BY <3>1, <3>2
  <2>5. \A w \in Weeks : posts'[w] <= weeklyRuns'[w]
      BY <1>0, <2>1, <2>2, <2>3, <2>4 DEF Posts
  <2>6. \A w \in full' : /\ weeklyRuns'[w] >= 1
                         /\ posts'[w] = 1 \/ (tpc' \in Ending /\ tWeek' = w)
    <3>1. \A w \in full : weeklyRuns'[w] >= 1 /\ posts'[w] = 1
        BY <1>0, <2>1, <2>3, <2>4 DEF Posts
    <3>2. QED  BY <2>1, <2>2, <2>3, <3>1
  <2>7. tpc' \in Ending => weeklyRuns'[tWeek'] = 1 /\ posts'[tWeek'] = 0
      BY <2>1, <2>2, <2>3, <2>4
  <2>8. tpc' \in {"wave", "outcomes"} /\ tWeek' \in full' => found' = "full"
      BY <2>1, <2>4
  <2>9. QED  BY <2>5, <2>6, <2>7, <2>8 DEF Posts
<1>7. CASE FixWave
    BY <1>7 DEF FixWave, historyVars, Posts
<1>8. CASE WriteOutcomes
    BY <1>8 DEF WriteOutcomes, historyVars, Posts
<1>9. CASE Escalate
  <2>1. /\ UNCHANGED <<weeklyRuns, full>> /\ posts' = [posts EXCEPT ![tWeek] = @ + 1]
        /\ tpc = "escalate" /\ tpc' = "idle"
      BY <1>9 DEF Escalate
  <2>2. tWeek \in Weeks /\ posts[tWeek] = 0 /\ weeklyRuns[tWeek] = 1
      BY <2>1 DEF Typed, Weekly, Posts
  <2>3. \A w \in Weeks : posts'[w] = IF w = tWeek THEN 1 ELSE posts[w]
      BY <1>0, <2>1, <2>2
  <2>4. QED  BY <1>0, <2>1, <2>2, <2>3 DEF Posts
<1>10. CASE Crash
  <2>1. /\ UNCHANGED <<weeklyRuns, posts>> /\ tpc' = "idle"
        /\ full' = IF tpc \in Ending THEN full \ {tWeek} ELSE full
      BY <1>10 DEF Crash
  <2>2. QED  BY <2>1 DEF Posts
<1>11. CASE Restart
    BY <1>1, <1>11 DEF Restart, tickVars, Typed
<1>12. QED
    BY <1>2, <1>3, <1>4, <1>5, <1>6, <1>7, <1>8, <1>9, <1>10, <1>11 DEF Next, Thread

SchedulerInv == Typed /\ Decided /\ TickDated /\ ScansOnce /\ WeeksOnce /\ Posts

LEMMA SchedulerInvHolds == Spec => []SchedulerInv
<1>1. Init => SchedulerInv
  <2>1. Init => TickDated
      BY DEF Init, TickDated
  <2>2. QED  BY <2>1, TypesInit, DecidedInit, ScansInit, WeeksInit, PostsInit DEF SchedulerInv
<1>2. SchedulerInv /\ [Next]_vars => SchedulerInv'
    BY TypesStep, DecidedStep, DatedStep, ScansStep, WeeksStep, PostsStep DEF SchedulerInv
<1>3. QED  BY <1>1, <1>2, PTL DEF Spec

(* FiresOnce for every calendar: a scan fires again only when the state     *)
(* file was lost, and a week not even then (tick, SchedulerState.save).     *)
THEOREM FiringsHold == Spec => []FiresOnce
<1>1. SchedulerInv => FiresOnce
  <2>1. SUFFICES ASSUME SchedulerInv PROVE FiresOnce
      OBVIOUS
  <2>2. /\ \A d \in Days : dailyRuns[d] <= 1 + lost
        /\ \A w \in Weeks : weeklyRuns[w] <= 1 /\ posts[w] <= weeklyRuns[w]
      BY <2>1 DEF SchedulerInv, ScansOnce, WeeksOnce, Posts
  <2>3. \A w \in Weeks : weeklyRuns[w] \in Nat /\ posts[w] \in Nat
      BY <2>1 DEF SchedulerInv, Typed, TypeOK
  <2>4. QED  BY <2>2, <2>3 DEF FiresOnce
<1>2. QED  BY <1>1, SchedulerInvHolds, PTL

(* ReportedWeeksPosted for every calendar: a fix wave or an outcomes file   *)
(* that fails does not keep a report from Slack (_default_weekly).          *)
THEOREM ReportsHold == Spec => []ReportedWeeksPosted
<1>1. SchedulerInv => ReportedWeeksPosted
    BY DEF SchedulerInv, Posts, ReportedWeeksPosted
<1>2. QED  BY <1>1, SchedulerInvHolds, PTL

\* The week of a day that is scanned is not the week of an earlier date
LEMMA ScannedWeekOpen ==
    ASSUME SchedulerInv, tpc = "scan"
    PROVE  weeklyRuns[WeekOf(tDay)] = 0
<1> DEFINE w == WeekOf(tDay)
<1>1. /\ tDay \in Days /\ Days \subseteq Nat /\ WeekLen \in Nat \ {0} /\ w \in Weeks
      /\ weeklyRuns \in [Weeks -> Nat]
    BY WeekTyped, CalendarAssumption DEF SchedulerInv, Typed, TypeOK, Days
<1>2. SUFFICES ASSUME weeklyRuns[w] >= 1 PROVE FALSE
    BY <1>1
<1>3. PICK d \in Days : DateOf(w, d) /\ d <= tDay + 1
    BY <1>1, <1>2 DEF SchedulerInv, WeeksOnce, RanOnItsDate
<1>4. CASE d = tDay + 1
  <2>1. tWeek # NoWeek /\ DateOf(tWeek, d)
      BY <1>3, <1>4 DEF SchedulerInv, TickDated, DateOf
  <2>2. tWeek = w
      BY <1>3, <2>1 DEF DateOf
  <2>3. weeklyRuns[w] = 0
      BY <2>1, <2>2 DEF SchedulerInv, WeeksOnce, Before
  <2>4. QED  BY <1>2, <2>3
<1>5. CASE d # tDay + 1
  <2>1. d \in Nat /\ tDay \in Nat /\ d <= tDay /\ d >= WeekLen
      BY <1>1, <1>3, <1>5 DEF DateOf
  <2>2. WeekOf(d) <= w
      BY <1>1, <2>1, DivMonotone DEF WeekOf
  <2>3. WeekOf(d) = w + 1
      BY <1>3, <2>1, WeekBefore DEF DateOf
  <2>4. w \in Nat
      BY <1>1, DivMod DEF WeekOf
  <2>5. QED  BY <2>2, <2>3, <2>4
<1>6. QED  BY <1>4, <1>5

(* NoScanAfterReport for every calendar: the daily job of a tick comes      *)
(* first and the report is of the week before, so that no week is           *)
(* consolidated while one of its days is still to be scanned (tick).        *)
THEOREM NoLateScan == Spec => NoScanAfterReport
<1>1. SchedulerInv /\ [Next]_vars =>
        [\A d \in Days : dailyRuns'[d] > dailyRuns[d] => weeklyRuns[WeekOf(d)] = 0]_vars
  <2>1. SUFFICES ASSUME SchedulerInv, Next, NEW d \in Days, dailyRuns'[d] > dailyRuns[d]
                 PROVE  weeklyRuns[WeekOf(d)] = 0
      OBVIOUS
  <2>2. dailyRuns[d] \in Nat
      BY <2>1 DEF SchedulerInv, Typed, TypeOK
  <2>3. dailyRuns' # dailyRuns
      BY <2>1, <2>2
  <2>4. Scan
      BY <2>1, <2>3 DEF Next, Thread, HourReached, Midnight, Tick, WeeklyDue, TruncateState, WriteState,
         SaveRaises, WriteDigest, ManualScan, ManualWrite, Consolidate, FixWave, WriteOutcomes, Escalate,
         Crash, Restart, historyVars
  <2>5. tpc = "scan" /\ dailyRuns' = [dailyRuns EXCEPT ![tDay] = @ + 1]
      BY <2>4 DEF Scan
  <2>6. d = tDay
      BY <2>1, <2>2, <2>5 DEF SchedulerInv, Typed, TypeOK
  <2>7. QED  BY <2>1, <2>5, <2>6, ScannedWeekOpen
<1>2. QED  BY <1>1, SchedulerInvHolds, PTL DEF Spec, NoScanAfterReport
=============================================================================
