# tvastr in TLA+

tvastr watches logs, clusters recurring failures, asks a model for a root cause
and a fix, opens a pull request, can verify the fix in a sandbox, and mines its
own logs once a day for failures of its own ("self-heal"). This directory holds
TLA+ modules of the parts of it where order, concurrency and failure matter,
TLC configurations that check them on small instances, and theorems about them
that TLAPS proves for every instance. Paths below are relative to
`src/tvastr/`.

## 1. The system

| component | state it keeps | operations | talks to |
|---|---|---|---|
| Run lifecycle (`events.py`, `runner.py`, `api/routes/run.py`, `api/app.py`) | one append-only JSONL file per run; `IN_FLIGHT`, the registry of live threads | start a run, emit an event, stream a run, sweep at startup | every component that emits; stream clients |
| Verification route (`api/routes/verify.py`) | a thread per request, not registered | reconstruct a run, verify, append to its file | run files, verifier |
| Self-heal scheduler (`selfheal/scheduler.py`) | `scheduler_state.json`, its copy in memory | tick: daily hook, weekly hook | scan, report, fix wave, notifier |
| Selflog writer (`selfheal/selflog.py`) | a JSONL file per day; the last day written | append a record, prune old days | every thread that logs a warning or error |
| Daily scan, weekly report (`selfheal/scan.py`, `selfheal/report.py`) | a digest per day, a report per week | mine and cluster; merge and rank | run files, selflogs |
| Fix wave, escalation (`selfheal/remediate.py`) | an outcomes file per week | one run per cluster, joined; one Slack post | runner, pipeline, notifier |
| Remediation pipeline (`pipeline.py`, `detection/threshold.py`, `api/routes/remediate.py`) | the dedup table, the shared agent context | detect, select, agent per pattern, mark, audit | agent, code host, audit store |
| Agent graph and tools (`agent/graph.py`, `agent/tools/`) | the state of one agent run: files read, rounds, diagnosis, edits | investigate, gate, ground, fix, draft, open, notify | models, code host, SDK cache, notifier |
| SDK schema cache (`agent/sdk_schema.py`) | `data/sdk_cache`, a directory per package and version, shared by all threads | install with pip, extract snippets | pip, the agent |
| Resolution of issues (`ingestion/comments.py`) | a cache in memory, shared by the request threads | fetch comments page by page, judge, cache | GitHub, issue route |
| Code hosts (`integrations/`) | branches and pull requests of the repository | read a tree, open a pull request | GitHub |
| Verifier, sandbox (`verification/`) | workspaces | baseline run, patched run, repair of the repro, verdict | models, Docker |
| Models, redaction (`llm/`, `pii/`) | none | complete, route by sensitivity, redact | remote and local models |
| Ingestion, analysis, issue routes, CLI | none to speak of | fetch and parse | Loki, GitHub |

### What is hard, and what makes each part correct

* **Run files.** Pipeline threads, verify threads, the sweep and any number of
  streams share a file without a common lock; the process can die in the middle
  of a line. Correct is: a stream sends every event once and whole, and ends
  only when nothing is missing; a run ends with a terminal event or is marked
  interrupted; a mark is never put on a live or a finished run, nor twice; every
  stream ends and no run stays in limbo.
* **Scheduler.** A decision is saved before its hook runs, the process can die
  between any two steps, the clock goes on during a hook, days can pass without
  a tick. Correct is: nothing fires twice, yesterday is caught up, a report
  comes after the last scan of its week, a report with content is posted.
* **Pipeline.** One pipeline object serves concurrent requests; remote calls can
  take effect and lose their reply; the dedup table dies with the process.
  Correct is: no two pull requests for one pattern, nor an agent on one handled
  a moment ago, an audit log that agrees with them, evidence from the right
  commit.
* **Agent.** A model asks for files and searches round after round, then edits
  files by search and replace; each edit changes what the next one finds. Correct
  is: no fix from a diagnosis made before the last evidence, edits that change
  what they name and nothing else, an end.
* **SDK cache.** Threads install into, read and delete the same directories, and
  any file left there makes the next fetch a hit. Correct is: a pinned directory
  holds that version, evidence is a whole package, and the classes of a common
  keyword do not crowd out those of a rare one.
* **Weekly report, selflog.** Threads log across midnight while days are pruned,
  mined, mined again and merged, and runs go on after their end. Correct is: no
  failure is counted twice or lost, the wave gets what ranks highest, no log is
  pruned before it can be mined.
* **Resolution.** Comments arrive between the requests for the pages, and threads
  fill one small cache. Correct is: a maintainer's recent word is heard, and
  every answer knows what was said before the TTL and one request's time.
* **Fix wave, scan.** A wave run must never be mined as a new failure; every
  cluster gets one outcome, and what is posted agrees with what happened.
* **Verifier.** Untrusted code runs up to five times in a workspace that is
  patched in between, a broken reproducer is repaired and all of it tried again.
  Correct is: no attempt starts in what another has patched, the fix is tried
  alone against the failure, a verdict is true of runs of one attempt, and a
  verification leaves one result or error and no workspace.

`PROJECT.json` lists the hazards one by one, at their lines.

## 2. Modules

| module | what it is |
|---|---|
| `EventLog` | abstract specification: what a persisted run promises its readers |
| `RunLifecycle` | run files, threads, streams, verification events, death and sweep |
| `RunLifecycleProofs` | its inductive invariant, the safety theorems, and that it implements `EventLog` |
| `SelfHealScheduler` | the scheduler thread, its files, a racing manual scan |
| `SelfHealSchedulerProofs` | its invariants and all its safety theorems |
| `WeeklyReport` | selflog writer, mining of a day, merge and ranking of a week |
| `WeeklyReportProofs` | sums over finite sets; its invariants and all its safety theorems |
| `FixWave` | one fix wave: a run per cluster, outcomes, summary, what scans mine |
| `FixWaveProofs` | its inductive invariant and the safety theorems |
| `Remediation` | concurrent `POST /remediate` calls on one shared pipeline |
| `RemediationProofs` | its invariants and all its safety theorems |
| `AgentRun` | the agent on one pattern: investigation, gate, edits, pull request |
| `AgentRunProofs` | its invariants and safety theorems |
| `Grounding` | grounding in a package's types: the shared cache, pip, snippets |
| `ResolutionCache` | whether an issue looks resolved: pages, verdict, cache |
| `CacheProofs` | invariants and safety theorems of `Grounding` and `ResolutionCache` |
| `Verifier` | one verification: sandbox contents, attempts, repairs, verdict |
| `VerifierProofs` | its inductive invariant and the safety theorems |
| `MC*` | instances for TLC |

### RunLifecycle

`lines[r]` is the JSONL file of run `r`, as event types; a line that does not
parse is `BadLine`. An append is two steps, `BeginWrite` and `FinishWrite` (or
`FailWrite`), with `pend[r]` in between: readers see a fragment then, and a
`Crash` leaves it behind as `torn[r]`, to which the next append is glued.
`inFlight` is `runner.IN_FLIGHT`; `pc[r]` is where the pipeline thread is, from
`created` (the wave has touched the file) through `registered`, `boot` (before
`pipeline.start`), `run`, `raised` (the error event is due), `exit` (before the
`finally`) to `gone`, or `lost` with its process. `run_pipeline` has no `await`
and is one action, `Post`; the wave runs on the scheduler's thread and is three.
In both, `StartThread` may raise: the run is `unstarted` then, with an entry in
`inFlight` that nobody takes out while the process lives, since `_run` with its
`finally` has never run. `Alive` is `is_alive()`, false for such a run.
`SnapshotAlive` and `ReadPass` are the two halves of a pass of `stream_run`,
with `sOff`, `sSaw`, `sAlive` its locals and `sSent` the events it has yielded.
`SweepMarks` is the test of `mark_interrupted_runs`.

Abstracted: payloads; which event lies between start and end (`step`, or `fix`,
which makes a run verifiable). Assumed: one server process (the comment in
`app.py` does too) with `sweep_on_startup` on; a line is one `write(2)`, so two
appenders do not interleave within a line; a fragment glued to a line does not
parse.

### SelfHealScheduler

Days are numbered, a week has `WeekLen` of them. `tpc` is where the thread is in
`tick`, with one label for each place where it can die or be overtaken; `mem`
and `disk` are the state in memory and on disk, and `save` is `TruncateState`
and `WriteState`, because `write_text` truncates first. `Consolidate`,
`FixWave`, `WriteOutcomes` and `Escalate` are the steps of `_default_weekly`
with their separate `try` blocks. A digest is missing, blank (truncated), torn
(fails to parse) or ok; a cut at a line's end reads as a shorter digest.
The clock moves freely, but an idle thread ticks at least once before and once
after the hour of each day (it polls every five minutes). `dailyRuns`, `weeklyRuns`,
`posts`, `full`, `abandoned` and `lost` are history.

### FixWave

`wave` is where the scheduler's thread is in `run_fix_wave` and `escalate`, `at`
the cluster of its loop. `StartRun`, `Join` and `ReadOutcome` are the body of the
loop; `StartRunFails` and `ReadOutcomeFails` its `except`, `PrologueFails` the
outer one. `pc[i]` is the pipeline thread of cluster `i`: the events and the
pull requests of `pipeline.run` and the agent, pattern by pattern (`pat`).
`pulls[i]` is what the host has told the run; a pull request whose reply was
lost counts as a raise (`BodyRaises`). A file is the set of its events, because
`_read_outcome`, `_run_candidates` and the sweep ask only whether some event is
there; `torn[i]` is a fragment at its end. `BadFiles` are the files whose
appends and reads may raise, each time or never. `SelfHeal` names the events
that carry the marker of the loop guard, `Mined` what a scan takes from a run,
`minedLogs` what it takes from the selflog.

How `FixWave`, `RunLifecycle` and `SelfHealScheduler` meet: `WaveCreate`,
`WaveRegister` and `WaveStart` of `RunLifecycle` are the file and the registry
side of `StartRun`, seen by streams; `FixWave` and `Escalate` of
`SelfHealScheduler` are the whole of `StartWave ... EndWave` and `Post`.

Abstracted: the confidence of an investigation but for 0.0, what models answer,
the text of the message. In a wave some pattern is always selected: the
rebuilt events are errors and the wave sets the threshold to 1.

### Remediation

The shared host is a sequence of issue-era layers around the real one;
`StartPattern` sets it as `run` does, `Read` reads through it, `Finish`
restores it, and an exception (`Raise`) does not. The agent's graph is the
labels `investigate`, `fix`, `open` (then `commit` and `pull` on GitHub),
`notify`. A remote call may fail before or after it took effect. GitHub refuses a
branch that exists, and nobody deletes branches. The mock and the dry-run host
are the other two values of `hosting`.

`trouble` is history: whether two calls overlapped, whether one raised.

Abstracted: what models answer is a choice; a pattern is its fingerprint; the
recurrence threshold is in the choice of the patterns a request detects. The
commit an issue's date resolves to is named by its pattern.

### Verifier

`pc` is where the verify thread is in `verify` and `_run_cycle`. The sandbox is
modelled by what a run in it imports for each path: the released file, the buggy
one of the overlay or the one of the fix. `ws.staged` is what was written into
the workspace, `ws.manifest` what the bootstrap script of a Docker run copies
(for a subprocess: what lies on disk), `ws.landed` what provisioning left in
`.tvastr_deps`, `ws.kept` what a run imports without the manifest. `Reach` is
what the bootstrap can resolve, or what a Python at the workspace's root finds
there; `Seen` follows, and `AfterRun` is what survives the container: a copy
into `.tvastr_deps`, which is on the mount, does; a copy into the image does not.
`Overlay` is `_apply_buggy_overlay` with any non-empty choice of files that exist
at the parent commit, `Patch` the two halves of `patch_changes`, `Rerun` the
patched run with `Triage`, `Finish` and `Repair` the two ways out of the loop's
body, both through its `finally`. `base` and `rerun` record what ran, with what
and with what result.

Abstracted: what a run prints is any combination of what the verifier looks for;
a bootstrap that fails on a missing parent package is one of the runs that exit
non-zero; `fail_fast` is graded as `repair`; provisioning that is switched off
lands nothing; which tests are in scope is a choice. The verify thread's death
with its process is in `RunLifecycle`.

`Verifier` meets `RunLifecycle` in `VerifyStart` and `VerifyEmit`, which are its
thread as the run file sees it (`FixWave` too has it as two steps): `results` is
the `verify.result`, `errors` the `error` event.

### AgentRun

`pc` names the nodes of the graph, `seed`, `ask`, `act` and `final` the parts of
`_investigate`: `SeedFromTraces` fetches the first suspects, `ProposeActions`,
`ReadFile`, `SearchOrList` and `EndOfActions` are a round, `final` the call without
tools after the last one. An answer that has a root cause or actions, but no list
where one is read, raises out of the node (`MalformedAnswer`). `seen`, `files`,
`round` and `suspected` are its locals, `unseen` the history of what was gathered
since a model was last asked. `Apply` is one operation of a fix with the tests of
`_build_real_changes` and `_apply_change`, which raises after it has applied the
operation if the rationale is no string, and then there is no proposal;
`BuildChanges` is the files that differ in the end, `Placeholder` the fallback. A
file is a sequence of tokens and an operation searches one: the code asks only
whether the search string occurs once in what the operations before it have left.

Abstracted: what models answer and hosts return is a choice; a confidence is zero,
below or above `min_confidence`, which is positive; the comparison with an upstream
pull request changes nothing but a note; `Ground` is `Grounding` in one step, since
it rewrites the summary only. Among concurrent calls, the same graph is the labels
of `Remediation`.

### Grounding

One package. `dir` is the cache, directory by directory and item by item; a
thread goes from `probe` to `fetch`, where a directory with anything in it is a
`Hit`, to `pip` (`Resolve`) and `moving` (`Move`, one item at a time, as pip moves
what it unpacked), to `extract`, or over `cleanup` (`rmtree`, then the attempt
without the pin) or `giveup` (an exception: `rmtree`, no other attempt). `Extract`
takes any walk over class blocks in the order of the files. A block is the set of
keywords in it (`whole`) and of those left in its truncated text (`cut`); it is
dropped if none is left (`Kept`), and goes to the bucket of the first keyword of the
whole block only (`InBucket`), whatever else it matches. `Snippets` takes the
buckets round by round, and `Prompt` is what of all this the model gets to see.
`told` counts the `doc.sdk_schema` events.
`trouble` is history: directories that two threads used at a time, or in which a
dying server left an install.

Abstracted: the keywords of a probe are distinct, and numbers in their order;
versions are numbers in order of publication. pip is external. A pip process that
outlives a server is not modelled.

### WeeklyReport

A failure is the fingerprint of a candidate, and a file is how often each is in
it. `LogError` takes the day, `AppendLog` is the rest of `_write` under the lock,
with `_prune` when the day changes. `StartRun`, `RunFails` and `EndRun` are what
happens to run files, also after their end, by a verification. `Scan` is `scan_day`
(`Mined`: the loop guard and the terminal event; `Clusters`), `Consolidate` is
`consolidate_week` (`Merged`, `Outranks`, `Top`, `ToFix`). When they run is up to
`SelfHealScheduler`; here they may run at any time. `written`, `unseen`, and
`truth` and `complete` in a report are history.

Abstracted: the class of a failure is a constant; an element of `Runs` stands for
any number of runs of a day that share their fate; samples and times are left out.

### ResolutionCache

`thread[i]` are the comments of an issue in GitHub's order, to which people append
while a request thread fetches the first, the last and the last but one page
(`FirstPage`, `LastPage`, `PrevPage`, each of which may fail). `Assess` is
`detect_resolution`, `Put` is `_cache_put` with its purge and eviction, `CacheHit`
and `CacheMiss` are `_cache_get`. `known` and `began` are history: how many comments
there were, and when, as the fetch began; an assessment keeps them through the
cache, whose own date (`at`) is that of the put. So a slow thread that puts an older
assessment over a newer one shows in the answer. Its names differ from those of
`Grounding`, so that one module of proofs extends both.

Abstracted: a comment is whether it is a bot's, a maintainer's, and has a signal.
Assumed: no comment is deleted; no request works on its answer, from the miss to the
put, for more than `MaxFetch`. The client's timeout of 15 s is one of single reads, a
request makes up to four calls, and nothing bounds how long a thread is not scheduled:
`MaxFetch` is an assumption, not a constant of the code.

## 3. Runs

All configurations switch the deadlock check off: the calendar, the number of
requests and of deaths are bounded, and a server with nothing to do stops.

| run | instance | question |
|---|---|---|
| `lifecycle_sweep` | one API run, one wave run, one verify thread, 2 deaths, torn appends; fair | Is the sweep honest, idempotent and sufficient, is every producer registered, does no run stay in limbo? |
| `lifecycle_stream` | one API run, one verify thread, one client, 2 deaths, torn appends, disk errors; fair | Are streams exact and complete, do they end, do they implement `EventLog`? |
| `scheduler` | weeks of 2 days, 3 days from a fresh install with 2 weekly days, 1 death, failing saves, manual scans | Does each job fire when, and only when, it should? |
| `fix_wave` | 2 clusters, 2 patterns, 1 verification, 1 death, a file that cannot be relied on; fair | Does every cluster get one true outcome, one run at a time, and is nothing of the wave mined? |
| `verifier` | 4 paths, 2 repairs, both sandboxes, every configuration; fair | Are attempts isolated, is the fix tried alone, is the verdict true, is there one result? |
| `remediate` | 2 calls, one after the other or overlapping, 2 patterns, 3 hosts, 2 requests, 1 death | One pull request, an exact audit log; while calls do not overlap and none raises, dedup and the right era? |
| `agent` | 2 source files, 1 page of documentation, 2 seeds, 2 rounds, 2 files of context, 3 operations; fair | Does the agent act on what it has seen, are its edits exact, does it end? |
| `grounding` | 2 threads, a pin that may not be published yet, 2 items, walks of 3 blocks over 2 keywords for 2 snippets, 3 groundings, 1 death; fair | Is the cache true to its names, the evidence whole, does no keyword starve another, is each grounding told once? |
| `weekly_report` | 3 days in two weeks, 3 failures, 2 log writers, 2 times that something fails, retention of a day | Does a report count every failure once and give the wave the right ones, are recent logs kept? |
| `resolution_cache` | 2 threads, 2 issues with room for 1, pages of 2, threads of 3 or 4 comments, 1 more posted meanwhile, TTL of 2, requests of 1 | Is a maintainer heard, is no answer older than the TTL and a request? |
| `weekly_day_missed`, `host_nested` | as `scheduler` and `remediate` | Refuted: see below. |

Bounds. `MaxLines` stops optional events only: 3 or 4 lines are enough for a run
that starts, proposes a fix, is verified, dies, and is swept, with a fragment before
or after each. Two deaths show that the sweep is idempotent. One stream is enough
because streams do not interact; one verify thread, because the properties relate a
run to one append at a time. Weeks of two days have a first and a last day, two
weekly days show a second firing, one death can fall on every label of the thread.
Two clusters are a run that is over, and may be verified or mined, and one that is
under way; two patterns give a run one pull request and a failure after it, or two
pull requests; one bad file next to a good one shows that the failures of a cluster
stay its own. The four paths are one that fix and pull request share, one of each
alone, and a notebook; the image has only the first two, the packages the first and
the fix's, so every case of `Seen` occurs. `_MAX_REPRO_REPAIR` is 2 in the code. Two
calls on two patterns let the calls share a pattern and differ in the other; the
window is shorter than the run, so it expires in the middle. One source file of the
agent holds a token twice, the other every token once; three operations are enough
for one that makes the next ambiguous, unique again, or undoes it. Two threads are a
fetch and one that comes into its way; the pin may be published in between. The
failures of the weekly report are one whose burst outweighs the next class and is
not fixable, one that ranks below it and is, and one above both; the last day is
alone in its week. Three blocks are two of a common keyword before one of a rare
one, cut in any way. With room for one entry, every second issue evicts; of two
threads, one can put an older assessment over a newer one. Pages of two and a limit
of two make the last page of three or four comments too short or exactly enough, and
one comment more fills it, or adds a page while the fetch is under way. Issues with
fewer comments are left to the theorem.

Fairness (`RunLifecycle!FairSpec`): threads and the event loop are scheduled,
appends return, and a process that died is restarted and finishes its startup. A
pipeline thread has strong fairness because verify threads append to the same file
and do other work between appends. A body stops emitting steps (a bound of the
model; the agent's loop is bounded, which `AgentEnds` checks and `StepsBounded`
proves). Nothing is assumed of clients, of requests, or of the process staying up.
`FixWave!FairSpec`: the scheduler's thread goes on with a wave it has begun, and
pipeline threads are scheduled; models, hosts and disks answer or raise, since the
client libraries time out. Nothing is assumed of restarts, scans or verifications.
`Verifier!FairSpec`: the thread goes on; each run and each pip has a timeout.
`AgentRun!FairSpec`: one thread runs the graph. `Grounding!FairSpec`: the threads
run; pip is killed at its timeout.

### Where the code and its documents differ

Each of these is a run that TLC must refute, with the sentence it quotes in
`PROJECT.json`:

* `weekly_day_missed`: nothing catches up a weekly day that passed.
* `host_nested`: an exception leaves the issue-era host in the shared context.

Seen while modelling, without a run:

* Run files: the sweep's marker is glued to a fragment left by a kill, and the run
  stays unmarked until the next restart (`events.py:212`; `SweepSettles` excepts
  the fragment). A failing verification writes a terminal event into the file of a run that
  still works, and streams end early (`verify.py:221`; `DoneIsComplete` excepts
  those). A thread that cannot be started leaves its entry in `IN_FLIGHT` for as long as
  the process lives (`runner.py:85-86`), where the module says that the entry "is
  removed on the way out, no matter what" (`runner.py:11`); its streams end all the
  same, since they ask `is_alive`. A wave's file exists before its thread is registered, and a
  stream attached in between is told `done`, where ADR-0008 says a terminal event
  has been seen or the thread has exited.
* Pipeline: overlapping calls both start on one pattern (`pipeline.py:143`,
  `threshold.py:4-5`; `DedupRespected` excepts overlaps); the exception of one
  pattern drops the later ones (`pipeline.py:167`); `_notify` words a failed pull
  request as low confidence.
* Scheduler: `tick` says it never raises, but `_save_state` is outside the `try`
  (`SaveRaises`); ADR-0009 names the state file `state.json`, the code
  `scheduler_state.json`; a death while the weekly decision is saved loses the
  daily one, which is in the same file, so the day is scanned again (`FiresOnce`
  counts it in `lost`).
* Scan and report: a digest truncated by a manual scan reads as a day that was
  never scanned; a scan of a day whose log was pruned empties its digest; clusters
  that are by design take places of `top_n` (`report.py:248`), so that many of them
  leave fewer to the wave (`ReportHonest` allows it).
* Wave: the failure of a verification is logged without the `self_heal` field, so a
  person's verification of a wave run can be mined from the selflog (`LoopGuard`
  excepts it), and if it fails before the wave has read its run back, the outcome is
  `failed` and not `unverified`.
* Agent: all suspects are marked as seen though at most five are fetched
  (`graph.py:155`), so the model cannot ask for the others; a placeholder is
  drafted and opened like a fix, and no field of its audit record tells them apart,
  where `fix_generation.py:10-11` says the audit log records the degradation.
* SDK cache: `@latest` is never refreshed; a directory that a kill left half
  installed is a hit for ever (`WholeUntilTrouble` excepts it). A common keyword can
  starve a rare one, where `extract_schema_snippets` says it cannot
  (`sdk_schema.py:152-154`), if the rare one's class matches the common one too: it is
  in the other's bucket then, behind the classes there. And a bucket's turn can go to
  a class from which truncation has cut its keyword.
* Resolution: a failed fetch of comments is cached for ten minutes as none; a slow
  fetch overwrites a newer one, with a later date, so that an answer may go back to
  an older one (`AnswersRecent` bounds how far).
* Verifier: a baseline that timed out, or whose bootstrap failed, counts
  as a reproduction; scoped tests without a summary count as clean, where
  `regression.py:66-67` says -1, and they run in a workspace that does not hold them;
  a sandbox that cannot be prepared gives an `error` event, not the verdict
  `environmental_error`.

## 4. Proofs

`RunLifecycleProofs`: for any sets of runs, verify threads and clients, with torn
appends and disk errors, `Spec => []IInv`, and from it `TypeOK`, `StreamExact`,
`DoneIsComplete`, `HonestInterruption` and `ProducersRegistered`. The properties
are not inductive on their own. That a stream told `done` is complete needs that
"not alive", read before the file, stays true (`StreamsRemember`), which needs
that a thread leaves the registry only after its last event
(`ThreadsRegistered`) and that nobody but the pipeline appends pipeline events
(`AppendsAllowed`); that a mark is honest needs that the sweep runs alone
(`QuietUnlessUp`) and that the pipeline's terminal event is its last
(`TerminalsFinal`). `IInv` is their conjunction; there is one lemma per action.
`ProducersRegistered` needs one invariant more: nobody writes into the file of a run
whose thread has not been started (`NothingBeforeStart`).
`SweepIsSufficient` is proved on top of it, from the assumption that the disk takes
the marks (`~DiskFails`): a lost run with an event is settled as soon as the sweep
has left it behind (`Swept`), and stays so since a verification shows only runs that
have an event (`Evident`).

`LifecycleImplementsLog`: if all runs are API runs, every step of the lifecycle
is a step of `EventLog` or leaves it alone. With wave runs this is false: a
stream may be told `done` between the file's creation and the thread's
registration, so the assumption is in the theorem.

`SelfHealSchedulerProofs`: for weeks of any length, any weekly day and number of
days, deaths, failing saves and manual scans, every safety property of the run.
`Decided`: a hook runs on the decision that is in memory and on disk; so a death
cannot repeat it. `Remembered`: what memory or disk remembers of a day was started
or given up, and an idle scheduler that polled after the hour remembers yesterday.
`ScansOnce` bounds the scans of a day by the losses of the state file: once
yesterday's is started, memory and disk remember it as long as they are.
`WeeksOnce` needs the calendar: the weekly hook of a week runs on one date only
(`OneDate`, from lemmas on quotients), on which the daily decision has already been
saved, so the state file cannot be lost any more by the save that precedes the
hook. `Posts` follows a report through wave, outcomes and escalation.

`FixWaveProofs`: for any number of clusters, patterns, verifications and deaths
and any set of bad files, `Spec => []IInv`, and from it `LoopGuard`,
`SummaryHonest`, `OneOutcomeEach` and `OneRunAtATime`. That nothing is mined needs
that the first event of a wave run's file carries the marker and that nobody
writes before it: a verification needs a fix in the file, the sweep an event
(`MarkedFirst`). That a summary is true, and stays true, needs that the file tells
all there is to tell when it is read, unless the disk failed (`FileTells`), that a
thread lives only while the wave waits for it (`LiveIsJoined`), and that the runs
ahead have not begun (`AheadNotBegun`).

`VerifierProofs`: for any fix, pull request, image, packages and number of repairs,
`Spec => []IInv`, and from it every safety property of the run. The heart is
`StageOK`: before the patch nothing but the overlay is in the workspace, and the
last baseline saw exactly the overlaid files within reach (`RunOfOverlay`); so,
when the patch is staged, a path shows either what the baseline saw or the fix
(`SeenWithFix`). It needs that overlaid paths are importable, and that a package
which keeps an overlaid file is one whose file the patch copies again. `CycleOK`
ties verdict, baseline and patched run to one attempt and one reproducer; there
is one lemma for each part of `IInv`.

`RemediationProofs`: for any number of calls, patterns, requests and deaths, every
safety property of the run. `OnePullPerPattern`: whoever is past the creation of the
branch of a pattern is alone there, and a pattern without a branch has no pull
request; the dedup table has no part in it. `AuditExact`: the records written and
those that are about to be written are the pull requests, unless an exception or a
death came between. `DedupRespected`: while calls do not overlap, nothing a call has
still to do was handled since it was selected (`Serial`, `Undone`).
`OwnEraUntilTrouble`: an idle pipeline has its real host, and an agent reads through
the layer of its own pattern (`Eras`). `Select` is a set with the one sequence it
describes, because what `SelectSeq` returns is defined by recursion.

`AgentRunProofs`: for any paths, contents, answers, rounds and operations, every
safety property of the run. `Settled`: from the gate on a confident diagnosis is a
model's, and nothing was gathered after it. `Exact`: the places where a file
differs are at most as many as the operations applied to it and hold their text;
an operation that is accepted adds one to both at most, since it has one place
(`OnePlace`, `OneMore`). `ProposalInv`: before the edits nothing is changed, and
only editable files are; that the placeholder's target is editable needs that there
is a first editable file (`FirstExists`, by the well-founded order of positions).

`CacheProofs`, on `Grounding`: for any threads, pins, items, keywords and deaths,
every safety property of the run. `Pinned`: whoever moves items into a pin's
directory has resolved that version. `Tidy`: in a directory without trouble one
thread is at a time, and it holds nothing, a whole package, or half of the install
of the thread that is there; an interruption is followed by `rmtree` before anyone
else sees it. `RareKeywordsShown` counts: a bucket has a first block (`SmallestNat`,
by the well-founded order of positions), before which only first blocks of other
buckets are taken, fewer than there are snippets (the assumption that the probe's
keywords are no more than `max_snippets`; the code has 4 and 6). If no earlier
keyword accompanies a keyword and truncation spares it, its text is in that block.

`CacheProofs`, on `ResolutionCache`: for any
threads, issues, comments, page size, limit and cache size, both properties of the
run. `Wanted` are the comments of before the fetch that fewer than the limit follow;
when the requests for the pages are over, all of them have been fetched (`FetchOk`),
although the thread has grown between the requests: the page named was the last one
of some moment since (`Named`), so what is wanted and not on it is on the page before,
and that page was then short (`ShortPage`; the limit is at most a page, as in the
code). `AnswersHeard` says of answers and of cached entries alike what
`MaintainerHeard` promises. `AnswersRecent` follows from `FetchesInTime`: a thread at
work has begun at most `MaxFetch` ago, and so had the fetch behind a cached entry when
it was put. A put leaves at most `Max` entries (`RoomForOne`).

`WeeklyReportProofs`: for any number of days, weeks of any length, runs, loggers,
failures and classes of theirs, retention and cuts, both properties of the run and the
type invariant. What a report counts is a sum of sums, and a sum of the community
modules is a fold, defined by recursion. The first part of the module proves what is
needed of it: there is exactly one fold of a finite set (`FoldExists`, `FoldUnique`, by
a least counterexample among the numbers), so a sum is what its recursion says
(`SumUnfold`), and from there, by a least counterexample among the subsets
(`MinimalSubset`, `SubsetInduction`), that a sum may be split, compared and regrouped
(`SumUnion`, `SumLe`, `SumOfSums`). That a report is honest is then an invariant of the
single days: what the digest of a day counts is at most what was written to its files,
and is that unless the day has changed since it was mined (`DigestsTrue`); it needs
that pruning only removes (`NothingInvented`), and that a run is mined on one day and
only more of it can be later (`DayGrows`). A report adds up its days (`MergedSum`,
`TruthSum`). The order of `_rank` is a strict total order (`OutranksOrder`), of which
the first n outrank the rest and are n or all (`FirstOutrank`). For `RecentLogsKept`
it is enough that no writer has a day of the future (`Kept`), since what is pruned is
counted from the day of the writer, which may be yesterday's, never tomorrow's.

Liveness: five of the six liveness properties are half proved. Nothing that can go on
does so for ever: each step of an agent, of a verification, of a wave and its runs and
of a grounding leaves less of a natural number (`Rank`, `WaveRank`, `RunRank`), for all
values of the constants. `AgentRunProofs!StepsBounded` counts the paths still to read,
the rounds left (three for each, since a round is an ask and an act and one result of a
search), the stages of the graph ahead and the operations left of a finite proposal;
`VerifierProofs!StepsBounded` the stages of an attempt and nine for each repair left;
`CacheProofs!GroundingsBounded` the items pip has still to move and the attempt without
a pin, for each thread whatever the others do, and that a thread that leaves the fetch
has said so exactly once; `FixWaveProofs!WaveBounded` at most three steps of the wave
for a cluster and five of a run for a pattern; and `WaitsForLiveRuns` that the join,
which has no timeout, is of a thread that lives or is over. `SweepIsSufficient` is that
half of `NoLimbo` for runs whose process died. `StreamEnds` has none: a client reads
for as long as somebody appends.

Assumptions: the named `ASSUME`s of the modules (constants are of their type, model
values differ from data), evaluated by TLC in every run. The type invariants of all
modules with a run of their own are proved, by themselves or as part of an invariant.

Every safety property that a passing run checks is a theorem. Left to TLC: that the
system does go on, in the liveness properties (`StreamEnds`, `NoLimbo`, `WavePosts`,
`VerificationEnds`, `AgentEnds`, `GroundingEnds`), which needs fairness and `ENABLED`;
and what the recursive definitions of the library compute for every input.

## 5. What is not modelled

* The reconstruction of a run for its verification, samples and messages, prompts,
  reproducers, diffs: text whose content no property tells apart.
* Redaction (`pii/`): substitution by regular expressions, character by character.
* Routing (`llm/router.py`): one stateless decision per call; the clients are I/O.
* Ingestion of logs and issues, analysis of existing pull requests: read-only
  requests whose failures their callers catch, and parsing.
* Two verifications of one run at a time: they share the file only, and one write
  per line is assumed not to be interleaved with another.
* A pip that outlives the server that started it; comments that are deleted; more
  than one server process on one data directory.
* The read-only routes, the CLI (one pipeline in a process of its own, which is a
  `Remediation` with one call), web pages, configuration, logging.
