------------------------------- MODULE FixWave -------------------------------
(***************************************************************************)
(* One weekly fix wave: run_fix_wave starts a pipeline run per cluster of  *)
(* the report, joins it and reads its outcome back from the run file;      *)
(* escalate posts the summary (selfheal/remediate.py, runner.py, the       *)
(* events of pipeline.py and agent/graph.py).  People verify wave runs     *)
(* like any other (api/routes/verify.py), the process dies, is restarted   *)
(* and sweeps (events.py), and scans mine the run files and the selflog    *)
(* (selfheal/scan.py).                                                     *)
(*                                                                         *)
(* A run file is the set of its events: whoever reads it here asks only    *)
(* whether it holds some event.                                            *)
(***************************************************************************)
EXTENDS Naturals, Sequences, FiniteSets

CONSTANTS
    NClusters,    \* clusters in the report's to_fix; run i is for cluster i
    MaxPatterns,  \* patterns a cluster's samples fall into, at most
    MaxVerifies,  \* bound: number of verifications
    MaxCrashes,   \* bound: number of times the process dies
    BadFiles      \* run files an append to, or the reading of, may raise

Clusters == 1..NClusters

ASSUME FixWaveAssumption ==
    /\ NClusters \in Nat /\ MaxPatterns \in Nat \ {0}
    /\ MaxVerifies \in Nat /\ MaxCrashes \in Nat /\ BadFiles \subseteq Clusters

\* Event types the readers tell apart.  "zero" is the end of an investigation
\* with confidence 0.0, "verify_error" the `error` event of the verify route,
\* "broken" a verify.result with verdict repro_broken.
EventTypes == {"start", "zero", "fix", "pr.opened", "audit.saved", "end", "error",
               "result", "broken", "verify_error", "interrupted"}

\* n is the pattern whose pull request the event names, or 0
Event    == [type : EventTypes, n : 0..MaxPatterns]
Ev(type) == [type |-> type, n |-> 0]

Terminal == {"end", "error", "verify_error", "interrupted"}

Statuses == {"pr_created", "unverified", "failed", "skipped"}
Outcome  == [of : Clusters, status : Statuses, urls : SUBSET (1..MaxPatterns)]

VARIABLES
    up, crashes,
    openPrs,   \* settings.self_heal_open_prs
    wave,      \* where the scheduler thread is in the wave
    at,        \* the cluster it is at
    outcomes,  \* run_fix_wave's list
    posted,    \* what escalate has posted, <<>> before
    file,      \* run -> the events of its file
    torn,      \* run -> a fragment of a line ends its file
    pc,        \* run -> where its pipeline thread is
    pat,       \* run -> the pattern its agent works on
    pulls,     \* run -> pull requests the host has told it of
    verifying, \* runs with a verify thread
    verifies,
    selflog,   \* error records in the selflog: whence, and self_heal or not
    mined,     \* runs that scans have taken candidates from
    minedLogs, \* selflog records that scans have taken
    diskBad    \* history: runs whose file an append or a read failed on

server   == <<up, crashes, openPrs>>
waveVars == <<wave, at, outcomes, posted>>
files    == <<file, torn, diskBad>>
threads  == <<pc, pat, pulls>>
verify   == <<verifying, verifies>>
mining   == <<mined, minedLogs>>
vars     == <<server, waveVars, files, threads, verify, selflog, mining>>

Record == [event : {"run.failed", "run_failed", "wave_failed", "verify.failed"},
           self_heal : BOOLEAN]
Pc     == {"none", "boot", "run", "agent", "open", "opened", "audit", "raised",
           "exit", "gone", "lost"}
Live   == {"boot", "run", "agent", "open", "opened", "audit", "raised", "exit"}

TypeOK ==
    /\ up \in BOOLEAN /\ crashes \in 0..MaxCrashes /\ openPrs \in BOOLEAN
    /\ wave \in {"waiting", "next", "join", "read", "post", "done", "dead"}
    /\ at \in 1..(NClusters + 1)
    /\ outcomes \in Seq(Outcome) /\ posted \in Seq(Outcome)
    /\ file \in [Clusters -> SUBSET Event] /\ torn \in [Clusters -> BOOLEAN]
    /\ pc \in [Clusters -> Pc] /\ pat \in [Clusters -> 0..MaxPatterns]
    /\ \A i \in Clusters : pc[i] \in {"agent", "open", "opened", "audit"} => pat[i] # 0
    /\ pulls \in [Clusters -> SUBSET (1..MaxPatterns)]
    /\ verifying \subseteq Clusters /\ verifies \in 0..MaxVerifies
    /\ selflog \subseteq Record
    /\ mined \subseteq Clusters /\ minedLogs \subseteq Record
    /\ diskBad \subseteq Clusters

Init ==
    /\ up = TRUE /\ crashes = 0 /\ openPrs \in BOOLEAN
    /\ wave = "waiting" /\ at = 1 /\ outcomes = <<>> /\ posted = <<>>
    /\ file = [i \in Clusters |-> {}] /\ torn = [i \in Clusters |-> FALSE]
    /\ pc = [i \in Clusters |-> "none"] /\ pat = [i \in Clusters |-> 0]
    /\ pulls = [i \in Clusters |-> {}]
    /\ verifying = {} /\ verifies = 0
    /\ selflog = {} /\ mined = {} /\ minedLogs = {} /\ diskBad = {}

Has(events, types)    == \E e \in events : e.type \in types
Goto(i, label)        == pc' = [pc EXCEPT ![i] = label]
Log(event, self_heal) == selflog' = selflog \cup {[event |-> event, self_heal |-> self_heal]}
-----------------------------------------------------------------------------
(* JsonlEventSink.emit.  A line glued to a fragment does not parse.        *)

Appended(i, e) ==
    /\ file' = [file EXCEPT ![i] = IF torn[i] THEN @ ELSE @ \cup {e}]
    /\ torn' = [torn EXCEPT ![i] = FALSE]
    /\ UNCHANGED diskBad

AppendFails(i) ==
    /\ i \in BadFiles
    /\ torn' \in {torn, [torn EXCEPT ![i] = TRUE]}
    /\ diskBad' = diskBad \cup {i}
    /\ UNCHANGED file

\* What a thread emits; when the append raises, so does the body
Emit(i, e, label) ==
    /\ \/ Appended(i, e) /\ Goto(i, label)
       \/ AppendFails(i) /\ Goto(i, "raised")
    /\ UNCHANGED <<server, waveVars, pulls, verify, selflog, mining>>
-----------------------------------------------------------------------------
(* run_fix_wave, on the scheduler's thread                                 *)

Skipped(is) == [i \in is |-> [of |-> i, status |-> "skipped", urls |-> {}]]

StartWave ==
    /\ up /\ wave = "waiting" /\ wave' = "next"
    /\ UNCHANGED <<server, at, outcomes, posted, files, threads, verify, selflog, mining>>

\* _self_run_settings raises: every cluster is reported skipped
PrologueFails ==
    /\ up /\ wave = "waiting" /\ wave' = "post"
    /\ outcomes' = Skipped(Clusters)
    /\ Log("wave_failed", TRUE)
    /\ UNCHANGED <<server, at, posted, files, threads, verify, mining>>

\* start_pipeline_thread
StartRun ==
    /\ up /\ wave = "next" /\ at \in Clusters
    /\ Goto(at, "boot")
    /\ wave' = "join"
    /\ UNCHANGED <<server, at, outcomes, posted, files, pat, pulls, verify, selflog, mining>>

\* The cluster's own except: one outcome, and on to the next
ClusterFails ==
    /\ outcomes' = Append(outcomes, [of |-> at, status |-> "failed", urls |-> {}])
    /\ wave' = "next" /\ at' = at + 1
    /\ Log("run_failed", TRUE)

\* Mutant: the except goes on without an outcome
StartRunFailsSilently ==
    /\ up /\ wave = "next" /\ at \in Clusters
    /\ at' = at + 1
    /\ Log("run_failed", TRUE)
    /\ UNCHANGED <<server, wave, outcomes, posted, files, threads, verify, mining>>

\* The file cannot be created, the thread cannot be started
StartRunFails ==
    /\ up /\ wave = "next" /\ at \in Clusters
    /\ ClusterFails
    /\ UNCHANGED <<server, posted, files, threads, verify, mining>>

\* Mutant: the starter returns once the thread runs
JoinNothing ==
    /\ up /\ wave = "join"
    /\ wave' = "read"
    /\ UNCHANGED <<server, at, outcomes, posted, files, threads, verify, selflog, mining>>

\* Mutant: it waits for the end of the run file
JoinOnFile ==
    /\ up /\ wave = "join" /\ Has(file[at], Terminal)
    /\ wave' = "read"
    /\ UNCHANGED <<server, at, outcomes, posted, files, threads, verify, selflog, mining>>

\* thread.join()
Join ==
    /\ up /\ wave = "join" /\ pc[at] = "gone"
    /\ wave' = "read"
    /\ UNCHANGED <<server, at, outcomes, posted, files, threads, verify, selflog, mining>>

\* _pr_urls
PrUrls(events) == {e.n : e \in {x \in events : x.type \in {"pr.opened", "audit.saved"}}} \ {0}

\* Mutant: an error is looked for before a pull request
StatusErrorFirst(events) ==
    IF Has(events, {"error", "verify_error"}) \/ ~Has(events, Terminal) THEN "failed"
    ELSE IF PrUrls(events) # {} THEN "pr_created" ELSE "unverified"

\* _read_outcome
Status(events) ==
    IF PrUrls(events) # {} THEN "pr_created"
    ELSE IF Has(events, {"error", "verify_error"}) \/ ~Has(events, Terminal) THEN "failed"
    ELSE "unverified"

ReadOutcome ==
    /\ up /\ wave = "read"
    /\ outcomes' = Append(outcomes, [of |-> at, status |-> Status(file[at]),
                                     urls |-> PrUrls(file[at])])
    /\ wave' = "next" /\ at' = at + 1
    /\ UNCHANGED <<server, posted, files, threads, verify, selflog, mining>>

ReadOutcomeFails ==
    /\ up /\ wave = "read" /\ at \in BadFiles
    /\ ClusterFails
    /\ diskBad' = diskBad \cup {at}
    /\ UNCHANGED <<server, posted, file, torn, threads, verify, mining>>

EndWave ==
    /\ up /\ wave = "next" /\ at > NClusters /\ wave' = "post"
    /\ UNCHANGED <<server, at, outcomes, posted, files, threads, verify, selflog, mining>>

\* build_escalation: one line per cluster, skipped when it has no outcome
Escalation ==
    [i \in Clusters |->
        IF \E o \in DOMAIN outcomes : outcomes[o].of = i
        THEN outcomes[CHOOSE o \in DOMAIN outcomes : outcomes[o].of = i]
        ELSE Skipped({i})[i]]

\* escalate; a notifier that raises is logged
Post ==
    /\ up /\ wave = "post" /\ wave' = "done"
    /\ \/ posted' = Escalation \/ UNCHANGED posted
    /\ UNCHANGED <<server, at, outcomes, files, threads, verify, selflog, mining>>
-----------------------------------------------------------------------------
(* The pipeline thread of run i                                            *)

\* build_pipeline, then pipeline.start with the run_meta of the wave
EmitStart(i) ==
    /\ pc[i] = "boot" /\ Emit(i, Ev("start"), "run") /\ UNCHANGED pat

StartPattern(i) ==
    /\ pc[i] = "run" /\ pat[i] < MaxPatterns
    /\ pat' = [pat EXCEPT ![i] = @ + 1] /\ Goto(i, "agent")
    /\ UNCHANGED <<server, waveVars, files, pulls, verify, selflog, mining>>

\* _investigate and the gate: to the fix, or to a human.  Other confidences
\* below the gate leave no event of their own.
Investigate(i) ==
    /\ pc[i] = "agent"
    /\ \/ Emit(i, Ev("fix"), "open")
       \/ Emit(i, Ev("zero"), "audit")
       \/ /\ Goto(i, "audit")
          /\ UNCHANGED <<server, waveVars, files, pulls, verify, selflog, mining>>
    /\ UNCHANGED pat

\* _open_pr.  _self_run_settings forces a dry run unless openPrs
OpenPull(i) ==
    /\ pc[i] = "open" /\ openPrs
    /\ pulls' = [pulls EXCEPT ![i] = @ \cup {pat[i]}] /\ Goto(i, "opened")
    /\ UNCHANGED <<server, waveVars, files, pat, verify, selflog, mining>>

CaptureDraft(i) ==
    /\ pc[i] = "open" /\ ~openPrs /\ Goto(i, "audit")
    /\ UNCHANGED <<server, waveVars, files, pat, pulls, verify, selflog, mining>>

EmitOpened(i) ==
    /\ pc[i] = "opened"
    /\ Emit(i, [type |-> "pr.opened", n |-> pat[i]], "audit") /\ UNCHANGED pat

\* audit.saved names the pull request, if there is one
EmitAudit(i) ==
    /\ pc[i] = "audit"
    /\ Emit(i, [type |-> "audit.saved", n |-> IF pat[i] \in pulls[i] THEN pat[i] ELSE 0], "run")
    /\ UNCHANGED pat

\* A reconstructed event is an error and the threshold is 1: some pattern is
\* always selected
EmitEnd(i) ==
    /\ pc[i] = "run" /\ pat[i] > 0 /\ Emit(i, Ev("end"), "exit") /\ UNCHANGED pat

\* Anything in the body raises: build_pipeline, a model, the host, the audit
\* store.  A pull request whose reply is lost is not in pulls.
BodyRaises(i) ==
    /\ pc[i] \in {"boot", "agent", "open", "audit"} /\ Goto(i, "raised")
    /\ UNCHANGED <<server, waveVars, files, pat, pulls, verify, selflog, mining>>

\* The seam's except: log.exception, then the error event
EmitError(i) ==
    /\ pc[i] = "raised"
    /\ Appended(i, Ev("error")) \/ AppendFails(i)
    /\ Goto(i, "exit")
    /\ Log("run.failed", TRUE)
    /\ UNCHANGED <<server, waveVars, pat, pulls, verify, mining>>

Exit(i) ==
    /\ pc[i] = "exit" /\ Goto(i, "gone")
    /\ UNCHANGED <<server, waveVars, files, pat, pulls, verify, selflog, mining>>

Thread(i) ==
    \/ EmitStart(i) \/ StartPattern(i) \/ Investigate(i) \/ OpenPull(i)
    \/ CaptureDraft(i) \/ EmitOpened(i) \/ EmitAudit(i) \/ EmitEnd(i)
    \/ BodyRaises(i) \/ EmitError(i) \/ Exit(i)
-----------------------------------------------------------------------------
(* Verifications, scans, death and restart                                 *)

VerifyStart(i) ==
    /\ up /\ i \notin verifying /\ verifies < MaxVerifies
    /\ Has(file[i], {"fix"})
    /\ verifying' = verifying \cup {i} /\ verifies' = verifies + 1
    /\ UNCHANGED <<server, waveVars, files, threads, selflog, mining>>

\* The fan-out sink drops an event the file sink cannot append
VerifyEnd(i) ==
    /\ i \in verifying /\ verifying' = verifying \ {i}
    /\ \E type \in {"result", "broken", "verify_error"} :
          /\ Appended(i, Ev(type)) \/ AppendFails(i)
          /\ IF type = "verify_error" THEN Log("verify.failed", FALSE) ELSE UNCHANGED selflog
    /\ UNCHANGED <<server, waveVars, threads, verifies, mining>>

\* Mutant: run_meta is the only place of the marker
SelfHealByStart == {"start"}

\* Events whose payload carries run_meta or the seam's error_payload
SelfHeal == {"start", "error"}

\* The guards of _run_candidates
Mineable(events) == ~Has(events, SelfHeal) /\ Has(events, Terminal)

\* _run_candidates and _extract_run_candidates
Mined(events) == /\ Mineable(events)
                 /\ Has(events, {"error", "verify_error", "zero", "broken"})

\* collect_candidates on the day of the wave
Scan ==
    /\ up
    /\ mined' = mined \cup {i \in Clusters : Mined(file[i])}
    /\ minedLogs' = minedLogs \cup {r \in selflog : ~r.self_heal}
    /\ UNCHANGED <<server, waveVars, files, threads, verify, selflog>>

Crash ==
    /\ up /\ crashes < MaxCrashes
    /\ up' = FALSE /\ crashes' = crashes + 1
    /\ wave' = IF wave = "done" THEN "done" ELSE "dead"
    /\ pc' = [i \in Clusters |-> IF pc[i] \in Live THEN "lost" ELSE pc[i]]
    /\ verifying' = {}
    /\ \E cut \in SUBSET (verifying \cup {i \in Clusters : pc[i] \in Live}) :
          torn' = [i \in Clusters |-> torn[i] \/ i \in cut]
    /\ UNCHANGED <<openPrs, at, outcomes, posted, file, diskBad, pat, pulls, verifies,
                   selflog, mining>>

\* mark_interrupted_runs
Marked == {i \in Clusters : file[i] # {} /\ ~Has(file[i], Terminal)}

Restart ==
    /\ ~up /\ up' = TRUE
    /\ file' = [i \in Clusters |-> IF i \in Marked /\ ~torn[i]
                                   THEN file[i] \cup {Ev("interrupted")} ELSE file[i]]
    /\ torn' = [i \in Clusters |-> torn[i] /\ i \notin Marked]
    /\ UNCHANGED <<crashes, openPrs, waveVars, diskBad, threads, verify, selflog, mining>>

WaveStep == \/ PrologueFails \/ StartRun \/ StartRunFails \/ Join
            \/ ReadOutcome \/ ReadOutcomeFails \/ EndWave \/ Post

Next ==
    \/ StartWave \/ WaveStep \/ Scan \/ Crash \/ Restart
    \/ \E i \in Clusters : Thread(i) \/ VerifyStart(i) \/ VerifyEnd(i)

Spec == Init /\ [][Next]_vars

\* Threads are scheduled and what they wait for returns.  Nothing is assumed of
\* restarts, scans and verifications.
FairSpec == /\ Spec /\ WF_vars(WaveStep)
            /\ \A i \in Clusters : WF_vars(Thread(i))
-----------------------------------------------------------------------------
(*                               Properties                                *)

\* Every cluster has one outcome, in report order, whatever failed on the way
\* (run_fix_wave: "Returns one FixOutcome per to_fix cluster, in report order").
OneOutcomeEach ==
    /\ \A o \in DOMAIN outcomes : outcomes[o].of = o
    /\ wave \in {"post", "done"} => Len(outcomes) = NClusters

\* What an outcome says of run i agrees with what the run did, also with what it
\* did later: the pull requests are those that were opened, all of them unless
\* the disk failed; "unverified" ended by itself; "failed" never started, or
\* left an error, its own or a verification's; "skipped" never started.
Honest(o) ==
    LET i == o.of
    IN  /\ o.urls \subseteq pulls[i]
        /\ i \notin diskBad => o.urls = pulls[i]
        /\ o.status = "pr_created" <=> o.urls # {}
        /\ o.status = "unverified" => Has(file[i], {"end"})
        /\ o.status = "failed" => \/ pc[i] = "none" \/ i \in diskBad
                                  \/ Has(file[i], {"error", "verify_error"})
        /\ o.status = "skipped" => pc[i] = "none"

\* The outcomes, and the summary that is posted, are honest in every cluster
\* (_read_outcome, build_escalation: "what makes the summary honest").
SummaryHonest ==
    /\ \A o \in DOMAIN outcomes : Honest(outcomes[o])
    /\ posted # <<>> =>
          /\ Len(posted) = NClusters
          /\ \A i \in Clusters : posted[i].of = i /\ Honest(posted[i])

\* Two wave runs never work on the repository at the same time ("Sequential,
\* never concurrent", _default_start_run joins).
OneRunAtATime ==
    \A i, j \in Clusters : pc[i] \in Live /\ pc[j] \in Live => i = j

\* No scan takes anything from the file of a wave run: not from one that dies
\* before pipeline.start, nor after a restart, nor behind a torn line, nor from
\* the events a verification adds; and of its log records only those of
\* verifications (scan.py, _run_candidates; runner.py, error_payload).
LoopGuard == mined = {} /\ \A r \in minedLogs : r.event = "verify.failed"

\* A wave that has begun ends in the escalation, unless the process dies (every
\* run is joined without a timeout, so every thread must end, and errors must not
\* stop the loop).
WavePosts == wave = "next" ~> wave \in {"done", "dead"}
-----------------------------------------------------------------------------
(*                       The inductive invariant                           *)

\* run_fix_wave's list and loop variable go together
OutcomesInStep ==
    /\ \A o \in DOMAIN outcomes : outcomes[o].of = o
    /\ wave \in {"waiting", "next", "join", "read"} => Len(outcomes) = at - 1
    /\ wave = "waiting" => at = 1
    /\ wave \in {"join", "read"} => at \in Clusters
    /\ wave \in {"post", "done"} => Len(outcomes) = NClusters
    /\ posted # <<>> => wave = "done"

\* A thread lives only while the wave waits for it
LiveIsJoined ==
    /\ \A i \in Clusters : pc[i] \in Live => up /\ wave = "join" /\ i = at
    /\ wave = "read" => pc[at] = "gone"
    /\ ~up => wave \in {"dead", "done"}

\* The runs ahead have not begun
AheadNotBegun ==
    \A i \in Clusters :
        /\ wave \in {"waiting", "next"} /\ i >= at => pc[i] = "none"
        /\ wave \in {"join", "read"} /\ i > at => pc[i] = "none"

\* The first event of a wave run's file carries the marker: nobody writes into it
\* before pipeline.start or the seam's error does
MarkedFirst ==
    \A i \in Clusters :
        /\ file[i] # {} => Has(file[i], SelfHeal)
        /\ pc[i] \in {"none", "boot"} => file[i] = {} /\ ~torn[i]
        /\ pc[i] \in {"run", "agent", "open", "opened", "audit"} => file[i] # {}
        /\ i \in verifying => file[i] # {}

LogsMarked == \A r \in selflog : ~r.self_heal => r.event = "verify.failed"

\* While the wave goes on, a run's file tells its reader all there is to tell,
\* unless the disk failed
FileTells ==
    \A i \in Clusters :
        /\ PrUrls(file[i]) \subseteq pulls[i]
        /\ pc[i] = "opened" => pat[i] \in pulls[i]
        /\ wave \in {"waiting", "next", "join", "read"} =>
              /\ ~Has(file[i], {"interrupted"})
              /\ i \notin diskBad =>
                    /\ ~torn[i]
                    /\ \A n \in pulls[i] : \/ n \in PrUrls(file[i])
                                           \/ pc[i] = "opened" /\ n = pat[i]
                    /\ pc[i] \in {"exit", "gone"} => Has(file[i], {"end", "error"})

IInv == /\ TypeOK /\ OutcomesInStep /\ LiveIsJoined /\ AheadNotBegun
        /\ MarkedFirst /\ LogsMarked /\ LoopGuard /\ FileTells /\ SummaryHonest
=============================================================================
