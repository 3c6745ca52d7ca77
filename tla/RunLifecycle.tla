---------------------------- MODULE RunLifecycle ----------------------------
(***************************************************************************)
(* The life of a pipeline run, from POST /api/run (or the self-heal wave)  *)
(* to its last persisted event: events.py, runner.py, api/routes/run.py,   *)
(* the event side of api/routes/verify.py and the startup sweep of         *)
(* api/app.py.                                                             *)
(*                                                                         *)
(* A run IS its JSONL file.  Pipeline threads, verify threads and the      *)
(* startup sweep append lines to it; stream clients tail it.  The server   *)
(* process can be killed at any point and restarted; a kill, or a full     *)
(* disk, in the middle of an append can leave a fragment without newline.  *)
(***************************************************************************)
EXTENDS Naturals, Sequences, FiniteSets

CONSTANTS
    ApiRuns,      \* runs started by POST /api/run
    WaveRuns,     \* runs started by the self-heal fix wave
    Verifiers,    \* verify threads
    Clients,      \* clients of GET /api/runs/{run_id}/stream
    NoRun,        \* "no run": an idle verify thread or client
    NoWrite,      \* "no append in progress on this file"
    MaxLines,     \* bound: no optional event is emitted past this many lines
    MaxCrashes,   \* bound: number of times the server process dies
    TornWrites,   \* TRUE: an append cut short leaves a fragment in the file
    DiskFails     \* TRUE: an append can raise OSError

Runs == ApiRuns \cup WaveRuns

(* Event types, abstracted to what the lifecycle tells apart.  "step" is   *)
(* any event that ends nothing; "verify_error" is the `error` event of the *)
(* verify route, of the same type for a reader as the pipeline's `error`.  *)

PipelineEvents == {"start", "step", "fix", "end", "error"}
VerifyEvents   == {"verify", "result", "verify_error"}
EventTypes     == PipelineEvents \cup VerifyEvents \cup {"interrupted"}

\* A line json.loads rejects: a fragment with the next append glued to it.
BadLine == "bad"
Line    == EventTypes \cup {BadLine}

\* events.py _TERMINAL_TYPES, is_terminal_event
Terminal == {"end", "error", "verify_error", "interrupted"}

\* Who appends to a run file
Writers == {"pipeline", "sweep"} \cup Verifiers
PendingAppend == [who : Writers, ev : EventTypes]

ASSUME ConstantsAssumption ==
    /\ ApiRuns \cap WaveRuns = {}
    /\ NoRun \notin Runs
    /\ NoWrite \notin PendingAppend
    /\ "pipeline" \notin Verifiers /\ "sweep" \notin Verifiers
    /\ MaxLines \in Nat /\ MaxCrashes \in Nat
    /\ TornWrites \in BOOLEAN /\ DiskFails \in BOOLEAN

VARIABLES
    \* the server process
    proc,         \* "up", "sweep" (create_app is sweeping) or "down"
    sweepTodo,    \* run files the startup sweep has not looked at yet
    crashes,      \* how often the process died
    \* the disk
    exists,       \* runs whose JSONL file exists
    lines,        \* run -> its newline-terminated lines
    torn,         \* run -> a fragment without newline ends the file for good
    pend,         \* run -> the append in progress, or NoWrite
    \* threads
    inFlight,     \* runner.IN_FLIGHT: the registered runs
    pc,           \* run -> where its pipeline thread is
    job,          \* verify thread -> the run it verifies, or NoRun
    \* stream clients
    sRun, sPc, sAlive, sOff, sSaw, sSent

procVars   == <<proc, sweepTodo, crashes>>
diskVars   == <<exists, lines, torn, pend>>
threadVars == <<inFlight, pc, job>>
streamVars == <<sRun, sPc, sAlive, sOff, sSaw, sSent>>
vars       == <<procVars, diskVars, threadVars, streamVars>>
-----------------------------------------------------------------------------
\* load_events: positions of the lines that parse
Parsed(ls)      == {i \in 1..Len(ls) : ls[i] # BadLine}
HasTerminal(ls) == \E i \in 1..Len(ls) : ls[i] \in Terminal

\* The pipeline thread of r may still emit an event.
Producing(r) == pc[r] \in {"boot", "run", "raised"}

\* `thread is not None and thread.is_alive()`: no thread is alive before its
\* start() has succeeded
Alive(r) == r \in inFlight /\ pc[r] \notin {"registered", "unstarted"}

PcStates == {"idle", "created", "registered", "unstarted", "boot", "run",
             "raised", "exit", "gone", "lost"}

TypeOK ==
    /\ proc \in {"up", "sweep", "down"}
    /\ sweepTodo \subseteq Runs
    /\ crashes \in 0..MaxCrashes
    /\ exists \subseteq Runs
    /\ lines \in [Runs -> Seq(Line)]
    /\ torn \in [Runs -> BOOLEAN]
    /\ pend \in [Runs -> PendingAppend \cup {NoWrite}]
    /\ inFlight \subseteq Runs
    /\ pc \in [Runs -> PcStates]
    /\ job \in [Verifiers -> Runs \cup {NoRun}]
    /\ sRun \in [Clients -> Runs \cup {NoRun}]
    /\ sPc \in [Clients -> {"idle", "poll", "read", "done"}]
    /\ sAlive \in [Clients -> BOOLEAN]
    /\ sOff \in [Clients -> Nat]
    /\ sSaw \in [Clients -> BOOLEAN]
    /\ sSent \in [Clients -> SUBSET Nat]

Init ==
    /\ proc = "up" /\ sweepTodo = {} /\ crashes = 0
    /\ exists = {}
    /\ lines = [r \in Runs |-> <<>>]
    /\ torn = [r \in Runs |-> FALSE]
    /\ pend = [r \in Runs |-> NoWrite]
    /\ inFlight = {}
    /\ pc = [r \in Runs |-> "idle"]
    /\ job = [v \in Verifiers |-> NoRun]
    /\ sRun = [c \in Clients |-> NoRun]
    /\ sPc = [c \in Clients |-> "idle"]
    /\ sAlive = [c \in Clients |-> FALSE]
    /\ sOff = [c \in Clients |-> 0]
    /\ sSaw = [c \in Clients |-> FALSE]
    /\ sSent = [c \in Clients |-> {}]
-----------------------------------------------------------------------------
(* Starting a run.  run_pipeline is a coroutine without an await, so for   *)
(* the stream coroutines it is one step; the wave runs on the scheduler    *)
(* thread, where every statement is a step of its own.                     *)

\* t.start() returns, or raises when the OS has no thread to give; the entry of
\* IN_FLIGHT was made before, and then nobody takes it out
StartThread(r) == \E s \in {"boot", "unstarted"} : pc' = [pc EXCEPT ![r] = s]

\* run_pipeline: touch the file, register the thread, start it
Post(r) ==
    /\ proc = "up" /\ r \notin exists
    /\ exists' = exists \cup {r}
    /\ inFlight' = inFlight \cup {r}
    /\ StartThread(r)
    /\ UNCHANGED <<procVars, lines, torn, pend, job, streamVars>>

\* run_fix_wave touches the run file; the wave joins each run, so no other
\* wave run is under way
WaveCreate(r) ==
    /\ proc = "up" /\ r \notin exists
    /\ \A w \in WaveRuns : pc[w] \in {"idle", "unstarted", "gone", "lost"}
    /\ exists' = exists \cup {r}
    /\ pc' = [pc EXCEPT ![r] = "created"]
    /\ UNCHANGED <<procVars, lines, torn, pend, inFlight, job, streamVars>>

\* Mutant: the thread is started before it is in the map
WaveRegisterLate(r) ==
    /\ pc[r] = "created"
    /\ pc' = [pc EXCEPT ![r] = "boot"]
    /\ UNCHANGED <<procVars, diskVars, inFlight, job, streamVars>>

\* start_pipeline_thread: IN_FLIGHT[run_id] = t
WaveRegister(r) ==
    /\ pc[r] = "created"
    /\ inFlight' = inFlight \cup {r}
    /\ pc' = [pc EXCEPT ![r] = "registered"]
    /\ UNCHANGED <<procVars, diskVars, job, streamVars>>

\* start_pipeline_thread: t.start()
WaveStart(r) ==
    /\ pc[r] = "registered"
    /\ StartThread(r)
    /\ UNCHANGED <<procVars, diskVars, inFlight, job, streamVars>>
-----------------------------------------------------------------------------
(* Appending a line: JsonlEventSink.emit opens the file, writes, closes.   *)
(* BeginWrite .. FinishWrite is the write(2) of one whole line: readers    *)
(* may see part of it, a second appender of the same file waits for it.    *)

BeginWrite(r, who, ev) ==
    /\ pend[r] = NoWrite
    /\ pend' = [pend EXCEPT ![r] = [who |-> who, ev |-> ev]]

\* Where the pipeline thread of a run goes once ev is written
AfterEmit(ev, at) == CASE ev = "start"           -> "run"
                       [] ev \in {"end", "error"} -> "exit"
                       [] OTHER                  -> at

\* What the writer does after its append: the pipeline thread moves on, a
\* verify thread ends with its last event, the sweep turns to the next file
WriterGoesOn(w, r, pcNext) ==
    /\ pc' = IF w.who = "pipeline" THEN [pc EXCEPT ![r] = pcNext] ELSE pc
    /\ job' = [v \in Verifiers |->
                 IF v = w.who /\ w.ev \in {"result", "verify_error"}
                   THEN NoRun ELSE job[v]]
    /\ sweepTodo' = IF w.who = "sweep" THEN sweepTodo \ {r} ELSE sweepTodo

FinishWrite(r) ==
    /\ pend[r] # NoWrite
    /\ lines' = [lines EXCEPT ![r] =
                   Append(@, IF torn[r] THEN BadLine ELSE pend[r].ev)]
    /\ torn' = [torn EXCEPT ![r] = FALSE]
    /\ pend' = [pend EXCEPT ![r] = NoWrite]
    /\ WriterGoesOn(pend[r], r, AfterEmit(pend[r].ev, pc[r]))
    /\ UNCHANGED <<proc, crashes, exists, inFlight, streamVars>>

\* The append raises OSError, with or without part of the line on disk.  The
\* pipeline's sink lets it through: the body fails, or, if it was the error
\* event, the thread ends.  FanoutEventSink and the sweep swallow it.
FailWrite(r) ==
    /\ DiskFails /\ pend[r] # NoWrite
    /\ torn' \in {torn, [torn EXCEPT ![r] = torn[r] \/ TornWrites]}
    /\ pend' = [pend EXCEPT ![r] = NoWrite]
    /\ WriterGoesOn(pend[r], r, IF pc[r] = "raised" THEN "exit" ELSE "raised")
    /\ UNCHANGED <<proc, crashes, exists, lines, inFlight, streamVars>>
-----------------------------------------------------------------------------
(* The pipeline thread: runner._run around the run body.                   *)

Emit(r, ev) ==
    /\ BeginWrite(r, "pipeline", ev)
    /\ UNCHANGED <<procVars, exists, lines, torn, threadVars, streamVars>>

\* RemediationPipeline.run: pipeline.start comes first
EmitStart(r) == pc[r] = "boot" /\ Emit(r, "start")

\* run.py _run: no error signature in the issue, so an error and no pipeline
EmitNoSignature(r) == r \in ApiRuns /\ pc[r] = "boot" /\ Emit(r, "error")

\* everything between pipeline.start and pipeline.end
EmitStep(r) ==
    /\ pc[r] = "run" /\ Len(lines[r]) < MaxLines
    /\ \E ev \in {"step", "fix"} : Emit(r, ev)

EmitEnd(r) == pc[r] = "run" /\ Emit(r, "end")

\* Mutant: the run is taken out of IN_FLIGHT before its error event is written
BodyRaisesUnregistered(r) ==
    /\ pc[r] \in {"boot", "run"} /\ pend[r] = NoWrite
    /\ pc' = [pc EXCEPT ![r] = "raised"]
    /\ inFlight' = inFlight \ {r}
    /\ UNCHANGED <<procVars, diskVars, job, streamVars>>

\* Mutant: nothing catches the exception
BodyRaisesUncaught(r) ==
    /\ pc[r] \in {"boot", "run"} /\ pend[r] = NoWrite
    /\ pc' = [pc EXCEPT ![r] = "exit"]
    /\ UNCHANGED <<procVars, diskVars, inFlight, job, streamVars>>

\* an exception escapes the body
BodyRaises(r) ==
    /\ pc[r] \in {"boot", "run"} /\ pend[r] = NoWrite
    /\ pc' = [pc EXCEPT ![r] = "raised"]
    /\ UNCHANGED <<procVars, diskVars, inFlight, job, streamVars>>

\* runner._run: except Exception: sink.emit(error)
EmitError(r) == pc[r] = "raised" /\ Emit(r, "error")

\* runner._run: finally: IN_FLIGHT.pop(run_id, None)
Deregister(r) ==
    /\ pc[r] = "exit"
    /\ inFlight' = inFlight \ {r}
    /\ pc' = [pc EXCEPT ![r] = "gone"]
    /\ UNCHANGED <<procVars, diskVars, job, streamVars>>
-----------------------------------------------------------------------------
(* Verification appends to the same file through a FanoutEventSink.  Its   *)
(* thread is not registered anywhere.                                      *)

\* verify_run: the persisted run holds a fix to verify
VerifyStart(v, r) ==
    /\ proc = "up" /\ job[v] = NoRun /\ r \in exists
    /\ \E i \in 1..Len(lines[r]) : lines[r][i] = "fix"
    /\ Len(lines[r]) < MaxLines
    /\ job' = [job EXCEPT ![v] = r]
    /\ UNCHANGED <<procVars, diskVars, inFlight, pc, streamVars>>

\* A verify.* event, the last one being verify.result, or the error event
\* of the route when Verifier.verify raises
VerifyEmit(v) ==
    /\ job[v] # NoRun
    /\ \E ev \in VerifyEvents :
          /\ ev = "verify" => Len(lines[job[v]]) < MaxLines
          /\ BeginWrite(job[v], v, ev)
    /\ UNCHANGED <<procVars, exists, lines, torn, threadVars, streamVars>>
-----------------------------------------------------------------------------
(* stream_run: one pass snapshots liveness, then reads the file.           *)

Attach(c, r) ==
    /\ proc = "up" /\ sPc[c] \in {"idle", "done"} /\ r \in exists
    /\ sRun' = [sRun EXCEPT ![c] = r]
    /\ sPc' = [sPc EXCEPT ![c] = "poll"]
    /\ sAlive' = [sAlive EXCEPT ![c] = FALSE]
    /\ sOff' = [sOff EXCEPT ![c] = 0]
    /\ sSaw' = [sSaw EXCEPT ![c] = FALSE]
    /\ sSent' = [sSent EXCEPT ![c] = {}]
    /\ UNCHANGED <<procVars, diskVars, threadVars>>

SnapshotAlive(c) ==
    /\ sPc[c] = "poll"
    /\ sAlive' = [sAlive EXCEPT ![c] = Alive(sRun[c])]
    /\ sPc' = [sPc EXCEPT ![c] = "read"]
    /\ UNCHANGED <<procVars, diskVars, threadVars, sRun, sOff, sSaw, sSent>>

\* Mutant: a trailing fragment is consumed
NextOffsetEager(r) == Len(lines[r]) + (IF torn[r] \/ pend[r] # NoWrite THEN 1 ELSE 0)

\* The offset moves past whole lines only: a trailing fragment, be it torn
\* or an append in progress, is left for a later pass.
NextOffset(r) == Len(lines[r])

\* Mutant: the file is read first and liveness is looked at afterwards
ReadPassThenAlive(c) ==
    /\ sPc[c] = "read"
    /\ LET r == sRun[c]
       IN  \E n \in sOff[c]..Len(lines[r]) :
             LET new == {i \in Parsed(lines[r]) : sOff[c] < i /\ i <= n}
                 saw == sSaw[c] \/ \E i \in new : lines[r][i] \in Terminal
             IN  /\ sSent' = [sSent EXCEPT ![c] = @ \cup new]
                 /\ sOff' = [sOff EXCEPT ![c] = n]
                 /\ sSaw' = [sSaw EXCEPT ![c] = saw]
                 /\ sPc' = [sPc EXCEPT ![c] =
                              IF saw \/ ~Alive(r) THEN "done" ELSE "poll"]
    /\ UNCHANGED <<procVars, diskVars, threadVars, sRun, sAlive>>

\* Mutant: only a terminal event ends the stream
ReadPassUntilTerminal(c) ==
    /\ sPc[c] = "read"
    /\ LET r   == sRun[c]
           new == {i \in Parsed(lines[r]) : i > sOff[c]}
           saw == sSaw[c] \/ \E i \in new : lines[r][i] \in Terminal
       IN  /\ sSent' = [sSent EXCEPT ![c] = @ \cup new]
           /\ sOff' = [sOff EXCEPT ![c] = NextOffset(r)]
           /\ sSaw' = [sSaw EXCEPT ![c] = saw]
           /\ sPc' = [sPc EXCEPT ![c] = IF saw THEN "done" ELSE "poll"]
    /\ UNCHANGED <<procVars, diskVars, threadVars, sRun, sAlive>>

\* Read what is on disk, send the events past the offset, stop or go on
ReadPass(c) ==
    /\ sPc[c] = "read"
    /\ LET r   == sRun[c]
           new == {i \in Parsed(lines[r]) : i > sOff[c]}
           saw == sSaw[c] \/ \E i \in new : lines[r][i] \in Terminal
       IN  /\ sSent' = [sSent EXCEPT ![c] = @ \cup new]
           /\ sOff' = [sOff EXCEPT ![c] = NextOffset(r)]
           /\ sSaw' = [sSaw EXCEPT ![c] = saw]
           /\ sPc' = [sPc EXCEPT ![c] =
                        IF saw \/ ~sAlive[c] THEN "done" ELSE "poll"]
    /\ UNCHANGED <<procVars, diskVars, threadVars, sRun, sAlive>>

\* The client goes away and the generator is closed
Disconnect(c) ==
    /\ sPc[c] \in {"poll", "read"}
    /\ sRun' = [sRun EXCEPT ![c] = NoRun]
    /\ sPc' = [sPc EXCEPT ![c] = "idle"]
    /\ UNCHANGED <<procVars, diskVars, threadVars, sAlive, sOff, sSaw, sSent>>
-----------------------------------------------------------------------------
(* The process dies (daemon threads die with it), restarts, and sweeps.    *)

Crash ==
    /\ proc # "down" /\ crashes < MaxCrashes
    /\ proc' = "down" /\ sweepTodo' = {} /\ crashes' = crashes + 1
    /\ torn' = [r \in Runs |-> torn[r] \/ (TornWrites /\ pend[r] # NoWrite)]
    /\ pend' = [r \in Runs |-> NoWrite]
    /\ inFlight' = {}
    /\ pc' = [r \in Runs |->
                IF pc[r] \in {"idle", "gone"} THEN pc[r] ELSE "lost"]
    /\ job' = [v \in Verifiers |-> NoRun]
    /\ sRun' = [c \in Clients |-> NoRun]
    /\ sPc' = [c \in Clients |-> "idle"]
    /\ UNCHANGED <<exists, lines, sAlive, sOff, sSaw, sSent>>

\* create_app, up to mark_interrupted_runs
Restart ==
    /\ proc = "down"
    /\ proc' = "sweep" /\ sweepTodo' = exists
    /\ UNCHANGED <<crashes, diskVars, threadVars, streamVars>>

\* Mutant: the last event alone decides (the sweep before ADR-0008)
SweepMarksByLast(r) ==
    /\ r \notin inFlight
    /\ lines[r] # <<>> /\ lines[r][Len(lines[r])] \notin Terminal \cup {BadLine}

\* Mutant: a file that ends with a verify event is taken for a finished run
SweepMarksUnverified(r) ==
    /\ r \notin inFlight /\ Parsed(lines[r]) # {} /\ ~HasTerminal(lines[r])
    /\ lines[r][Len(lines[r])] \notin VerifyEvents

\* Some event, none of them terminal, in a file that is not in flight
SweepMarks(r) ==
    r \notin inFlight /\ Parsed(lines[r]) # {} /\ ~HasTerminal(lines[r])

SweepSkip(r) ==
    /\ proc = "sweep" /\ r \in sweepTodo /\ ~SweepMarks(r)
    /\ \A q \in Runs : pend[q] = NoWrite
    /\ sweepTodo' = sweepTodo \ {r}
    /\ UNCHANGED <<proc, crashes, diskVars, threadVars, streamVars>>

SweepMark(r) ==
    /\ proc = "sweep" /\ r \in sweepTodo /\ SweepMarks(r)
    /\ \A q \in Runs : pend[q] = NoWrite
    /\ BeginWrite(r, "sweep", "interrupted")
    /\ UNCHANGED <<procVars, exists, lines, torn, threadVars, streamVars>>

SweepDone ==
    /\ proc = "sweep" /\ sweepTodo = {}
    /\ proc' = "up"
    /\ UNCHANGED <<sweepTodo, crashes, diskVars, threadVars, streamVars>>
-----------------------------------------------------------------------------
StartRun(r)   == \/ r \in ApiRuns /\ Post(r)
                 \/ r \in WaveRuns /\ WaveCreate(r)
WaveSteps(r)  == WaveRegister(r) \/ WaveStart(r)
ThreadStep(r) == \/ EmitStart(r) \/ EmitNoSignature(r) \/ EmitStep(r)
                 \/ EmitEnd(r) \/ BodyRaises(r) \/ EmitError(r)
                 \/ Deregister(r)
AppendEnds(r) == FinishWrite(r) \/ FailWrite(r)
Sweep(r)      == SweepSkip(r) \/ SweepMark(r)
StreamStep(c) == SnapshotAlive(c) \/ ReadPass(c)

Next ==
    \/ \E r \in Runs : \/ StartRun(r) \/ WaveSteps(r) \/ ThreadStep(r)
                       \/ AppendEnds(r) \/ Sweep(r)
    \/ \E v \in Verifiers : VerifyEmit(v) \/ \E r \in Runs : VerifyStart(v, r)
    \/ \E c \in Clients : \/ StreamStep(c) \/ Disconnect(c)
                          \/ \E r \in Runs : Attach(c, r)
    \/ Crash \/ Restart \/ SweepDone

Spec == Init /\ [][Next]_vars

(* Threads are scheduled, an append returns, a started server finishes its *)
(* startup, the event loop polls (_TAIL_POLL_S).  A pipeline thread that   *)
(* has an event to append gets its turn although verify threads append to  *)
(* the same file, hence SF: they do something else between two appends.    *)
(* A body is assumed to stop emitting steps (MaxLines).  Nothing makes a   *)
(* client attach or leave, a run or a verification start, the process die. *)
Fairness ==
    /\ \A r \in Runs : /\ WF_vars(WaveSteps(r)) /\ SF_vars(ThreadStep(r))
                       /\ WF_vars(AppendEnds(r)) /\ WF_vars(Sweep(r))
    /\ \A c \in Clients : WF_vars(StreamStep(c))
    /\ WF_vars(Restart) /\ WF_vars(SweepDone)

FairSpec == Spec /\ Fairness
-----------------------------------------------------------------------------
(*                               Properties                                *)

\* What a stream has sent is exactly what a reader of the whole file parses
\* up to the stream's offset: no event is skipped, repeated or sent torn,
\* however the polls of stream_run fall between the appends.
StreamExact ==
    \A c \in Clients : sPc[c] # "idle" =>
        /\ sOff[c] <= Len(lines[sRun[c]])
        /\ sSent[c] = {i \in Parsed(lines[sRun[c]]) : i <= sOff[c]}

\* A client told "done" of a run started by POST /api/run has every event the
\* pipeline wrote, and the pipeline will write no more: stream_run snapshots
\* liveness before it reads, runner._run deregisters after its last event.
\* Excepted is a stream that was ended by the verify route's error event.
DoneIsComplete ==
    \A c \in Clients :
        (/\ sPc[c] = "done" /\ sRun[c] \in ApiRuns
         /\ \A i \in sSent[c] : lines[sRun[c]][i] # "verify_error")
        => /\ ~Producing(sRun[c])
           /\ \A i \in 1..Len(lines[sRun[c]]) :
                 lines[sRun[c]][i] \in PipelineEvents => i \in sSent[c]

\* The sweep is honest and idempotent: a run marked interrupted is not being
\* produced, is marked once, and no pipeline.end or error of its pipeline is
\* in the file, before or after the mark (mark_interrupted_runs judges by any
\* event of the file and skips the runs in flight).
HonestInterruption ==
    \A r \in Runs : \A i \in 1..Len(lines[r]) :
        lines[r][i] = "interrupted" =>
            /\ ~Producing(r)
            /\ \A j \in 1..Len(lines[r]) \ {i} :
                  lines[r][j] \notin {"end", "error", "interrupted"}

\* A fragment that a crash left has swallowed a line of this file
Spoilt(r) == \E i \in 1..Len(lines[r]) : lines[r][i] = BadLine

\* Once the server is up, every run an earlier process left unfinished, with an
\* event to show for it, reads as terminal, unless a fragment has swallowed a
\* line of it (mark_interrupted_runs).
SweepSettles ==
    \A r \in Runs :
        (proc = "up" /\ pc[r] = "lost" /\ Parsed(lines[r]) # {})
        => HasTerminal(lines[r]) \/ Spoilt(r)

\* Whoever may still append pipeline events is in IN_FLIGHT, for the stream and
\* the sweep to see.  What is in IN_FLIGHT is about to be started, or has a
\* thread that will take itself out, or is a run whose t.start() raised: its
\* entry stays until the process dies, and its file stays empty
\* (start_pipeline_thread, runner._run).
ProducersRegistered ==
    \A r \in Runs :
        /\ Producing(r) => r \in inFlight
        /\ r \in inFlight => Producing(r) \/ pc[r] \in {"registered", "exit", "unstarted"}
        /\ pc[r] = "unstarted" => /\ r \in inFlight
                                  /\ lines[r] = <<>> /\ pend[r] = NoWrite

\* Every stream comes to an end: stream_run stops at a terminal event, or when
\* the thread is gone, and the thread always goes (runner._run's finally), even
\* if its last event could not be written.
StreamEnds ==
    \A c \in Clients : sPc[c] \in {"poll", "read"} ~> sPc[c] \in {"idle", "done"}

\* No run stays in limbo (ADR-0008): a run with an event in its file comes to
\* have a terminal one, written by the pipeline, by runner._run, or by the
\* sweep after a restart, unless a fragment has swallowed a line of it.
NoLimbo ==
    \A r \in Runs : Parsed(lines[r]) # {} ~> HasTerminal(lines[r]) \/ Spoilt(r)

\* The files and the streams implement the log ADR-0008 promises (EventLog).
Log == INSTANCE EventLog WITH
    LogRuns <- Runs, Readers <- Clients, NoLog <- NoRun,
    ByPipeline <- PipelineEvents, ByOthers <- VerifyEvents \cup {BadLine},
    Marker <- "interrupted", Ending <- Terminal,
    log <- lines,
    open <- {r \in Runs : Producing(r)},
    follows <- sRun,
    upTo <- [c \in Clients |-> IF sPc[c] = "idle" THEN 0 ELSE sOff[c]],
    told <- {c \in Clients : sPc[c] = "done"}

\* Every step of the detailed lifecycle is a step of the promised log, or
\* none: pipeline lines only while the pipeline runs, an honest interrupted
\* mark, "done" only after the end of the run or of what it wrote.
ImplementsLog == Log!LogSpec
-----------------------------------------------------------------------------
(* The inductive invariant of the proofs: the properties above and what    *)
(* they rest on.                                                           *)

\* The pipeline has no event to emit any more; in Left, no thread of it is alive
Over == {"unstarted", "exit", "gone", "lost"}
Left == {"unstarted", "gone", "lost"}

\* IN_FLIGHT by the place of the thread
ThreadsRegistered ==
    \A r \in Runs :
        r \in inFlight <=> pc[r] \in {"registered", "unstarted", "boot", "run",
                                      "raised", "exit"}

\* The file exists from the start of its run, and readers follow existing files
FilesExist ==
    /\ \A r \in Runs : pc[r] = "idle" <=> r \notin exists
    /\ \A r \in Runs : r \notin exists => lines[r] = <<>> /\ pend[r] = NoWrite
    /\ \A v \in Verifiers : job[v] # NoRun => job[v] \in exists
    /\ \A c \in Clients : sPc[c] # "idle" => sRun[c] \in exists

\* The thread of an API run starts in the same step as its file exists
ApiStarted == \A r \in ApiRuns : pc[r] \notin {"created", "registered"}

\* The append in progress is one its writer may make now
AppendsAllowed ==
    \A r \in Runs : pend[r] # NoWrite =>
        /\ pend[r].who = "pipeline" => Producing(r) /\ pend[r].ev \in PipelineEvents
        /\ pend[r].who \in Verifiers => pend[r].ev \in VerifyEvents
        /\ pend[r].who = "sweep" =>
              /\ proc = "sweep" /\ r \in sweepTodo /\ pend[r].ev = "interrupted"
              /\ pc[r] \in Left /\ ~HasTerminal(lines[r])

\* Nothing but the sweep happens until the server is up
QuietUnlessUp ==
    proc # "up" => /\ inFlight = {}
                   /\ \A r \in Runs : pc[r] \in {"idle"} \cup Left
                   /\ \A r \in Runs : pend[r] # NoWrite => pend[r].who = "sweep"
                   /\ \A v \in Verifiers : job[v] = NoRun
                   /\ \A c \in Clients : sPc[c] = "idle"

\* A terminal event of the pipeline, or the sweep's, is in a file only after
\* the pipeline's last event
TerminalsFinal ==
    \A r \in Runs : \A i \in 1..Len(lines[r]) :
        /\ lines[r][i] \in {"end", "error"} => pc[r] \in Over
        /\ lines[r][i] = "interrupted" => pc[r] \in Left

\* What a stream remembers is true
StreamsRemember ==
    \A c \in Clients : sPc[c] # "idle" =>
        /\ sSaw[c] <=> \E i \in sSent[c] : lines[sRun[c]][i] \in Terminal
        /\ sPc[c] = "read" /\ ~sAlive[c] /\ sRun[c] \in ApiRuns => pc[sRun[c]] \in Left

\* DoneIsComplete, with the pipeline thread's place in it
DoneIsFinal ==
    \A c \in Clients :
        (/\ sPc[c] = "done" /\ sRun[c] \in ApiRuns
         /\ \A i \in sSent[c] : lines[sRun[c]][i] # "verify_error")
        => /\ pc[sRun[c]] \in Over
           /\ \A i \in 1..Len(lines[sRun[c]]) :
                 lines[sRun[c]][i] \in PipelineEvents => i \in sSent[c]

\* Everything the proofs need to know of a reachable state: it is inductive
IInv ==
    /\ TypeOK /\ FilesExist /\ ThreadsRegistered /\ ApiStarted
    /\ AppendsAllowed /\ QuietUnlessUp /\ TerminalsFinal /\ HonestInterruption
    /\ StreamExact /\ StreamsRemember /\ DoneIsFinal
=============================================================================
