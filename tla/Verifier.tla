------------------------------- MODULE Verifier -------------------------------
(***************************************************************************)
(* One verification of a fix, on the thread of the verify route            *)
(* (verification/verifier.py, sandbox.py, regression.py, repro.py,         *)
(* api/routes/verify.py): synthesize a reproducer, then up to three        *)
(* attempts in a workspace each -- baseline, overlay of the buggy files,   *)
(* patched rerun, scoped tests -- and a verdict, or a repaired reproducer  *)
(* and the next attempt.                                                   *)
(*                                                                         *)
(* What a run of untrusted code yields is the environment's choice; what   *)
(* it imports is computed from what was staged, patched and provisioned.   *)
(***************************************************************************)
EXTENDS Naturals, FiniteSets

CONSTANTS
    FixFiles,   \* paths the fix changes
    PrFiles,    \* paths the linked pull request changes
    Importable, \* paths with an installed_module_path
    InImage,    \* paths whose module the Docker image has installed, writable
    InDeps,     \* paths of the distributions the fix's paths imply
    Flat,       \* paths that a Python in the workspace's root imports from there
    MaxRepair,  \* _MAX_REPRO_REPAIR
    NoRun

Paths == FixFiles \cup PrFiles

ASSUME VerifierAssumption ==
    /\ MaxRepair \in Nat
    /\ Importable \subseteq Paths /\ InImage \subseteq Importable
    /\ InDeps \subseteq Importable /\ Flat \subseteq Paths

VARIABLES
    conf,     \* what the route passes in: settings, fix, pattern
    pc,
    attempt,
    repro,    \* the reproducer
    shown,    \* the reproducer of the last event that carries one
    live,     \* a workspace exists on disk
    ws,       \* its contents
    overlay,  \* overlay_changes
    base,     \* the last baseline run of this attempt
    rerun,    \* the patched run of this attempt
    tests,    \* the scoped tests' outcome
    verdict, results, errors  \* verify.result and error events

run  == <<base, rerun, tests>>
said == <<verdict, results, errors>>
vars == <<conf, pc, attempt, repro, shown, live, ws, overlay, run, said>>

\* FixRegister; fail_fast is graded like repair
Registers == {"repair", "warn", "better_error", "document"}
Conf == [sandbox : {"docker", "subprocess"}, register : Registers,
         pr : BOOLEAN,        \* source_overlay is on and a PR is known
         repair : BOOLEAN,    \* repro_repair
         tests : BOOLEAN]     \* project_root is set and some test is in scope

Repro   == [gen : 0..MaxRepair, kind : {"behavioral", "crash"}]
NoRepro == [gen |-> 0, kind |-> "none"]

\* RunResult by what the verifier looks for: exit code 0, the expected exception
\* in the output (never, if the pattern has none), BEHAVIOR_OK_MARKER,
\* AssertionError, timed_out
Result   == [ok : BOOLEAN, orig : BOOLEAN, marker : BOOLEAN, assertion : BOOLEAN,
             timedOut : BOOLEAN]
Outcomes == {r \in Result : r.timedOut => ~r.ok}

Content == {"released", "buggy", "fix"}
Sources == [Paths -> Content]

\* A run that happened: what it ran, what it could import, what came out of it
Baselines == [of : Repro, seen : Sources, reproduced : BOOLEAN]
Reruns    == [of : Repro, seen : Sources, res : Result]

ASSUME NoRunAssumption == NoRun \notin Baselines \cup Reruns

Workspace == [staged : Sources, manifest : SUBSET Paths, landed : SUBSET InDeps,
              kept : Sources]
Released  == [p \in Paths |-> "released"]
Fresh     == [staged |-> Released, manifest |-> {}, landed |-> {}, kept |-> Released]

Green    == {"verified_via_reproducer", "verified_via_behavior", "verified_via_warning",
             "verified_via_better_error"}
Verdicts == Green \cup {"masks_symptom", "unverified_doc_only", "repro_broken", "no_repro",
                        "still_broken", "regression", "environmental_error"}
Pc       == {"start", "synth", "prepare", "provision", "baseline", "overlay", "rebaseline",
             "patch", "rerun", "regress", "decide", "done"}

TypeOK ==
    /\ conf \in Conf /\ pc \in Pc /\ attempt \in 0..MaxRepair
    /\ repro \in Repro \cup {NoRepro} /\ shown \in Repro \cup {NoRepro}
    /\ live \in BOOLEAN /\ ws \in Workspace /\ overlay \in SUBSET Paths
    /\ base \in Baselines \cup {NoRun} /\ rerun \in Reruns \cup {NoRun}
    /\ tests \in {"none", "passed", "failed", "unparsed"}
    /\ verdict \in Verdicts \cup {"none"} /\ results \in Nat /\ errors \in Nat

Init ==
    /\ conf \in Conf /\ pc = "start" /\ attempt = 0
    /\ repro = NoRepro /\ shown = NoRepro
    /\ live = FALSE /\ ws = Fresh /\ overlay = {}
    /\ base = NoRun /\ rerun = NoRun /\ tests = "none"
    /\ verdict = "none" /\ results = 0 /\ errors = 0
-----------------------------------------------------------------------------
(* The workspace: what a run in it can import                              *)

\* Docker copies the manifest over the modules it can resolve, in the image or
\* among the provisioned ones; a subprocess imports what lies at its root.
Reach == IF conf.sandbox = "docker" THEN InImage \cup ws.landed ELSE Flat
Seen  == [p \in Paths |-> IF p \in ws.manifest \cap Reach THEN ws.staged[p] ELSE ws.kept[p]]

\* The image is as before in the next container; .tvastr_deps is on the mount
\* and stays patched
AfterRun == IF conf.sandbox = "docker"
            THEN [ws EXCEPT !.kept = [p \in Paths |-> IF p \in ws.manifest \cap ws.landed
                                                      THEN ws.staged[p] ELSE ws.kept[p]]]
            ELSE ws

\* apply_changes: one manifest for Docker, of the importable paths; files on disk
\* for a subprocess
Applied(paths, content) ==
    LET modules == paths \cap Importable
    IN  [ws EXCEPT
            !.staged = [p \in Paths |-> IF p \in paths THEN content[p] ELSE @[p]],
            !.manifest = IF conf.sandbox = "subprocess" THEN @ \cup paths
                         ELSE IF modules = {} THEN @ ELSE modules]
-----------------------------------------------------------------------------
(* Steps                                                                   *)

\* _fail, outside the loop
Fail(v) ==
    /\ verdict' = v /\ results' = results + 1 /\ pc' = "done"
    /\ UNCHANGED errors

Decide(v) ==
    /\ verdict' = v /\ pc' = "decide"
    /\ UNCHANGED <<results, errors>>

Goto(label) == pc' = label /\ UNCHANGED said

Start ==
    /\ pc = "start"
    /\ IF conf.register = "document" THEN Fail("unverified_doc_only") ELSE Goto("synth")
    /\ UNCHANGED <<conf, attempt, repro, shown, live, ws, overlay, run>>

\* synthesize_reproducer: a block of the issue's body is a crash reproducer, a
\* model's may be of either kind, also after its critique
Synthesize ==
    /\ pc = "synth"
    /\ \E kind \in {"behavioral", "crash"} : repro' = [gen |-> 0, kind |-> kind]
    /\ shown' = repro' /\ Goto("prepare")
    /\ UNCHANGED <<conf, attempt, live, ws, overlay, run>>

SynthesizeFails ==
    /\ pc = "synth" /\ Fail("environmental_error")
    /\ UNCHANGED <<conf, attempt, repro, shown, live, ws, overlay, run>>

\* Mutant: an attempt takes over the handle of the one before
PrepareAgain ==
    /\ pc = "prepare" /\ pc' = "provision"
    /\ live' = TRUE
    /\ UNCHANGED <<conf, attempt, repro, shown, ws, overlay, run, said>>

\* sandbox.prepare: a directory of its own for every attempt
Prepare ==
    /\ pc = "prepare" /\ pc' = "provision"
    /\ live' = TRUE /\ ws' = Fresh
    /\ UNCHANGED <<conf, attempt, repro, shown, overlay, run, said>>

\* handle.provision: all, or what has landed before pip failed; switched off,
\* nothing
Provision ==
    /\ pc = "provision" /\ Goto("baseline")
    /\ \E landed \in SUBSET InDeps : ws' = [ws EXCEPT !.landed = landed]
    /\ UNCHANGED <<conf, attempt, repro, shown, live, overlay, run>>

\* _reproduced
Reproduced(res) == IF repro.kind = "behavioral" THEN ~res.marker ELSE res.orig \/ ~res.ok

RunBaseline(res) ==
    /\ base' = [of |-> repro, seen |-> Seen, reproduced |-> Reproduced(res)]
    /\ ws' = AfterRun

Baseline ==
    /\ pc = "baseline"
    /\ \E res \in Outcomes :
          /\ RunBaseline(res)
          /\ IF Reproduced(res) THEN Goto("patch")
             ELSE IF conf.pr THEN Goto("overlay") ELSE Decide("no_repro")
    /\ UNCHANGED <<conf, attempt, repro, shown, live, overlay, rerun, tests>>

\* _apply_buggy_overlay: the importable files that exist at the buggy parent
Overlay ==
    /\ pc = "overlay"
    /\ \E files \in (SUBSET (PrFiles \cap Importable)) \ {{}} :
          /\ ws' = Applied(files, [p \in Paths |-> "buggy"])
          /\ overlay' = files
    /\ Goto("rebaseline")
    /\ UNCHANGED <<conf, attempt, repro, shown, live, run>>

\* No merge commit, no file, or any exception: what was staged is not looked at
\* any more
OverlayNothing ==
    /\ pc = "overlay" /\ Decide("no_repro")
    /\ UNCHANGED <<conf, attempt, repro, shown, live, ws, overlay, run>>

Rebaseline ==
    /\ pc = "rebaseline"
    /\ \E res \in Outcomes :
          /\ RunBaseline(res)
          /\ IF Reproduced(res) THEN Goto("patch") ELSE Decide("no_repro")
    /\ UNCHANGED <<conf, attempt, repro, shown, live, overlay, rerun, tests>>

\* Mutant: the patch is the fix's files only
PatchOfFix == FixFiles

\* patch_changes
PatchPaths == overlay \cup FixFiles

Patch ==
    /\ pc = "patch" /\ Goto("rerun")
    /\ ws' = Applied(PatchPaths, [p \in Paths |-> IF p \in FixFiles THEN "fix" ELSE "buggy"])
    /\ UNCHANGED <<conf, attempt, repro, shown, live, overlay, run>>

\* _REGISTER_GREEN, with the default of each kind of reproducer
GreenVerdict ==
    IF repro.kind = "crash" THEN "verified_via_reproducer"
    ELSE CASE conf.register = "warn"         -> "verified_via_warning"
           [] conf.register = "better_error" -> "verified_via_better_error"
           [] OTHER                          -> "verified_via_behavior"

\* Mutant: an exit code of 0 is enough
TriageByExit(res) ==
    IF res.ok THEN GreenVerdict
    ELSE IF res.orig THEN "still_broken"
    ELSE IF res.timedOut THEN "environmental_error" ELSE "repro_broken"

\* _run_cycle, what follows the rerun
Triage(res) ==
    IF res.orig THEN "still_broken"
    ELSE IF res.timedOut THEN "environmental_error"
    ELSE IF repro.kind = "crash" THEN IF res.ok THEN GreenVerdict ELSE "repro_broken"
    ELSE IF res.ok /\ res.marker THEN GreenVerdict
    ELSE IF res.assertion THEN "masks_symptom" ELSE "repro_broken"

Rerun ==
    /\ pc = "rerun"
    /\ \E res \in Outcomes :
          /\ rerun' = [of |-> repro, seen |-> Seen, res |-> res] /\ ws' = AfterRun
          /\ IF Triage(res) \in Green /\ conf.tests THEN Goto("regress")
             ELSE Decide(Triage(res))
    /\ UNCHANGED <<conf, attempt, repro, shown, live, overlay, base, tests>>

\* run_scoped_tests: output that cannot be parsed counts nothing failed
Regress ==
    /\ pc = "regress"
    /\ tests' \in {"passed", "failed", "unparsed"}
    /\ Decide(IF tests' = "failed" THEN "regression" ELSE GreenVerdict)
    /\ UNCHANGED <<conf, attempt, repro, shown, live, ws, overlay, base, rerun>>

\* The loop has another attempt
Again == verdict = "repro_broken" /\ conf.repair /\ attempt < MaxRepair

\* _finish, then the handle's finally
Finish ==
    /\ pc = "decide" /\ ~Again
    /\ results' = results + 1 /\ live' = FALSE /\ pc' = "done"
    /\ UNCHANGED <<conf, attempt, repro, shown, ws, overlay, run, verdict, errors>>

\* The handle is discarded, the cycle's locals are gone
NextAttempt ==
    /\ pc = "decide" /\ Again /\ pc' = "prepare"
    /\ live' = FALSE
    /\ overlay' = {} /\ base' = NoRun /\ rerun' = NoRun /\ tests' = "none" /\ verdict' = "none"
    /\ UNCHANGED <<conf, ws, results, errors>>

\* Mutant: the event carries the reproducer that was broken
RepairShownBefore ==
    /\ NextAttempt
    /\ \E kind \in {"behavioral", "crash"} : repro' = [gen |-> attempt + 1, kind |-> kind]
    /\ shown' = repro /\ attempt' = attempt + 1

\* Mutant: a repair that fails does not count
RepairUncounted ==
    /\ NextAttempt
    /\ UNCHANGED <<repro, shown, attempt>>

\* repair_reproducer returns the old one when it fails
Repair ==
    /\ NextAttempt
    /\ \/ \E kind \in {"behavioral", "crash"} : repro' = [gen |-> attempt + 1, kind |-> kind]
       \/ repro' = repro
    /\ shown' = repro' /\ attempt' = attempt + 1

\* Mutant: the thread has no except
RaisesSilently ==
    /\ pc \in {"prepare", "baseline", "rebaseline", "patch", "rerun", "regress"}
    /\ live' = FALSE /\ pc' = "done"
    /\ UNCHANGED <<conf, attempt, repro, shown, ws, overlay, run, said>>

\* No disk, no Docker, a test file that cannot be read: the finally discards the
\* workspace, _exec emits the error event
Raises ==
    /\ pc \in {"prepare", "baseline", "rebaseline", "patch", "rerun", "regress"}
    /\ live' = FALSE
    /\ errors' = errors + 1 /\ pc' = "done"
    /\ UNCHANGED <<conf, attempt, repro, shown, ws, overlay, run, verdict, results>>

Next ==
    \/ Start \/ Synthesize \/ SynthesizeFails \/ Prepare \/ Provision \/ Baseline
    \/ Overlay \/ OverlayNothing \/ Rebaseline \/ Patch \/ Rerun \/ Regress
    \/ Finish \/ Repair \/ Raises

Spec     == Init /\ [][Next]_vars
FairSpec == Spec /\ WF_vars(Next)
-----------------------------------------------------------------------------
(*                               Properties                                *)

\* No baseline of any attempt sees a file of the fix, neither one patched by the
\* attempt before nor one left among the provisioned packages (verify: "attempt
\* N's applied patch cannot leak into attempt N+1's baseline").
AttemptsIsolated == base # NoRun => \A p \in Paths : base.seen[p] # "fix"

\* The patched run differs from the baseline that reproduced by the fix and by
\* nothing else: an overlaid file the fix leaves alone is still the buggy one, a
\* file that was not overlaid still the released one (_run_cycle, "tests the
\* agent's fix ALONE against the reproduced bug").
FixAlone ==
    rerun # NoRun =>
        /\ base # NoRun /\ base.of = rerun.of
        /\ \A p \in Paths :
              \/ rerun.seen[p] = base.seen[p]
              \/ p \in FixFiles /\ rerun.seen[p] = "fix"
        /\ conf.sandbox = "docker" =>
              \A p \in FixFiles \cap InImage : rerun.seen[p] = "fix"

\* The patched run was green for its kind of reproducer
GreenRun ==
    /\ rerun # NoRun /\ rerun.res.ok /\ ~rerun.res.orig /\ ~rerun.res.timedOut
    /\ rerun.of.kind = "behavioral" => rerun.res.marker

\* A verdict means what it says (docs/design-doc.md, 4.7), of runs of one attempt
\* with one reproducer, and whatever ran in the attempts before; where there is a
\* patched run, that attempt's last baseline reproduced the failure.
VerdictMeans ==
    /\ verdict \in Green => /\ GreenRun /\ tests # "failed"
                            /\ conf.tests => tests # "none"
    /\ verdict = "verified_via_reproducer" => rerun.of.kind = "crash"
    /\ verdict \in Green \ {"verified_via_reproducer"} => rerun.of.kind = "behavioral"
    /\ verdict = "verified_via_warning" => conf.register = "warn"
    /\ verdict = "verified_via_better_error" => conf.register = "better_error"
    /\ verdict = "regression" => GreenRun /\ tests = "failed"
    /\ verdict = "still_broken" => rerun # NoRun /\ rerun.res.orig
    /\ verdict = "masks_symptom" => /\ rerun # NoRun /\ rerun.of.kind = "behavioral"
                                    /\ rerun.res.assertion /\ ~rerun.res.orig
    /\ verdict = "repro_broken" => /\ rerun # NoRun /\ ~GreenRun /\ ~rerun.res.orig
                                   /\ ~rerun.res.timedOut
                                   /\ results = 1 => attempt = MaxRepair \/ ~conf.repair
    /\ verdict = "no_repro" => base # NoRun /\ ~base.reproduced /\ rerun = NoRun
    /\ verdict = "environmental_error" => \/ base = NoRun /\ repro = NoRepro
                                          \/ rerun # NoRun /\ rerun.res.timedOut
    /\ verdict = "unverified_doc_only" => base = NoRun /\ conf.register = "document"
    /\ rerun # NoRun => base # NoRun /\ base.reproduced

\* The reproducer that runs is the last one the timeline shows (verify: "so the
\* timeline reflects what actually re-ran").
TimelineTrue ==
    /\ pc \in {"baseline", "rebaseline", "rerun"} => shown = repro
    /\ base # NoRun => base.of = shown

\* A verification that is over has left one verify.result or one error event,
\* and a result is the verdict.
ReportedOnce ==
    /\ pc = "done" <=> results + errors = 1
    /\ pc # "done" => results + errors = 0
    /\ results = 1 <=> pc = "done" /\ verdict # "none"

\* A workspace is on disk only while its attempt lasts (the handle's finally).
Discarded == live => pc \notin {"start", "synth", "prepare", "done"}

\* What holds between the baseline and the verdict of an attempt: before the patch
\* nothing but the overlay is in the workspace and the baseline saw that; the
\* patched run sees what the baseline saw and the fix; with it the properties above
\* are inductive.
Untouched == ws.staged = Released /\ ws.manifest = {} /\ ws.kept = Released /\ overlay = {}
WithOverlay(before) == [p \in Paths |-> IF p \in before THEN "buggy" ELSE "released"]
SeenWithFix ==
    \A p \in Paths : Seen[p] = base.seen[p] \/ (p \in FixFiles /\ Seen[p] = "fix")

StageOK ==
    /\ pc \in {"start", "synth", "prepare"} => overlay = {}
    /\ pc \in {"provision", "baseline", "overlay"} => Untouched
    /\ pc = "rebaseline" => /\ ws.staged = WithOverlay(overlay) /\ ws.manifest = overlay
                            /\ ws.kept = Released
    /\ pc = "patch" =>
          /\ ws.staged = WithOverlay(overlay) /\ ws.manifest = overlay
          /\ ws.kept = WithOverlay(IF conf.sandbox = "docker" THEN overlay \cap ws.landed ELSE {})
          /\ base.seen = WithOverlay(overlay \cap Reach)
    /\ pc = "rerun" =>
          /\ SeenWithFix
          /\ conf.sandbox = "docker" => \A p \in FixFiles \cap InImage : Seen[p] = "fix"

CycleOK ==
    /\ shown = repro /\ overlay \subseteq Importable
    /\ pc \in {"start", "synth"} => base = NoRun /\ repro = NoRepro
    /\ pc \notin {"start", "synth", "done"} => repro \in Repro
    /\ pc = "overlay" => base # NoRun /\ ~base.reproduced
    /\ pc \in {"patch", "rerun", "regress"} => /\ base # NoRun /\ base.of = repro
                                               /\ base.reproduced
    /\ pc \notin {"regress", "decide", "done"} => rerun = NoRun
    /\ pc = "decide" => verdict # "none"
    /\ pc = "regress" => /\ rerun # NoRun /\ rerun.of = repro /\ GreenRun
                         /\ conf.tests
    /\ pc \notin {"decide", "done"} => verdict = "none" /\ tests = "none"

IInv == /\ TypeOK /\ StageOK /\ CycleOK
        /\ AttemptsIsolated /\ FixAlone /\ VerdictMeans /\ TimelineTrue /\ ReportedOnce
        /\ Discarded

\* Every verification ends: no repair, overlay or failing call makes it go round
\* for ever.
VerificationEnds == <>(pc = "done")
=============================================================================
