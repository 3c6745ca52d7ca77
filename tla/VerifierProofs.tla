---------------------------- MODULE VerifierProofs ----------------------------
(***************************************************************************)
(* What TLAPS proves of Verifier, for every set of paths, every layout of  *)
(* the image and the provisioned packages and every number of repairs: the *)
(* attempts are isolated, the fix is tried alone and the verdict means     *)
(* what it says. By the inductive invariant IInv: one lemma for each part  *)
(* of it, in each of them one step for each action that can disturb it.    *)
(***************************************************************************)
EXTENDS Verifier, TLAPS

LEMMA InitIInv == Init => IInv
<1> SUFFICES ASSUME Init PROVE IInv
    OBVIOUS
<1> USE DEF Init
<1>1. TypeOK
  <2>1. ws \in Workspace
      BY DEF Fresh, Released, Workspace, Sources, Content
  <2>2. attempt \in 0..MaxRepair /\ results \in Nat /\ errors \in Nat
      BY VerifierAssumption
  <2>3. QED
      BY <2>1, <2>2 DEF TypeOK, Pc
<1>2. StageOK
    BY DEF StageOK
<1>3. CycleOK
    BY DEF CycleOK
<1>4. QED
    BY <1>1, <1>2, <1>3 DEF IInv, Green, AttemptsIsolated, FixAlone, VerdictMeans, TimelineTrue,
       ReportedOnce, Discarded

\* What a run imports, and what it leaves behind
LEMMA SeenType == TypeOK => Seen \in Sources
    BY DEF TypeOK, Workspace, Seen, Sources

LEMMA AfterRunType == TypeOK => AfterRun \in Workspace
<1> SUFFICES ASSUME TypeOK PROVE AfterRun \in Workspace
    OBVIOUS
<1>1. ws \in Workspace
    BY DEF TypeOK
<1> DEFINE kept == [p \in Paths |-> IF p \in ws.manifest \cap ws.landed
                                    THEN ws.staged[p] ELSE ws.kept[p]]
<1>2. kept \in Sources
    BY <1>1 DEF Workspace, Sources
<1>3. [ws EXCEPT !.kept = kept] \in Workspace
    BY <1>1, <1>2 DEF Workspace
<1>4. QED
    BY <1>1, <1>3 DEF AfterRun

LEMMA AppliedType ==
    ASSUME TypeOK, NEW paths \in SUBSET Paths, NEW content \in Sources
    PROVE  Applied(paths, content) \in Workspace
<1>1. ws \in Workspace
    BY DEF TypeOK
<1> DEFINE staged == [p \in Paths |-> IF p \in paths THEN content[p] ELSE ws.staged[p]]
           manifest == IF conf.sandbox = "subprocess" THEN ws.manifest \cup paths
                       ELSE IF paths \cap Importable = {} THEN ws.manifest
                       ELSE paths \cap Importable
<1>2. staged \in Sources
    BY <1>1 DEF Workspace, Sources
<1>3. manifest \in SUBSET Paths
    BY <1>1 DEF Workspace
<1>4. [ws EXCEPT !.staged = staged, !.manifest = manifest] \in Workspace
    BY <1>1, <1>2, <1>3 DEF Workspace
<1>5. Applied(paths, content) = [ws EXCEPT !.staged = staged, !.manifest = manifest]
    BY <1>1 DEF Applied, Workspace
<1>6. QED
    BY <1>4, <1>5
-----------------------------------------------------------------------------
(* Types *)

\* Every step stays within the types, and in the attempts the code allows.
LEMMA TypeStep == IInv /\ [Next]_vars => TypeOK'
<1> SUFFICES ASSUME IInv, [Next]_vars PROVE TypeOK'
    OBVIOUS
<1>t. TypeOK /\ CycleOK
    BY DEF IInv
<1>s. Seen \in Sources /\ AfterRun \in Workspace
    BY <1>t, SeenType, AfterRunType
<1>v. /\ GreenVerdict \in Verdicts
      /\ \A res \in Outcomes : Triage(res) \in Verdicts
    BY DEF GreenVerdict, Triage, Green, Verdicts
<1>1. CASE Start
  <2>1. verdict' \in Verdicts \cup {"none"} /\ results' \in Nat /\ errors' \in Nat /\ pc' \in Pc
      BY <1>t, <1>1 DEF Start, Fail, Goto, said, TypeOK, Pc, Verdicts
  <2>2. QED
      BY <1>t, <1>1, <2>1 DEF Start, TypeOK, run
<1>2. CASE Synthesize
  <2>1. repro' \in Repro /\ pc' \in Pc
      BY <1>2, VerifierAssumption DEF Synthesize, Goto, Repro, Pc
  <2>2. QED
      BY <1>t, <1>2, <2>1 DEF Synthesize, Goto, TypeOK, run, said
<1>3. CASE SynthesizeFails
    BY <1>t, <1>3 DEF SynthesizeFails, Fail, TypeOK, run, Pc, Verdicts
<1>4. CASE Prepare
  <2>1. Fresh \in Workspace
      BY DEF Fresh, Released, Workspace, Sources, Content
  <2>2. QED
      BY <1>t, <1>4, <2>1 DEF Prepare, TypeOK, run, said, Pc
<1>5. CASE Provision
  <2>1. ws' \in Workspace
      BY <1>t, <1>5 DEF Provision, TypeOK, Workspace
  <2>2. QED
      BY <1>t, <1>5, <2>1 DEF Provision, Goto, TypeOK, run, said, Pc
<1>6. CASE Baseline
  <2>1. PICK res \in Outcomes :
           /\ RunBaseline(res)
           /\ IF Reproduced(res) THEN Goto("patch")
              ELSE IF conf.pr THEN Goto("overlay") ELSE Decide("no_repro")
      BY <1>6 DEF Baseline
  <2>2. base' \in Baselines /\ ws' \in Workspace
    <3>1. repro \in Repro /\ Reproduced(res) \in BOOLEAN
        BY <1>t, <1>6 DEF Baseline, CycleOK, Reproduced, Outcomes, Result
    <3>2. QED
        BY <1>s, <2>1, <3>1 DEF RunBaseline, Baselines
  <2>3. /\ pc' \in Pc /\ verdict' \in Verdicts \cup {"none"}
        /\ results' \in Nat /\ errors' \in Nat
      BY <1>t, <2>1 DEF Goto, Decide, said, TypeOK, Pc, Verdicts
  <2>4. QED
      BY <1>t, <1>6, <2>2, <2>3 DEF Baseline, TypeOK
<1>7. CASE Overlay
  <2>1. PICK files \in (SUBSET (PrFiles \cap Importable)) \ {{}} :
           /\ ws' = Applied(files, [p \in Paths |-> "buggy"])
           /\ overlay' = files
      BY <1>7 DEF Overlay
  <2>2. files \in SUBSET Paths /\ [p \in Paths |-> "buggy"] \in Sources
      BY DEF Paths, Sources, Content
  <2>3. ws' \in Workspace /\ overlay' \in SUBSET Paths
      BY <1>t, <2>1, <2>2, AppliedType
  <2>4. QED
      BY <1>t, <1>7, <2>3 DEF Overlay, Goto, TypeOK, run, said, Pc
<1>8. CASE OverlayNothing
    BY <1>t, <1>8 DEF OverlayNothing, Decide, TypeOK, run, Pc, Verdicts
<1>9. CASE Rebaseline
  <2>1. PICK res \in Outcomes :
           /\ RunBaseline(res)
           /\ IF Reproduced(res) THEN Goto("patch") ELSE Decide("no_repro")
      BY <1>9 DEF Rebaseline
  <2>2. base' \in Baselines /\ ws' \in Workspace
    <3>1. repro \in Repro /\ Reproduced(res) \in BOOLEAN
        BY <1>t, <1>9 DEF Rebaseline, CycleOK, Reproduced, Outcomes, Result
    <3>2. QED
        BY <1>s, <2>1, <3>1 DEF RunBaseline, Baselines
  <2>3. /\ pc' \in Pc /\ verdict' \in Verdicts \cup {"none"}
        /\ results' \in Nat /\ errors' \in Nat
      BY <1>t, <2>1 DEF Goto, Decide, said, TypeOK, Pc, Verdicts
  <2>4. QED
      BY <1>t, <1>9, <2>2, <2>3 DEF Rebaseline, TypeOK
<1>10. CASE Patch
  <2>1. /\ PatchPaths \in SUBSET Paths
        /\ [p \in Paths |-> IF p \in FixFiles THEN "fix" ELSE "buggy"] \in Sources
      BY <1>t DEF TypeOK, PatchPaths, Paths, Sources, Content
  <2>2. ws' \in Workspace
      BY <1>t, <1>10, <2>1, AppliedType DEF Patch
  <2>3. QED
      BY <1>t, <1>10, <2>2 DEF Patch, Goto, TypeOK, run, said, Pc
<1>11. CASE Rerun
  <2>1. PICK res \in Outcomes :
           /\ rerun' = [of |-> repro, seen |-> Seen, res |-> res] /\ ws' = AfterRun
           /\ IF Triage(res) \in Green /\ conf.tests THEN Goto("regress")
              ELSE Decide(Triage(res))
      BY <1>11 DEF Rerun
  <2>2. rerun' \in Reruns /\ ws' \in Workspace
    <3>1. repro \in Repro /\ res \in Result
        BY <1>t, <1>11 DEF Rerun, CycleOK, Outcomes
    <3>2. QED
        BY <1>s, <2>1, <3>1 DEF Reruns
  <2>3. /\ pc' \in Pc /\ verdict' \in Verdicts \cup {"none"}
        /\ results' \in Nat /\ errors' \in Nat
      BY <1>t, <1>v, <2>1 DEF Goto, Decide, said, TypeOK, Pc
  <2>4. QED
      BY <1>t, <1>11, <2>2, <2>3 DEF Rerun, TypeOK
<1>12. CASE Regress
  <2>1. verdict' \in Verdicts /\ pc' \in Pc /\ UNCHANGED <<results, errors>>
      BY <1>v, <1>12 DEF Regress, Decide, Verdicts, Pc
  <2>2. QED
      BY <1>t, <1>12, <2>1 DEF Regress, TypeOK
<1>13. CASE Finish
  <2>1. results' \in Nat
      BY <1>t, <1>13 DEF Finish, TypeOK
  <2>2. QED
      BY <1>t, <1>13, <2>1 DEF Finish, TypeOK, run, Pc
<1>14. CASE Repair
  <2>1. attempt + 1 \in 0..MaxRepair
      BY <1>t, <1>14, VerifierAssumption DEF Repair, NextAttempt, Again, TypeOK
  <2>2. repro' \in Repro \cup {NoRepro}
      BY <1>t, <1>14, <2>1 DEF Repair, TypeOK, Repro
  <2>3. QED
      BY <1>t, <1>14, <2>1, <2>2 DEF Repair, NextAttempt, TypeOK, Pc
<1>15. CASE Raises
  <2>1. errors' \in Nat
      BY <1>t, <1>15 DEF Raises, TypeOK
  <2>2. pc' \in Pc /\ live' \in BOOLEAN
      BY <1>15 DEF Raises, Pc
  <2>3. UNCHANGED <<conf, attempt, repro, shown, ws, overlay, run, verdict, results>>
      BY <1>15 DEF Raises
  <2>4. QED
      BY <1>t, <2>1, <2>2, <2>3 DEF TypeOK, run
<1>16. CASE UNCHANGED vars
    BY <1>t, <1>16 DEF vars, run, said, TypeOK
<1>17. QED
    BY <1>1, <1>2, <1>3, <1>4, <1>5, <1>6, <1>7, <1>8, <1>9, <1>10, <1>11, <1>12, <1>13,
       <1>14, <1>15, <1>16 DEF Next
-----------------------------------------------------------------------------
(* What is in the workspace *)

\* A run of a workspace with nothing but an overlay sees the overlay where a run
\* can see it, and leaves it in the provisioned packages
LEMMA RunOfOverlay ==
    ASSUME TypeOK, ws.staged = WithOverlay(overlay), ws.manifest = overlay, ws.kept = Released
    PROVE  /\ Seen = WithOverlay(overlay \cap Reach)
           /\ AfterRun.staged = ws.staged /\ AfterRun.manifest = ws.manifest
           /\ AfterRun.landed = ws.landed
           /\ AfterRun.kept = WithOverlay(IF conf.sandbox = "docker" THEN overlay \cap ws.landed
                                          ELSE {})
<1>1. ws \in Workspace /\ overlay \subseteq Paths
    BY DEF TypeOK
<1>2. Seen = WithOverlay(overlay \cap Reach)
  <2>1. \A p \in Paths : Seen[p] = WithOverlay(overlay \cap Reach)[p]
      BY DEF Seen, WithOverlay, Released
  <2>2. QED
      BY <2>1 DEF Seen, WithOverlay
<1>3. AfterRun.staged = ws.staged /\ AfterRun.manifest = ws.manifest
      /\ AfterRun.landed = ws.landed
    BY <1>1 DEF AfterRun, Workspace
<1>4. AfterRun.kept = WithOverlay(IF conf.sandbox = "docker" THEN overlay \cap ws.landed
                                  ELSE {})
  <2>1. CASE conf.sandbox = "docker"
    <3>1. AfterRun.kept = [p \in Paths |-> IF p \in ws.manifest \cap ws.landed
                                           THEN ws.staged[p] ELSE ws.kept[p]]
        BY <1>1, <2>1 DEF AfterRun, Workspace
    <3>2. QED
        BY <2>1, <3>1 DEF WithOverlay, Released
  <2>2. CASE conf.sandbox # "docker"
      BY <2>2 DEF AfterRun, WithOverlay, Released
  <2>3. QED
      BY <2>1, <2>2
<1>5. QED
    BY <1>2, <1>3, <1>4

LEMMA StageStep == IInv /\ [Next]_vars => StageOK'
<1> SUFFICES ASSUME IInv, [Next]_vars PROVE StageOK'
    OBVIOUS
<1>t. TypeOK /\ StageOK /\ CycleOK /\ ws \in Workspace
    BY DEF IInv, TypeOK
<1>r. WithOverlay({}) = Released
    BY DEF WithOverlay, Released
<1>1. CASE Start \/ Synthesize \/ SynthesizeFails
    BY <1>t, <1>1 DEF Start, Synthesize, SynthesizeFails, Fail, Goto, StageOK
<1>2. CASE Prepare
    BY <1>t, <1>2 DEF Prepare, StageOK, Untouched, Fresh
<1>3. CASE Provision
  <2>1. /\ ws'.staged = ws.staged /\ ws'.manifest = ws.manifest
        /\ ws'.kept = ws.kept
      BY <1>t, <1>3 DEF Provision, Workspace
  <2>2. QED
      BY <1>t, <1>3, <2>1 DEF Provision, Goto, StageOK, Untouched, Released
<1>4. CASE Baseline
  <2>1. PICK res \in Outcomes :
           /\ RunBaseline(res)
           /\ IF Reproduced(res) THEN Goto("patch")
              ELSE IF conf.pr THEN Goto("overlay") ELSE Decide("no_repro")
      BY <1>4 DEF Baseline
  <2>2. /\ ws.staged = WithOverlay(overlay) /\ ws.manifest = overlay /\ ws.kept = Released
        /\ overlay = {} /\ overlay' = overlay /\ conf' = conf
      BY <1>t, <1>r, <1>4 DEF Baseline, StageOK, Untouched
  <2>3. /\ ws'.staged = Released /\ ws'.manifest = {} /\ ws'.kept = Released
        /\ ws'.landed = ws.landed /\ base'.seen = Released
      BY <1>t, <1>r, <2>1, <2>2, RunOfOverlay DEF RunBaseline
  <2>4. pc' \in {"patch", "overlay", "decide"}
      BY <2>1 DEF Goto, Decide
  <2>5. overlay' \cap Reach' = {}
        /\ (IF conf'.sandbox = "docker" THEN overlay' \cap ws'.landed ELSE {}) = {}
      BY <2>2
  <2>6. /\ WithOverlay(overlay)' = Released
        /\ WithOverlay(overlay \cap Reach)' = Released
        /\ WithOverlay(IF conf.sandbox = "docker" THEN overlay \cap ws.landed ELSE {})' = Released
      BY <2>2, <2>5 DEF WithOverlay, Released
  <2>7. QED
      BY <2>2, <2>3, <2>4, <2>6 DEF StageOK, Untouched, Released
<1>5. CASE Overlay
  <2>1. PICK files \in (SUBSET (PrFiles \cap Importable)) \ {{}} :
           /\ ws' = Applied(files, [p \in Paths |-> "buggy"])
           /\ overlay' = files
      BY <1>5 DEF Overlay
  <2>2. pc = "overlay" /\ pc' = "rebaseline" /\ Untouched
      BY <1>t, <1>5 DEF Overlay, Goto, StageOK
  <2>3. files \cap Importable = files /\ files # {} /\ conf.sandbox \in {"docker", "subprocess"}
      BY <1>t DEF TypeOK, Conf
  <2>4. ws'.manifest = files /\ ws'.kept = Released
      BY <1>t, <2>1, <2>2, <2>3 DEF Applied, Workspace, Untouched
  <2>5. ws'.staged = [p \in Paths |-> IF p \in files THEN [q \in Paths |-> "buggy"][p]
                                      ELSE ws.staged[p]]
      BY <1>t, <2>1 DEF Applied, Workspace
  <2>6. ws'.staged = WithOverlay(files)
      BY <2>2, <2>5 DEF Untouched, Released, WithOverlay
  <2>7. QED
      BY <2>1, <2>2, <2>4, <2>6 DEF StageOK, Released, WithOverlay
<1>6. CASE OverlayNothing \/ Rerun \/ Regress \/ Finish \/ Repair \/ Raises
  <2>1. pc' \in {"decide", "regress", "done"} \/ (pc' = "prepare" /\ overlay' = {})
      BY <1>6 DEF OverlayNothing, Rerun, Regress, Finish, Repair, Raises, NextAttempt, Decide,
         Goto
  <2>2. QED
      BY <2>1 DEF StageOK
<1>7. CASE Rebaseline
  <2>1. PICK res \in Outcomes :
           /\ RunBaseline(res)
           /\ IF Reproduced(res) THEN Goto("patch") ELSE Decide("no_repro")
      BY <1>7 DEF Rebaseline
  <2>2. /\ ws.staged = WithOverlay(overlay) /\ ws.manifest = overlay /\ ws.kept = Released
        /\ overlay' = overlay /\ conf' = conf
      BY <1>t, <1>7 DEF Rebaseline, StageOK
  <2>3. /\ ws'.staged = WithOverlay(overlay) /\ ws'.manifest = overlay
        /\ ws'.landed = ws.landed
        /\ ws'.kept = WithOverlay(IF conf.sandbox = "docker" THEN overlay \cap ws.landed
                                  ELSE {})
        /\ base'.seen = WithOverlay(overlay \cap Reach)
      BY <1>t, <2>1, <2>2, RunOfOverlay DEF RunBaseline
  <2>4. pc' \in {"patch", "decide"}
      BY <2>1 DEF Goto, Decide
  <2>5. Reach' = Reach
      BY <2>2, <2>3 DEF Reach
  <2>6. QED
      BY <2>2, <2>3, <2>4, <2>5 DEF StageOK, WithOverlay
<1>8. CASE Patch
  <2> DEFINE content == [p \in Paths |-> IF p \in FixFiles THEN "fix" ELSE "buggy"]
             modules == PatchPaths \cap Importable
  <2>1. /\ pc' = "rerun" /\ ws' = Applied(PatchPaths, content)
        /\ UNCHANGED <<conf, base, overlay>>
      BY <1>8 DEF Patch, Goto, run
  <2>2. /\ ws.staged = WithOverlay(overlay) /\ ws.manifest = overlay
        /\ ws.kept = WithOverlay(IF conf.sandbox = "docker" THEN overlay \cap ws.landed ELSE {})
        /\ base.seen = WithOverlay(overlay \cap Reach) /\ overlay \subseteq Importable
      BY <1>t, <1>8 DEF Patch, StageOK, CycleOK
  <2>3. ws'.staged = [p \in Paths |-> IF p \in PatchPaths THEN content[p] ELSE ws.staged[p]]
      BY <1>t, <2>1 DEF Applied, Workspace
  <2>4. /\ ws'.kept = ws.kept /\ ws'.landed = ws.landed
        /\ ws'.manifest = IF conf.sandbox = "subprocess" THEN overlay \cup PatchPaths
                          ELSE IF modules = {} THEN overlay ELSE modules
      BY <1>t, <2>1, <2>2 DEF Applied, Workspace
  <2>5. Reach' = Reach
      BY <2>1, <2>4 DEF Reach
  <2>6. ASSUME NEW p \in Paths
        PROVE  Seen'[p] = IF p \in ws'.manifest \cap Reach
                          THEN IF p \in PatchPaths THEN content[p] ELSE ws.staged[p]
                          ELSE ws.kept[p]
      BY <2>3, <2>4, <2>5 DEF Seen
  <2>7. SeenWithFix'
    <3> SUFFICES ASSUME NEW p \in Paths
                 PROVE  Seen'[p] = base'.seen[p] \/ (p \in FixFiles /\ Seen'[p] = "fix")
        BY DEF SeenWithFix
    <3>1. CASE p \in ws'.manifest \cap Reach
      <4>1. p \in PatchPaths
          BY <2>4, <3>1 DEF PatchPaths
      <4>2. Seen'[p] = content[p]
          BY <2>6, <3>1, <4>1
      <4>3. CASE p \in FixFiles
          BY <4>2, <4>3
      <4>4. CASE p \notin FixFiles
        <5>1. p \in overlay \cap Reach
            BY <3>1, <4>1, <4>4 DEF PatchPaths
        <5>2. QED
            BY <2>1, <2>2, <4>2, <4>4, <5>1 DEF WithOverlay
      <4>5. QED
          BY <4>3, <4>4
    <3>2. CASE p \notin ws'.manifest \cap Reach
      <4>1. p \notin overlay \cap Reach
          BY <2>2, <2>4, <3>2 DEF PatchPaths
      <4>2. p \notin (IF conf.sandbox = "docker" THEN overlay \cap ws.landed ELSE {})
          BY <4>1 DEF Reach
      <4>3. Seen'[p] = ws.kept[p]
          BY <2>6, <3>2
      <4>4. ws.kept[p] = "released" /\ base.seen[p] = "released"
          BY <2>2, <4>1, <4>2 DEF WithOverlay
      <4>5. QED
          BY <2>1, <4>3, <4>4
    <3>3. QED
        BY <3>1, <3>2
  <2>8. ASSUME conf'.sandbox = "docker", NEW p \in FixFiles \cap InImage
        PROVE  Seen'[p] = "fix"
    <3>1. p \in ws'.manifest \cap Reach /\ p \in PatchPaths /\ p \in Paths
        BY <2>1, <2>4, <2>8, VerifierAssumption DEF PatchPaths, Reach, Paths
    <3>2. QED
        BY <2>6, <3>1
  <2>9. QED
      BY <2>1, <2>7, <2>8 DEF StageOK
<1>9. CASE UNCHANGED vars
    BY <1>t, <1>9 DEF vars, run, said, StageOK, Untouched, SeenWithFix, Seen, Reach, WithOverlay
<1>10. QED
    BY <1>1, <1>2, <1>3, <1>4, <1>5, <1>6, <1>7, <1>8, <1>9 DEF Next
-----------------------------------------------------------------------------
(* The order of the steps *)

LEMMA BaselineMakesRun ==
    ASSUME IInv, NEW res \in Outcomes, RunBaseline(res), pc \in {"baseline", "rebaseline"}
    PROVE  /\ base' # NoRun /\ base'.of = repro /\ base'.seen = Seen
           /\ base'.reproduced = Reproduced(res)
<1>1. repro \in Repro /\ Seen \in Sources
    BY SeenType DEF IInv, CycleOK
<1>2. Reproduced(res) \in BOOLEAN
    BY DEF Reproduced, Outcomes, Result
<1>3. base' \in Baselines
    BY <1>1, <1>2 DEF RunBaseline, Baselines
<1>4. QED
    BY <1>3, NoRunAssumption DEF RunBaseline

LEMMA RerunMakesRun ==
    ASSUME IInv, NEW res \in Outcomes, pc = "rerun",
           rerun' = [of |-> repro, seen |-> Seen, res |-> res]
    PROVE  rerun' # NoRun /\ rerun'.of = repro /\ rerun'.seen = Seen /\ rerun'.res = res
<1>1. repro \in Repro /\ Seen \in Sources /\ res \in Result
    BY SeenType DEF IInv, CycleOK, Outcomes
<1>2. rerun' \in Reruns
    BY <1>1 DEF Reruns
<1>3. QED
    BY <1>2, NoRunAssumption

\* A green triage is a green run
LEMMA GreenTriage ==
    ASSUME NEW res \in Outcomes, repro \in Repro, Triage(res) \in Green
    PROVE  /\ res.ok /\ ~res.orig /\ ~res.timedOut
           /\ repro.kind = "behavioral" => res.marker
    BY DEF Triage, Green, Repro

LEMMA CycleStep == IInv /\ [Next]_vars => CycleOK'
<1> SUFFICES ASSUME IInv, [Next]_vars PROVE CycleOK'
    OBVIOUS
<1>t. TypeOK /\ CycleOK
    BY DEF IInv
<1>v. GreenVerdict # "none" /\ \A res \in Outcomes : Triage(res) # "none"
    BY DEF GreenVerdict, Triage
<1>1. CASE Start
    BY <1>t, <1>1 DEF Start, Fail, Goto, said, run, CycleOK
<1>2. CASE Synthesize
  <2>1. repro' \in Repro /\ shown' = repro' /\ pc' = "prepare"
        /\ UNCHANGED <<overlay, base, rerun, tests, verdict>>
      BY <1>2, VerifierAssumption DEF Synthesize, Goto, Repro, run, said
  <2>2. QED
      BY <1>t, <1>2, <2>1 DEF CycleOK, Synthesize
<1>3. CASE SynthesizeFails
    BY <1>t, <1>3 DEF SynthesizeFails, Fail, run, CycleOK
<1>4. CASE Prepare
    BY <1>t, <1>4 DEF Prepare, run, said, CycleOK
<1>5. CASE Provision
    BY <1>t, <1>5 DEF Provision, Goto, run, said, CycleOK
<1>6. CASE Baseline
  <2>1. PICK res \in Outcomes :
           /\ RunBaseline(res)
           /\ IF Reproduced(res) THEN Goto("patch")
              ELSE IF conf.pr THEN Goto("overlay") ELSE Decide("no_repro")
      BY <1>6 DEF Baseline
  <2>2. base' # NoRun /\ base'.of = repro /\ base'.reproduced = Reproduced(res)
      BY <1>6, <2>1, BaselineMakesRun DEF Baseline
  <2>3. UNCHANGED <<repro, shown, overlay, rerun, tests>> /\ pc = "baseline"
      BY <1>6 DEF Baseline
  <2>4. \/ pc' = "patch" /\ Reproduced(res) /\ verdict' = verdict
        \/ pc' = "overlay" /\ ~Reproduced(res) /\ verdict' = verdict
        \/ pc' = "decide" /\ verdict' = "no_repro"
      BY <2>1 DEF Goto, Decide, said
  <2>5. QED
      BY <1>t, <2>2, <2>3, <2>4 DEF CycleOK
<1>7. CASE Overlay
  <2>1. overlay' \subseteq Importable
      BY <1>7 DEF Overlay
  <2>2. QED
      BY <1>t, <1>7, <2>1 DEF Overlay, Goto, run, said, CycleOK
<1>8. CASE OverlayNothing
    BY <1>t, <1>8 DEF OverlayNothing, Decide, run, CycleOK
<1>9. CASE Rebaseline
  <2>1. PICK res \in Outcomes :
           /\ RunBaseline(res)
           /\ IF Reproduced(res) THEN Goto("patch") ELSE Decide("no_repro")
      BY <1>9 DEF Rebaseline
  <2>2. base' # NoRun /\ base'.of = repro /\ base'.reproduced = Reproduced(res)
      BY <1>9, <2>1, BaselineMakesRun DEF Rebaseline
  <2>3. UNCHANGED <<repro, shown, overlay, rerun, tests>> /\ pc = "rebaseline"
      BY <1>9 DEF Rebaseline
  <2>4. \/ pc' = "patch" /\ Reproduced(res) /\ verdict' = verdict
        \/ pc' = "decide" /\ verdict' = "no_repro"
      BY <2>1 DEF Goto, Decide, said
  <2>5. QED
      BY <1>t, <2>2, <2>3, <2>4 DEF CycleOK
<1>10. CASE Patch
    BY <1>t, <1>10 DEF Patch, Goto, run, said, CycleOK
<1>11. CASE Rerun
  <2>1. PICK res \in Outcomes :
           /\ rerun' = [of |-> repro, seen |-> Seen, res |-> res]
           /\ IF Triage(res) \in Green /\ conf.tests THEN Goto("regress")
              ELSE Decide(Triage(res))
      BY <1>11 DEF Rerun
  <2>2. rerun' # NoRun /\ rerun'.of = repro /\ rerun'.res = res
      BY <1>11, <2>1, RerunMakesRun DEF Rerun
  <2>3. UNCHANGED <<conf, repro, shown, overlay, base, tests>> /\ pc = "rerun"
      BY <1>11 DEF Rerun
  <2>4. \/ pc' = "regress" /\ Triage(res) \in Green /\ conf.tests /\ verdict' = verdict
        \/ pc' = "decide" /\ verdict' # "none"
      BY <1>v, <2>1 DEF Goto, Decide, said
  <2>5. pc' = "regress" => GreenRun'
      BY <1>t, <2>2, <2>3, <2>4, GreenTriage DEF GreenRun, CycleOK
  <2>6. QED
      BY <1>t, <2>2, <2>3, <2>4, <2>5 DEF CycleOK
<1>12. CASE Regress
    BY <1>t, <1>v, <1>12 DEF Regress, Decide, CycleOK
<1>13. CASE Finish
    BY <1>t, <1>13 DEF Finish, run, CycleOK
<1>14. CASE Repair
  <2>1. repro' \in Repro
    <3>1. attempt + 1 \in 0..MaxRepair
        BY <1>t, <1>14, VerifierAssumption DEF Repair, NextAttempt, Again, TypeOK
    <3>2. repro \in Repro
        BY <1>t, <1>14 DEF Repair, NextAttempt, CycleOK
    <3>3. QED
        BY <1>14, <3>1, <3>2 DEF Repair, Repro
  <2>2. QED
      BY <1>14, <2>1 DEF Repair, NextAttempt, CycleOK
<1>15. CASE Raises
    BY <1>t, <1>15 DEF Raises, run, CycleOK
<1>16. CASE UNCHANGED vars
    BY <1>t, <1>16 DEF vars, run, said, CycleOK, GreenRun
<1>17. QED
    BY <1>1, <1>2, <1>3, <1>4, <1>5, <1>6, <1>7, <1>8, <1>9, <1>10, <1>11, <1>12, <1>13,
       <1>14, <1>15, <1>16 DEF Next
-----------------------------------------------------------------------------
(* The properties *)

LEMMA IsolatedStep == IInv /\ [Next]_vars => AttemptsIsolated'
<1> SUFFICES ASSUME IInv, [Next]_vars PROVE AttemptsIsolated'
    OBVIOUS
<1>t. TypeOK /\ StageOK /\ AttemptsIsolated
    BY DEF IInv
<1>1. CASE Baseline \/ Rebaseline
  <2>1. PICK res \in Outcomes : RunBaseline(res)
      BY <1>1 DEF Baseline, Rebaseline
  <2>2. base'.seen = Seen
      BY <1>1, <2>1, BaselineMakesRun DEF Baseline, Rebaseline
  <2>3. ws.staged = WithOverlay(overlay) /\ ws.manifest = overlay /\ ws.kept = Released
      BY <1>t, <1>1 DEF Baseline, Rebaseline, StageOK, Untouched, WithOverlay, Released
  <2>4. Seen = WithOverlay(overlay \cap Reach)
      BY <1>t, <2>3, RunOfOverlay
  <2>5. \A p \in Paths : base'.seen[p] \in {"buggy", "released"}
      BY <2>2, <2>4 DEF WithOverlay
  <2>6. QED
      BY <2>5 DEF AttemptsIsolated
<1>2. CASE Repair
    BY <1>2 DEF Repair, NextAttempt, AttemptsIsolated
<1>3. CASE UNCHANGED base
    BY <1>t, <1>3 DEF AttemptsIsolated
<1>4. QED
    BY <1>1, <1>2, <1>3 DEF Next, vars, run, Start, Synthesize, SynthesizeFails, Prepare,
       Provision, Overlay, OverlayNothing, Patch, Rerun, Regress, Finish, Raises

LEMMA FixAloneStep == IInv /\ [Next]_vars => FixAlone'
<1> SUFFICES ASSUME IInv, [Next]_vars PROVE FixAlone'
    OBVIOUS
<1>t. TypeOK /\ StageOK /\ CycleOK /\ FixAlone
    BY DEF IInv
<1>1. CASE Rerun
  <2>1. PICK res \in Outcomes : rerun' = [of |-> repro, seen |-> Seen, res |-> res]
      BY <1>1 DEF Rerun
  <2>2. rerun'.of = repro /\ rerun'.seen = Seen /\ pc = "rerun"
        /\ conf' = conf /\ base' = base
      BY <1>1, <2>1, RerunMakesRun DEF Rerun
  <2>3. base # NoRun /\ base.of = repro
      BY <1>t, <2>2 DEF CycleOK
  <2>4. QED
      BY <1>t, <2>2, <2>3 DEF StageOK, SeenWithFix, FixAlone
<1>2. CASE rerun' = NoRun
    BY <1>2 DEF FixAlone
<1>3. CASE UNCHANGED <<conf, base, rerun>>
    BY <1>t, <1>3 DEF FixAlone
<1>4. Baseline \/ Rebaseline \/ Repair => rerun' = NoRun
    BY <1>t DEF Baseline, Rebaseline, Repair, NextAttempt, CycleOK
<1>5. QED
    BY <1>1, <1>2, <1>3, <1>4 DEF Next, vars, run, Start, Synthesize, SynthesizeFails, Prepare,
       Provision, Overlay, OverlayNothing, Patch, Regress, Finish, Raises

\* The green verdict names its reproducer's kind and the fix's register
VerdictOfKind(v) ==
    /\ v = "verified_via_reproducer" => repro.kind = "crash"
    /\ v # "verified_via_reproducer" => repro.kind = "behavioral"
    /\ v = "verified_via_warning" => conf.register = "warn"
    /\ v = "verified_via_better_error" => conf.register = "better_error"

LEMMA GreenMeans ==
    ASSUME repro.kind \in {"behavioral", "crash"}
    PROVE  GreenVerdict \in Green /\ VerdictOfKind(GreenVerdict)
<1>1. CASE repro.kind = "crash"
  <2>1. GreenVerdict = "verified_via_reproducer"
      BY <1>1 DEF GreenVerdict
  <2>2. QED
      BY <1>1, <2>1 DEF VerdictOfKind, Green
<1>2. CASE repro.kind # "crash" /\ conf.register = "warn"
  <2>1. GreenVerdict = "verified_via_warning"
      BY <1>2 DEF GreenVerdict
  <2>2. QED
      BY <1>2, <2>1 DEF VerdictOfKind, Green
<1>3. CASE repro.kind # "crash" /\ conf.register = "better_error"
  <2>1. GreenVerdict = "verified_via_better_error"
      BY <1>3 DEF GreenVerdict
  <2>2. QED
      BY <1>3, <2>1 DEF VerdictOfKind, Green
<1>4. CASE repro.kind # "crash" /\ conf.register \notin {"warn", "better_error"}
  <2>1. GreenVerdict = "verified_via_behavior"
      BY <1>4 DEF GreenVerdict
  <2>2. QED
      BY <1>4, <2>1 DEF VerdictOfKind, Green
<1>5. QED
    BY <1>1, <1>2, <1>3, <1>4

\* The verdict after the patched run is what the run says
LEMMA TriageMeans ==
    ASSUME IInv, Rerun, pc' = "decide"
    PROVE  VerdictMeans'
<1>1. PICK res \in Outcomes :
         /\ rerun' = [of |-> repro, seen |-> Seen, res |-> res]
         /\ IF Triage(res) \in Green /\ conf.tests THEN Goto("regress")
            ELSE Decide(Triage(res))
    BY DEF Rerun
<1>2. rerun' # NoRun /\ rerun'.of = repro /\ rerun'.res = res /\ pc = "rerun"
    BY <1>1, RerunMakesRun DEF Rerun
<1>3. verdict' = Triage(res) /\ UNCHANGED <<conf, base, repro, tests, results, errors>>
      /\ (Triage(res) \in Green => ~conf.tests)
    BY <1>1, <1>2 DEF Decide, Goto, Rerun
<1>4. /\ tests = "none" /\ repro.kind \in {"behavioral", "crash"}
      /\ base # NoRun /\ base.reproduced
    BY <1>2 DEF IInv, CycleOK, Repro
<1>5. results' # 1
    BY <1>2, <1>3 DEF IInv, ReportedOnce
<1>6. Triage(res) \in Green => GreenRun'
    BY <1>2, <1>4, GreenTriage DEF GreenRun, IInv, CycleOK
<1>7. CASE Triage(res) \in Green
  <2>1. Triage(res) = GreenVerdict
      BY <1>7 DEF Triage, Green
  <2>2. verdict' = GreenVerdict /\ verdict' \in Green
      BY <1>3, <1>7, <2>1
  <2>3. VerdictOfKind(verdict')
      BY <1>4, <2>2, GreenMeans
  <2>4. QED
      BY <1>2, <1>3, <1>4, <1>6, <1>7, <2>2, <2>3 DEF VerdictMeans, VerdictOfKind, Green
<1>8. CASE Triage(res) \notin Green
  <2>1. GreenVerdict \in Green
      BY DEF GreenVerdict, Green
  <2>2. \/ verdict' = "still_broken" /\ res.orig
        \/ verdict' = "environmental_error" /\ res.timedOut
        \/ verdict' = "masks_symptom" /\ repro.kind = "behavioral" /\ res.assertion /\ ~res.orig
        \/ /\ verdict' = "repro_broken" /\ ~res.orig /\ ~res.timedOut
           /\ ~res.ok \/ (repro.kind = "behavioral" /\ ~res.marker)
      BY <1>3, <1>4, <1>8, <2>1 DEF Triage
  <2>3. verdict' = "repro_broken" => ~GreenRun'
      BY <1>2, <2>2 DEF GreenRun
  <2>4. QED
      BY <1>2, <1>3, <1>4, <1>5, <2>2, <2>3 DEF VerdictMeans, Green
<1>9. QED
    BY <1>7, <1>8

LEMMA VerdictStep == IInv /\ [Next]_vars => VerdictMeans'
<1> SUFFICES ASSUME IInv, [Next]_vars PROVE VerdictMeans'
    OBVIOUS
<1>t. TypeOK /\ CycleOK /\ VerdictMeans /\ ReportedOnce
    BY DEF IInv
<1>1. CASE Start
    BY <1>t, <1>1 DEF Start, Fail, Goto, said, run, CycleOK, VerdictMeans, Green
<1>2. CASE Synthesize \/ Prepare \/ Provision \/ Overlay \/ Patch
  <2>1. verdict' = "none" /\ UNCHANGED run
      BY <1>t, <1>2 DEF Synthesize, Prepare, Provision, Overlay, Patch, Goto, said, CycleOK
  <2>2. QED
      BY <1>t, <2>1 DEF VerdictMeans, Green, run
<1>3. CASE SynthesizeFails
    BY <1>t, <1>3 DEF SynthesizeFails, Fail, run, CycleOK, VerdictMeans, Green
<1>4. CASE Baseline \/ Rebaseline
  <2>1. PICK res \in Outcomes :
           /\ RunBaseline(res)
           /\ IF Reproduced(res) THEN Goto("patch")
              ELSE (pc' = "overlay" /\ UNCHANGED said) \/ Decide("no_repro")
      BY <1>4 DEF Baseline, Rebaseline, Goto
  <2>2. base' # NoRun /\ base'.reproduced = Reproduced(res)
      BY <1>4, <2>1, BaselineMakesRun DEF Baseline, Rebaseline
  <2>3. rerun' = NoRun /\ verdict = "none"
      BY <1>t, <1>4 DEF Baseline, Rebaseline, CycleOK
  <2>4. verdict' = "none" \/ (verdict' = "no_repro" /\ ~Reproduced(res))
      BY <2>1, <2>3 DEF Goto, Decide, said
  <2>5. QED
      BY <2>2, <2>3, <2>4 DEF VerdictMeans, Green
<1>5. CASE OverlayNothing
    BY <1>t, <1>5 DEF OverlayNothing, Decide, run, CycleOK, VerdictMeans, Green
<1>6. CASE Rerun
  <2>1. base' # NoRun /\ base'.reproduced
      BY <1>t, <1>6 DEF Rerun, CycleOK
  <2>2. CASE pc' = "decide"
      BY <1>6, <2>1, <2>2, TriageMeans DEF VerdictMeans
  <2>3. CASE pc' # "decide"
    <3>1. verdict' = "none"
        BY <1>t, <1>6, <2>3 DEF Rerun, Decide, Goto, said, CycleOK
    <3>2. QED
        BY <2>1, <3>1 DEF VerdictMeans, Green
  <2>4. QED
      BY <2>2, <2>3
<1>7. CASE Regress
  <2>1. /\ pc = "regress" /\ rerun' = rerun /\ base' = base /\ conf' = conf
        /\ tests' \in {"passed", "failed", "unparsed"}
        /\ verdict' = IF tests' = "failed" THEN "regression" ELSE GreenVerdict
      BY <1>7 DEF Regress, Decide
  <2>2. /\ rerun # NoRun /\ rerun.of = repro /\ GreenRun /\ base # NoRun /\ base.reproduced
        /\ repro \in Repro
      BY <1>t, <2>1 DEF CycleOK
  <2>3. GreenRun'
      BY <2>1, <2>2 DEF GreenRun
  <2>4. repro.kind \in {"behavioral", "crash"}
      BY <2>2 DEF Repro
  <2>5. CASE tests' = "failed"
      BY <2>1, <2>2, <2>3, <2>5 DEF VerdictMeans, Green
  <2>6. CASE tests' # "failed"
    <3>1. GreenVerdict \in Green /\ VerdictOfKind(GreenVerdict)
        BY <2>4, GreenMeans
    <3>2. QED
        BY <2>1, <2>2, <2>3, <2>6, <3>1 DEF VerdictMeans, VerdictOfKind, Green
  <2>7. QED
      BY <2>5, <2>6
<1>8. CASE Finish
  <2>1. UNCHANGED <<conf, attempt, repro, run, verdict>> /\ ~Again
      BY <1>8 DEF Finish
  <2>2. verdict = "repro_broken" => attempt = MaxRepair \/ ~conf.repair
      BY <1>t, <2>1, VerifierAssumption DEF Again, TypeOK, Conf
  <2>3. GreenRun' = GreenRun
      BY <2>1 DEF GreenRun, run
  <2>4. QED
      BY <1>t, <2>1, <2>2, <2>3 DEF VerdictMeans, run
<1>9. CASE Repair
    BY <1>9 DEF Repair, NextAttempt, VerdictMeans, Green
<1>10. CASE Raises
  <2>1. verdict' = "none" /\ UNCHANGED run
      BY <1>t, <1>10 DEF Raises, CycleOK
  <2>2. QED
      BY <1>t, <2>1 DEF VerdictMeans, Green, run
<1>11. CASE UNCHANGED vars
    BY <1>t, <1>11 DEF vars, run, said, VerdictMeans, GreenRun
<1>12. QED
    BY <1>1, <1>2, <1>3, <1>4, <1>5, <1>6, <1>7, <1>8, <1>9, <1>10, <1>11 DEF Next

LEMMA ReportStep == IInv /\ [Next]_vars => TimelineTrue' /\ ReportedOnce' /\ Discarded'
<1> SUFFICES ASSUME IInv, [Next]_vars PROVE TimelineTrue' /\ ReportedOnce' /\ Discarded'
    OBVIOUS
<1>t. TypeOK /\ CycleOK /\ TimelineTrue /\ ReportedOnce /\ Discarded
    BY DEF IInv
<1>c. CycleOK'
    BY CycleStep
<1>n. pc # "done" => results = 0 /\ errors = 0
  <2>1. results \in Nat /\ errors \in Nat
      BY <1>t DEF TypeOK
  <2>2. QED
      BY <1>t, <2>1 DEF ReportedOnce
<1>1. TimelineTrue'
  <2>1. CASE Baseline \/ Rebaseline
    <3>1. PICK res \in Outcomes : RunBaseline(res)
        BY <2>1 DEF Baseline, Rebaseline
    <3>2. base'.of = repro /\ repro' = repro
        BY <2>1, <3>1, BaselineMakesRun DEF Baseline, Rebaseline
    <3>3. QED
        BY <1>c, <3>2 DEF TimelineTrue, CycleOK
  <2>2. CASE base' = NoRun
      BY <1>c, <2>2 DEF TimelineTrue, CycleOK
  <2>3. CASE UNCHANGED <<base, repro>>
      BY <1>t, <1>c, <2>3 DEF TimelineTrue, CycleOK
  <2>4. Synthesize \/ Repair => base' = NoRun
      BY <1>t DEF Synthesize, Repair, NextAttempt, CycleOK, run
  <2>5. QED
      BY <2>1, <2>2, <2>3, <2>4 DEF Next, vars, run, Start, SynthesizeFails, Prepare,
         Provision, Overlay, OverlayNothing, Patch, Rerun, Regress, Finish, Raises
<1>2. ReportedOnce'
  <2>1. CASE Start \/ SynthesizeFails
    <3>1. results = 0 /\ errors = 0 /\ errors' = 0
        BY <1>n, <2>1 DEF Start, SynthesizeFails, Fail, Goto, said
    <3>2. \/ pc' = "done" /\ results' = 1 /\ verdict' # "none"
          \/ pc' # "done" /\ results' = 0
        BY <2>1, <3>1 DEF Start, SynthesizeFails, Fail, Goto, said
    <3>3. QED
        BY <3>1, <3>2 DEF ReportedOnce
  <2>2. CASE Synthesize \/ Prepare \/ Provision \/ Overlay \/ OverlayNothing \/ Patch
             \/ Regress \/ Baseline \/ Rebaseline \/ Rerun \/ Repair
    <3>1. UNCHANGED <<results, errors>> /\ pc' # "done" /\ pc # "done"
        BY <2>2 DEF Synthesize, Prepare, Provision, Overlay, OverlayNothing, Patch, Regress,
           Baseline, Rebaseline, Rerun, Repair, NextAttempt, Goto, Decide, said
    <3>2. QED
        BY <1>t, <3>1 DEF ReportedOnce, TypeOK
  <2>3. CASE Finish
    <3>1. results' = 1 /\ errors' = 0 /\ pc' = "done"
        BY <1>n, <2>3 DEF Finish
    <3>2. verdict' # "none"
        BY <1>t, <2>3 DEF Finish, CycleOK
    <3>3. QED
        BY <3>1, <3>2 DEF ReportedOnce
  <2>4. CASE Raises
    <3>1. results' = 0 /\ errors' = 1 /\ pc' = "done" /\ verdict' = verdict
        BY <1>n, <2>4 DEF Raises
    <3>2. verdict = "none"
        BY <1>t, <2>4 DEF Raises, CycleOK
    <3>3. QED
        BY <3>1, <3>2 DEF ReportedOnce
  <2>5. CASE UNCHANGED vars
      BY <1>t, <2>5 DEF vars, said, ReportedOnce
  <2>6. QED
      BY <2>1, <2>2, <2>3, <2>4, <2>5 DEF Next
<1>3. Discarded'
  <2>1. CASE UNCHANGED vars
      BY <1>t, <2>1 DEF vars, Discarded
  <2>2. CASE ~live'
      BY <2>2 DEF Discarded
  <2>3. CASE live' /\ Next
      BY <1>t, <2>3 DEF Next, Start, Synthesize, SynthesizeFails, Fail, Prepare, Provision,
         Baseline, Overlay, OverlayNothing, Rebaseline, Patch, Rerun, Regress, Finish,
         NextAttempt, Repair, Raises, Goto, Decide, Discarded
  <2>4. QED
      BY <2>1, <2>2, <2>3
<1>4. QED
    BY <1>1, <1>2, <1>3
-----------------------------------------------------------------------------
(* Theorems *)

LEMMA Invariance == Spec => []IInv
<1>1. IInv /\ [Next]_vars => IInv'
    BY TypeStep, StageStep, CycleStep, IsolatedStep, FixAloneStep, VerdictStep, ReportStep
       DEF IInv
<1>2. QED
    BY <1>1, InitIInv, PTL DEF Spec

\* The state of a verification is always of its types, in particular the number of
\* its attempts within the budget of repairs.
THEOREM TypeCorrect == Spec => []TypeOK
<1>1. IInv => TypeOK
    BY DEF IInv
<1>2. QED
    BY <1>1, Invariance, PTL

\* No patch of an attempt leaks into a later baseline, whatever the image and the
\* packages hold (verify's fresh handles).
THEOREM AttemptsIsolatedHolds == Spec => []AttemptsIsolated
<1>1. IInv => AttemptsIsolated
    BY DEF IInv
<1>2. QED
    BY <1>1, Invariance, PTL

\* The patched run differs from the baseline by the fix alone, for every fix, pull
\* request and overlay (_run_cycle's patch_changes).
THEOREM FixAloneHolds == Spec => []FixAlone
<1>1. IInv => FixAlone
    BY DEF IInv
<1>2. QED
    BY <1>1, Invariance, PTL

\* The verdict is true of the runs of the last attempt, for every number of
\* repairs and every outcome of the runs (_run_cycle and verify's loop).
THEOREM VerdictMeansHolds == Spec => []VerdictMeans
<1>1. IInv => VerdictMeans
    BY DEF IInv
<1>2. QED
    BY <1>1, Invariance, PTL

\* The reproducer that runs, and that a baseline is of, is the last one the
\* timeline shows, for every number of repairs (verify's loop).
THEOREM TimelineHolds == Spec => []TimelineTrue
<1>1. IInv => TimelineTrue
    BY DEF IInv
<1>2. QED
    BY <1>1, Invariance, PTL

\* One event ends a verification and no workspace outlives its attempt (verify,
\* _finish, _fail).
THEOREM ReportHolds == Spec => [](ReportedOnce /\ Discarded)
<1>1. IInv => ReportedOnce /\ Discarded
    BY DEF IInv
<1>2. QED
    BY <1>1, Invariance, PTL
-----------------------------------------------------------------------------
(* A verification cannot go on for ever                                    *)

\* How much of an attempt is ahead of a stage
Ahead == [label \in Pc |->
    CASE label = "start" -> 11      [] label = "synth" -> 10    [] label = "prepare" -> 9
      [] label = "provision" -> 8   [] label = "baseline" -> 7  [] label = "overlay" -> 6
      [] label = "rebaseline" -> 5  [] label = "patch" -> 4     [] label = "rerun" -> 3
      [] label = "regress" -> 2     [] label = "decide" -> 1    [] OTHER -> 0]

Rank == Ahead[pc] + 9 * (MaxRepair - attempt)

RankTyped == Rank \in Nat /\ Ahead[pc] \in 0..11 /\ MaxRepair - attempt \in Nat

LEMMA RankType == IInv => RankTyped
<1> SUFFICES ASSUME IInv PROVE RankTyped
    OBVIOUS
<1>1. Ahead[pc] \in 0..11
    BY DEF Ahead, IInv, TypeOK
<1>2. MaxRepair - attempt \in Nat
    BY VerifierAssumption DEF IInv, TypeOK
<1>3. QED
    BY <1>1, <1>2 DEF Rank, RankTyped

\* Within an attempt every step goes ahead, also one that overlays or fails
LEMMA AttemptAdvances ==
    ASSUME IInv, Next, ~Repair
    PROVE  Ahead[pc'] < Ahead[pc] /\ attempt' = attempt
<1> USE DEF Ahead, Pc
<1>1. CASE Start \/ Synthesize \/ SynthesizeFails \/ Prepare \/ Provision
    BY <1>1 DEF Start, Synthesize, SynthesizeFails, Prepare, Provision, Fail, Goto
<1>2. CASE Baseline
    BY <1>2 DEF Baseline, Goto, Decide
<1>3. CASE Overlay \/ OverlayNothing \/ Patch
    BY <1>3 DEF Overlay, OverlayNothing, Patch, Goto, Decide
<1>4. CASE Rebaseline
    BY <1>4 DEF Rebaseline, Goto, Decide
<1>5. CASE Rerun
    BY <1>5 DEF Rerun, Goto, Decide
<1>6. CASE Regress \/ Finish \/ Raises
    BY <1>6 DEF Regress, Finish, Raises, Decide
<1>7. QED
    BY <1>1, <1>2, <1>3, <1>4, <1>5, <1>6 DEF Next

\* And a repair costs an attempt
LEMMA RepairCounts ==
    ASSUME IInv, Repair
    PROVE  Ahead[pc] = 1 /\ Ahead[pc'] = 9 /\ attempt' = attempt + 1
    BY DEF Repair, NextAttempt, Ahead, Pc

Lessens == Rank \in Nat /\ Rank' \in Nat /\ Rank' < Rank

\* Whatever the reproducers, the runs in the sandbox, the overlays and the repairs
\* come out as, each step of a verification leaves less than there was of a natural
\* number: there are at most MaxRepair + 1 attempts, and what VerificationEnds adds
\* is that the thread goes on (verify, _run_cycle, repair_reproducer).
THEOREM StepsBounded == Spec => [][Lessens]_vars
<1>1. ASSUME IInv, RankTyped, RankTyped', Next PROVE Lessens
  <2>1. /\ Rank \in Nat /\ Ahead[pc] \in 0..11 /\ MaxRepair - attempt \in Nat
        /\ Rank' \in Nat /\ Ahead[pc'] \in 0..11 /\ MaxRepair - attempt' \in Nat
      BY <1>1 DEF RankTyped
  <2>2. attempt \in Nat /\ MaxRepair \in Nat
      BY <1>1, VerifierAssumption DEF IInv, TypeOK
  <2>3. CASE Repair
    <3>1. Ahead[pc] = 1 /\ Ahead[pc'] = 9 /\ attempt' = attempt + 1
        BY <1>1, <2>3, RepairCounts
    <3>2. 9 * (MaxRepair - attempt') + 9 = 9 * (MaxRepair - attempt)
        BY <2>1, <2>2, <3>1
    <3>3. QED
        BY <2>1, <2>2, <3>1, <3>2 DEF Rank, Lessens
  <2>4. CASE ~Repair
    <3>1. Ahead[pc'] < Ahead[pc] /\ attempt' = attempt
        BY <1>1, <2>4, AttemptAdvances
    <3>2. QED
        BY <2>1, <2>2, <3>1 DEF Rank, Lessens
  <2>5. QED
      BY <2>3, <2>4
<1>2. IInv /\ RankTyped /\ RankTyped' /\ [Next]_vars => [Lessens]_vars
    BY <1>1
<1>3. QED
    BY <1>2, RankType, Invariance, PTL DEF Spec
=============================================================================
