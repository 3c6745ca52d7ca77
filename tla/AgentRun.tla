------------------------------ MODULE AgentRun ------------------------------
(***************************************************************************)
(* The remediation agent on one pattern (agent/graph.py with               *)
(* agent/tools/code_retrieval.py and agent/tools/fix_generation.py): the   *)
(* investigation, the confidence gate, the operations of the proposed fix  *)
(* applied one by one, and the pull request.                               *)
(*                                                                         *)
(* What the models answer and what the code host returns is a choice.  A   *)
(* file is a sequence of tokens and an operation searches one of them:     *)
(* what matters is how often the search string occurs.                     *)
(***************************************************************************)
EXTENDS Integers, Sequences, FiniteSets

CONSTANTS
    Paths,        \* paths that a trace, the issue or the model may name
    Docs,         \* the notebooks and the files under docs/ or examples/
    NoFile,       \* "UNKNOWN.py", the target when nothing was retrieved
    Tokens, Empty,
    Original,     \* path -> its tokens
    SeedFiles,    \* max_files of retrieve_code_files
    Rounds,       \* _MAX_INVESTIGATE_ROUNDS
    ContextFiles, \* _MAX_CONTEXT_FILES
    MaxOps        \* bound: operations in one proposed fix

ASSUME AgentAssumption ==
    /\ IsFiniteSet(Paths) /\ Docs \subseteq Paths /\ NoFile \notin Paths
    /\ Empty \notin Tokens /\ Original \in [Paths -> Seq(Tokens)]
    /\ SeedFiles \in Nat /\ Rounds \in Nat \ {0} /\ ContextFiles \in Nat /\ MaxOps \in Nat
    /\ SeedFiles <= ContextFiles

VARIABLES
    pc,
    \* the investigation
    suspected, \* files named by the stack trace and the issue, in order
    seen,      \* paths that read_file skips
    files,     \* code_files, in order of insertion
    round,
    cause,     \* where the root cause is from
    conf,      \* its confidence: zero, or below or above min_confidence
    unseen,    \* history: evidence gathered since the model was last asked
    \* the fix
    work,      \* path -> content with the operations applied so far
    applied,   \* history: the operations that were applied
    rejected,  \* number of operations that were refused
    fix,       \* the kind of the proposal and the paths it changes
    outcome

search  == <<suspected, seen, files, round, unseen>>
verdict == <<cause, conf>>
edit    == <<work, applied, rejected>>
vars == <<pc, search, verdict, edit, fix, outcome>>

RangeOf(s) == {s[i] : i \in DOMAIN s}

\* extract_stack_files and extract_issue_files, merged without duplicates
Seeds == {s \in UNION {[1..n -> Paths] : n \in 0..Cardinality(Paths)} :
             \A i, j \in DOMAIN s : s[i] = s[j] => i = j}

Ops == [path : Paths, search : Tokens \cup {Empty}, replace : Tokens \cup {Empty}]
NoFix == [kind |-> "none", paths |-> {}]
Fixes == {NoFix} \cup [kind : {"edits", "placeholder"}, paths : SUBSET (Paths \cup {NoFile})]
Acting == {"ground", "generate", "ops", "draft", "open"}
Pc == Acting \cup {"seed", "ask", "act", "final", "gate", "notify", "done", "raised"}
Outcomes == {"skipped", "dry_run", "pr_opened", "failed"}

TypeOK ==
    /\ pc \in Pc
    /\ suspected \in Seq(Paths) /\ seen \subseteq Paths /\ files \in Seq(Paths)
    /\ round \in 0..Rounds
    /\ cause \in {"none", "model", "fallback"} /\ conf \in {"zero", "low", "high"}
    /\ unseen \subseteq Paths \cup {"result"}
    /\ work \in [Paths -> Seq(Tokens \cup {Empty})]
    /\ applied \in Seq(Ops) /\ rejected \in Nat
    /\ fix \in Fixes /\ outcome \in Outcomes

Init ==
    /\ pc = "seed" /\ suspected \in Seeds /\ seen = {} /\ files = <<>>
    /\ round = 0 /\ cause = "none" /\ conf = "zero"
    /\ unseen = {}
    /\ work = Original /\ applied = <<>> /\ rejected = 0
    /\ fix = NoFix /\ outcome = "skipped"
-----------------------------------------------------------------------------
(* _investigate                                                            *)

\* Paths that retrieve_code_files asks for: the first SeedFiles
Asked(paths) == SubSeq(paths, 1, IF Len(paths) < SeedFiles THEN Len(paths) ELSE SeedFiles)

\* What is left of paths, in their order, without the misses
Without(misses, paths) ==
    {s \in Seeds :
        \E at \in [DOMAIN s -> DOMAIN paths] :
            /\ RangeOf(s) = RangeOf(paths) \ misses
            /\ \A i \in DOMAIN s : s[i] = paths[at[i]]
            /\ \A i, j \in DOMAIN s : i < j => at[i] < at[j]}

\* The seed.  A path that the host does not return is a miss; all the
\* suspected paths are marked as seen.
SeedFromTraces ==
    /\ pc = "seed" /\ pc' = "ask"
    /\ \E misses \in SUBSET RangeOf(Asked(suspected)) :
          files' \in Without(misses, Asked(suspected))
    /\ unseen' = RangeOf(files')
    /\ seen' = RangeOf(suspected)
    /\ UNCHANGED <<suspected, round, verdict, edit, fix, outcome>>

Conclude(from, confidence) ==
    /\ cause' = from /\ conf' = confidence /\ pc' = "gate"

\* The model's call raised, or its answer has neither a root cause nor actions
NoConclusion == Conclude("fallback", "zero")

\* A call that answers has been shown all the files and results gathered
Answered == unseen' = {}

CallFails ==
    /\ pc \in {"ask", "final"}
    /\ NoConclusion
    /\ UNCHANGED <<suspected, seen, files, round, unseen, edit, fix, outcome>>

\* A root cause is taken as the end whatever else the answer holds
Converge ==
    /\ pc \in {"ask", "final"} /\ Answered
    /\ \E confidence \in {"zero", "low", "high"} : Conclude("model", confidence)
    /\ UNCHANGED <<suspected, seen, files, round, edit, fix, outcome>>

GiveUp ==
    /\ pc \in {"ask", "final"} /\ Answered /\ NoConclusion
    /\ UNCHANGED <<suspected, seen, files, round, edit, fix, outcome>>

\* A root cause or actions, but suspected_files or actions is no list: reading
\* it raises out of the node
MalformedAnswer ==
    /\ pc \in {"ask", "final"} /\ Answered /\ pc' = "raised"
    /\ UNCHANGED <<suspected, seen, files, round, verdict, edit, fix, outcome>>

\* Mutant: the rounds are not counted
ProposeForever ==
    /\ pc = "ask" /\ Answered /\ pc' = "act"
    /\ UNCHANGED <<suspected, seen, files, round, verdict, edit, fix, outcome>>

ProposeActions ==
    /\ pc = "ask" /\ Answered
    /\ round' = round + 1 /\ pc' = "act"
    /\ UNCHANGED <<suspected, seen, files, verdict, edit, fix, outcome>>

\* search and list_dir; a search that raises leaves no trace
SearchOrList ==
    /\ pc = "act"
    /\ unseen' = unseen \cup {"result"}
    /\ UNCHANGED <<pc, suspected, seen, files, round, verdict, edit, fix, outcome>>

ReadFile(p) ==
    /\ pc = "act"
    /\ p \notin seen /\ Len(files) < ContextFiles
    /\ seen' = seen \cup {p}
    /\ \/ files' = Append(files, p) /\ unseen' = unseen \cup {p}
       \/ UNCHANGED <<files, unseen>>
    /\ UNCHANGED <<pc, suspected, round, verdict, edit, fix, outcome>>

\* Mutant: the last round's root cause is what the model said before its reads
EndOfActionsUnasked ==
    /\ pc = "act"
    /\ IF round < Rounds
       THEN pc' = "ask" /\ UNCHANGED verdict
       ELSE Conclude("model", "high")
    /\ UNCHANGED <<search, edit, fix, outcome>>

\* After the last round one call without tools is made
EndOfActions ==
    /\ pc = "act"
    /\ pc' = IF round < Rounds THEN "ask" ELSE "final"
    /\ UNCHANGED <<search, verdict, edit, fix, outcome>>

Investigate == \/ SeedFromTraces \/ CallFails \/ Converge \/ GiveUp \/ MalformedAnswer
               \/ ProposeActions \/ SearchOrList \/ EndOfActions \/ \E p \in Paths : ReadFile(p)
-----------------------------------------------------------------------------
(* The gate, and grounding, which rewrites the summary only                *)

Gate ==
    /\ pc = "gate"
    /\ pc' = IF conf = "high" THEN "ground" ELSE "notify"
    /\ UNCHANGED <<search, verdict, edit, fix, outcome>>

Ground ==
    /\ pc = "ground" /\ pc' = "generate"
    /\ UNCHANGED <<search, verdict, edit, fix, outcome>>
-----------------------------------------------------------------------------
(* generate_fix                                                            *)

\* _editable_files: documentation only when nothing else was retrieved
Editable == LET source == RangeOf(files) \ Docs
            IN  IF source = {} THEN RangeOf(files) ELSE source

FirstEditable(i) ==
    /\ files[i] \in Editable
    /\ \A j \in DOMAIN files : files[j] \in Editable => i <= j

\* _fallback_changes: the first editable file is replaced by a comment
Target == IF files = <<>> THEN NoFile
          ELSE files[CHOOSE i \in DOMAIN files : FirstEditable(i)]

Placeholder == [kind |-> "placeholder", paths |-> {Target}]

Places(content, token) == {i \in DOMAIN content : content[i] = token}

\* Mutant: str.replace without its count, and no test for uniqueness
AcceptsAny(op) == /\ op.path \in RangeOf(files) /\ op.path \in Editable
                  /\ op.search # Empty /\ Places(work[op.path], op.search) # {}

\* The tests of _build_real_changes and _apply_change
Accepts(op) == /\ op.path \in RangeOf(files) /\ op.path \in Editable
               /\ op.search # Empty
               /\ Cardinality(Places(work[op.path], op.search)) = 1

Replaced(content, op) ==
    [i \in DOMAIN content |-> IF content[i] = op.search THEN op.replace ELSE content[i]]

\* The model's call: it raises, or its answer does not parse, or it does
Generate ==
    /\ pc = "generate"
    /\ \/ pc' = "raised" /\ UNCHANGED fix
       \/ pc' = "draft" /\ fix' = Placeholder
       \/ pc' = "ops" /\ UNCHANGED fix
    /\ UNCHANGED <<search, verdict, edit, outcome>>

\* An operation that was applied raises afterwards if its rationale is no string
Apply(op) ==
    /\ pc = "ops" /\ Len(applied) + rejected < MaxOps
    /\ IF Accepts(op)
       THEN /\ work' = [work EXCEPT ![op.path] = Replaced(@, op)]
            /\ applied' = Append(applied, op) /\ UNCHANGED rejected
            /\ pc' \in {pc, "raised"}
       ELSE rejected' = rejected + 1 /\ UNCHANGED <<pc, work, applied>>
    /\ UNCHANGED <<search, verdict, fix, outcome>>

Changed == {p \in RangeOf(files) : work[p] # Original[p]}

\* Mutant: an edit that was undone is a change too
BuildTouched ==
    /\ pc = "ops" /\ pc' = "draft"
    /\ LET touched == {applied[i].path : i \in DOMAIN applied}
       IN  fix' = IF touched = {} THEN Placeholder ELSE [kind |-> "edits", paths |-> touched]
    /\ UNCHANGED <<search, verdict, edit, outcome>>

\* Operations that cancel out leave no change
BuildChanges ==
    /\ pc = "ops" /\ pc' = "draft"
    /\ fix' = IF Changed = {} THEN Placeholder ELSE [kind |-> "edits", paths |-> Changed]
    /\ UNCHANGED <<search, verdict, edit, outcome>>
-----------------------------------------------------------------------------
(* compare_to_pr, draft_pr, open_pr, notify and the record of the pipeline *)

\* _compare_to_pr catches; the model's call of _draft_pr may raise
Draft ==
    /\ pc = "draft" /\ pc' \in {"open", "raised"}
    /\ UNCHANGED <<search, verdict, edit, fix, outcome>>

OpenPr ==
    /\ pc = "open"
    /\ \/ pc' = "raised" /\ UNCHANGED outcome
       \/ pc' = "notify" /\ outcome' \in {"dry_run", "pr_opened", "failed"}
    /\ UNCHANGED <<search, verdict, edit, fix>>

Notify ==
    /\ pc = "notify" /\ pc' = "done"
    /\ UNCHANGED <<search, verdict, edit, fix, outcome>>

Act == \/ Gate \/ Ground \/ Generate \/ (\E op \in Ops : Apply(op)) \/ BuildChanges
       \/ Draft \/ OpenPr \/ Notify

Next == Investigate \/ Act

Spec == Init /\ [][Next]_vars

\* One thread runs the graph to its end: WF of its next step.  What one answer
\* lists is finite, and repeating a search changes nothing here.
FairSpec == Spec /\ WF_vars(Next)
-----------------------------------------------------------------------------
(*                               Properties                                *)

\* The agent proposes a change only on a root cause that a model stated with
\* confidence in a call that was shown every file and result gathered before,
\* those of the last round too (_investigate, _final_synthesis,
\* _confidence_gate): no fix comes from the fallback, or from a diagnosis made
\* before the evidence that generate_fix is given.
ActsOnSeenEvidence ==
    pc \in Acting => cause = "model" /\ conf = "high" /\ unseen = {}

\* However many operations a proposal has and in whatever order they hit the
\* same lines, each changes one place of one file: nothing differs from what
\* was retrieved but the text that an applied operation put there
\* (_build_real_changes, _apply_change).
HunksExact ==
    \A p \in Paths :
        LET differs == {i \in DOMAIN Original[p] : work[p][i] # Original[p][i]}
            ops == {k \in DOMAIN applied : applied[k].path = p}
        IN  /\ Cardinality(differs) <= Cardinality(ops)
            /\ \A i \in differs : \E k \in ops : work[p][i] = applied[k].replace

\* A proposal of edits changes every file it names, although operations may be
\* refused and may undo each other; and edits and placeholders leave the
\* documentation alone unless nothing but documentation was retrieved
\* (_build_real_changes, _editable_files, _fallback_changes).
ProposalConfined ==
    /\ fix.kind = "edits" => \A p \in fix.paths : work[p] # Original[p]
    /\ fix.paths \cap Docs # {} => RangeOf(files) \subseteq Docs

\* The agent's thread ends: the investigation makes at most one call more than
\* it has rounds, whatever the model keeps asking for (_investigate).
AgentEnds == <>(pc \in {"done", "raised"})
=============================================================================
