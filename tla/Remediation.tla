----------------------------- MODULE Remediation -----------------------------
(***************************************************************************)
(* One RemediationPipeline serving POST /remediate (pipeline.py,           *)
(* detection/threshold.py, agent/graph.py, integrations/github.py and      *)
(* integrations/issue_era_host.py).  api/routes/remediate.py caches it for *)
(* the process, and its handler runs in a thread of FastAPI's pool: the    *)
(* calls share the dedup table, the agent's context and the code host.     *)
(*                                                                         *)
(* The shared host is the sequence of issue-era layers around the real     *)
(* one: <<>> is the real host, <<p>> serves reads at the commit of p.      *)
(***************************************************************************)
EXTENDS Integers, Sequences, FiniteSets

CONSTANTS
    Calls,        \* threads that serve POST /remediate
    Patterns,     \* fingerprints of recurring failures
    NoPattern, Never, Main,
    Hostings,     \* the hosts build_code_host may be configured to build
    Window,       \* dedup_window_minutes, in units of the model's clock
    MaxTime,      \* bound: the model's clock stops there
    MaxRequests,  \* bound: number of requests served
    MaxCrashes    \* bound: number of times the server process dies

ASSUME RemediationAssumption ==
    /\ IsFiniteSet(Calls)
    /\ NoPattern \notin Patterns /\ Main \notin Patterns /\ Never \notin Nat
    /\ Hostings \subseteq {"github", "mock", "dry_run"}
    /\ Window \in Nat /\ MaxTime \in Nat /\ MaxRequests \in Nat /\ MaxCrashes \in Nat

VARIABLES
    now, served, crashes,
    hosting,   \* the code host in use
    \* the pipeline object, shared
    handled,   \* ThresholdEngine._handled: pattern -> time, or Never
    host,      \* agent.ctx.code_host
    \* per call; what is not used any more is reset
    pc,
    todo,      \* patterns selected and not yet started
    base,      \* base_code_host
    cur,       \* the pattern the agent works on
    read,      \* which trees its files were read from: eras, or Main
    outcome,   \* AgentState["outcome"], "skipped" until open_pr sets it
    \* outside
    branches,  \* branches of the target repository
    pulls,     \* pattern -> pull requests opened for it
    audited,   \* pattern -> audit records that carry a pull request
    trouble    \* history: "raised" if a call raised or the process died,
               \* "overlap" if a call began while another was served

shared   == <<handled, host>>
callVars == <<pc, todo, base, cur, read, outcome>>
outside  == <<branches, pulls, audited>>
vars == <<hosting, now, served, crashes, shared, callVars, outside, trouble>>

\* The sequences of distinct patterns: detect returns one per fingerprint,
\* most frequent first
Orders == {s \in UNION {[1..n -> Patterns] : n \in 0..Cardinality(Patterns)} :
              \A i, j \in DOMAIN s : s[i] = s[j] => i = j}

Pc == {"idle", "base", "loop", "investigate", "fix", "open", "commit", "pull",
       "notify", "mark", "audit"}
Outcomes == {"skipped", "dry_run", "pr_opened"}

TypeOK ==
    /\ hosting \in Hostings
    /\ now \in 0..MaxTime /\ served \in 0..MaxRequests /\ crashes \in 0..MaxCrashes
    /\ handled \in [Patterns -> 0..MaxTime \cup {Never}]
    /\ host \in Seq(Patterns)
    /\ pc \in [Calls -> Pc] /\ cur \in [Calls -> Patterns \cup {NoPattern}]
    /\ \A c \in Calls : pc[c] \notin {"idle", "base", "loop"} => cur[c] \in Patterns
    /\ todo \in [Calls -> Seq(Patterns)] /\ base \in [Calls -> Seq(Patterns)]
    /\ read \in [Calls -> SUBSET (Patterns \cup {Main})]
    /\ outcome \in [Calls -> Outcomes]
    /\ pulls \in [Patterns -> Nat] /\ audited \in [Patterns -> Nat]
    /\ trouble \subseteq {"raised", "overlap"}

Init ==
    /\ hosting \in Hostings
    /\ now = 0 /\ served = 0 /\ crashes = 0
    /\ handled = [p \in Patterns |-> Never] /\ host = <<>>
    /\ pc = [c \in Calls |-> "idle"] /\ todo = [c \in Calls |-> <<>>]
    /\ base = [c \in Calls |-> <<>>] /\ cur = [c \in Calls |-> NoPattern]
    /\ read = [c \in Calls |-> {}] /\ outcome = [c \in Calls |-> "skipped"]
    /\ branches = {} /\ pulls = [p \in Patterns |-> 0]
    /\ audited = [p \in Patterns |-> 0] /\ trouble = {}

Goto(c, label) == pc' = [pc EXCEPT ![c] = label]
-----------------------------------------------------------------------------
(* run: selection, the loop over the selected patterns, the return         *)

IsDuplicate(p) == handled[p] # Never /\ now - handled[p] < Window

\* Mutant: without the dedup test
SelectAll(ps) == {ps}

\* The one sequence of the patterns of ps that are no duplicates, in their order
Select(ps) ==
    LET kept == {i \in DOMAIN ps : ~IsDuplicate(ps[i])}
    IN  {s \in Orders : \E at \in [DOMAIN s -> kept] :
            /\ {at[i] : i \in DOMAIN s} = kept
            /\ \A i \in DOMAIN s : s[i] = ps[at[i]]
            /\ \A i, j \in DOMAIN s : i < j => at[i] < at[j]}

Request(c) ==
    /\ pc[c] = "idle" /\ served < MaxRequests
    /\ served' = served + 1
    /\ \E ps \in Orders : \E s \in Select(ps) : todo' = [todo EXCEPT ![c] = s]
    /\ trouble' = IF \A d \in Calls : pc[d] = "idle" THEN trouble ELSE trouble \cup {"overlap"}
    /\ Goto(c, "base")
    /\ UNCHANGED <<hosting, now, crashes, shared, base, cur, read, outcome, outside>>

TakeBase(c) ==
    /\ pc[c] = "base"
    /\ base' = [base EXCEPT ![c] = host]
    /\ Goto(c, "loop")
    /\ UNCHANGED <<hosting, now, served, crashes, shared, todo, cur, read, outcome, outside, trouble>>

\* Mutant: the outcome of the pattern before is not reset
StartPatternStale(c) ==
    /\ pc[c] = "loop" /\ todo[c] # <<>>
    /\ LET p == Head(todo[c])
       IN  /\ cur' = [cur EXCEPT ![c] = p]
           /\ host' \in {base[c], Append(base[c], p)}
    /\ todo' = [todo EXCEPT ![c] = Tail(@)]
    /\ read' = [read EXCEPT ![c] = {}]
    /\ Goto(c, "investigate")
    /\ UNCHANGED <<hosting, now, served, crashes, handled, base, outcome, outside, trouble>>

\* _issue_era_host wraps the call's base host when a commit resolves
StartPattern(c) ==
    /\ pc[c] = "loop" /\ todo[c] # <<>>
    /\ LET p == Head(todo[c])
       IN  /\ cur' = [cur EXCEPT ![c] = p]
           /\ host' \in {base[c], Append(base[c], p)}
    /\ todo' = [todo EXCEPT ![c] = Tail(@)]
    /\ read' = [read EXCEPT ![c] = {}]
    /\ outcome' = [outcome EXCEPT ![c] = "skipped"]
    /\ Goto(c, "investigate")
    /\ UNCHANGED <<hosting, now, served, crashes, handled, base, outside, trouble>>

\* Mutant: the shared host keeps the last pattern's era
FinishUnrestored(c) ==
    /\ pc[c] = "loop" /\ todo[c] = <<>>
    /\ Goto(c, "idle")
    /\ UNCHANGED <<hosting, now, served, crashes, shared, todo, base, cur, read, outcome,
                   outside, trouble>>

Finish(c) ==
    /\ pc[c] = "loop" /\ todo[c] = <<>>
    /\ host' = base[c]
    /\ base' = [base EXCEPT ![c] = <<>>]
    /\ Goto(c, "idle")
    /\ UNCHANGED <<hosting, now, served, crashes, handled, todo, cur, read, outcome, outside,
                   trouble>>
-----------------------------------------------------------------------------
(* The agent's graph.  investigate and its tools catch what they call;     *)
(* grounding and the comparison do too and change nothing that is modelled.*)

\* IssueEraCodeHost.get_file: a path that is missing at the commit is read from
\* the host inside, which may be of another era
Read(c) ==
    /\ pc[c] = "investigate"
    /\ \E era \in {host[i] : i \in DOMAIN host} \cup {Main} :
          read' = [read EXCEPT ![c] = @ \cup {era}]
    /\ UNCHANGED <<hosting, now, served, crashes, shared, pc, todo, base, cur, outcome,
                   outside, trouble>>

\* _confidence_gate
ConfidenceGate(c) ==
    /\ pc[c] = "investigate"
    /\ \/ Goto(c, "fix") \/ Goto(c, "notify")
    /\ read' = [read EXCEPT ![c] = {}]
    /\ UNCHANGED <<hosting, now, served, crashes, shared, todo, base, cur, outcome, outside,
                   trouble>>

\* _ground_root_cause, _generate_fix, _compare_to_pr, _draft_pr
FixAndDraft(c) ==
    /\ pc[c] = "fix" /\ Goto(c, "open")
    /\ UNCHANGED <<hosting, now, served, crashes, shared, todo, base, cur, read, outcome,
                   outside, trouble>>

\* Mutant: the branch is named after FailurePattern.id, new in every run
DraftBranchOfRun(c) == <<cur[c], served>>

\* The branch of the draft, tvastr/fix-{fingerprint}
DraftBranch(c) == <<cur[c], 0>>

\* GitHubClient.open_pull_request, one remote call after the other.  GitHub
\* refuses a ref that exists.
CreateRef(c) ==
    /\ pc[c] = "open" /\ hosting = "github"
    /\ DraftBranch(c) \notin branches
    /\ branches' = branches \cup {DraftBranch(c)}
    /\ Goto(c, "commit")
    /\ UNCHANGED <<hosting, now, served, crashes, shared, todo, base, cur, read, outcome,
                   pulls, audited, trouble>>

\* update_file, or create_file when it raises, for each change
CommitChanges(c) ==
    /\ pc[c] = "commit" /\ Goto(c, "pull")
    /\ UNCHANGED <<hosting, now, served, crashes, shared, todo, base, cur, read, outcome,
                   outside, trouble>>

Opened(c) == /\ outcome' = [outcome EXCEPT ![c] = "pr_opened"]
             /\ Goto(c, "notify")

CreatePull(c) ==
    /\ pc[c] = "pull"
    /\ pulls' = [pulls EXCEPT ![cur[c]] = @ + 1]
    /\ Opened(c)
    /\ UNCHANGED <<hosting, now, served, crashes, shared, todo, base, cur, read, branches,
                   audited, trouble>>

\* MockGitHubClient.open_pull_request: no branch, no check
MockPull(c) ==
    /\ pc[c] = "open" /\ hosting = "mock"
    /\ pulls' = [pulls EXCEPT ![cur[c]] = @ + 1]
    /\ Opened(c)
    /\ UNCHANGED <<hosting, now, served, crashes, shared, todo, base, cur, read, branches,
                   audited, trouble>>

\* DryRunCodeHost.open_pull_request
CaptureDraft(c) ==
    /\ pc[c] = "open" /\ hosting = "dry_run"
    /\ outcome' = [outcome EXCEPT ![c] = "dry_run"]
    /\ Goto(c, "notify")
    /\ UNCHANGED <<hosting, now, served, crashes, shared, todo, base, cur, read, outside, trouble>>

\* _notify: a Slack post that fails is logged
Notify(c) ==
    /\ pc[c] = "notify" /\ Goto(c, "mark")
    /\ UNCHANGED <<hosting, now, served, crashes, shared, todo, base, cur, read, outcome,
                   outside, trouble>>
-----------------------------------------------------------------------------
(* run, after the agent                                                    *)

MarkHandled(c) ==
    /\ pc[c] = "mark"
    /\ handled' = [handled EXCEPT ![cur[c]] = now]
    /\ Goto(c, "audit")
    /\ UNCHANGED <<hosting, now, served, crashes, host, todo, base, cur, read, outcome,
                   outside, trouble>>

\* The record has the URL of a pull request that is not a dry run
SaveAudit(c) ==
    /\ pc[c] = "audit"
    /\ audited' = IF outcome[c] = "pr_opened"
                  THEN [audited EXCEPT ![cur[c]] = @ + 1] ELSE audited
    /\ Goto(c, "loop")
    /\ UNCHANGED <<hosting, now, served, crashes, shared, todo, base, cur, read, outcome,
                   branches, pulls, trouble>>

\* An exception leaves run: the call answers 500, the patterns it had selected
\* are dropped and the shared host stays as it is.  The model's call fails, the
\* branch exists, a remote call fails before or after it took effect, the
\* record cannot be saved.
Raise(c) ==
    /\ pc[c] \in {"fix", "open", "commit", "pull", "audit"}
    /\ \/ UNCHANGED <<branches, pulls>>
       \/ /\ pc[c] = "open" /\ hosting = "github" /\ DraftBranch(c) \notin branches
          /\ branches' = branches \cup {DraftBranch(c)}
          /\ UNCHANGED pulls
       \/ /\ pc[c] = "pull"
          /\ pulls' = [pulls EXCEPT ![cur[c]] = @ + 1]
          /\ UNCHANGED branches
    /\ todo' = [todo EXCEPT ![c] = <<>>] /\ base' = [base EXCEPT ![c] = <<>>]
    /\ trouble' = trouble \cup {"raised"}
    /\ Goto(c, "idle")
    /\ UNCHANGED <<hosting, now, served, crashes, shared, cur, read, outcome, audited>>
-----------------------------------------------------------------------------
Clock == /\ now < MaxTime /\ now' = now + 1
         /\ UNCHANGED <<hosting, served, crashes, shared, callVars, outside, trouble>>

\* The process dies and comes back: _pipeline() builds a new pipeline
Crash ==
    /\ crashes < MaxCrashes /\ crashes' = crashes + 1
    /\ handled' = [p \in Patterns |-> Never] /\ host' = <<>>
    /\ pc' = [c \in Calls |-> "idle"] /\ todo' = [c \in Calls |-> <<>>]
    /\ base' = [c \in Calls |-> <<>>] /\ read' = [c \in Calls |-> {}]
    /\ trouble' = trouble \cup {"raised"}
    /\ UNCHANGED <<hosting, now, served, cur, outcome, outside>>

Step(c) == \/ Request(c) \/ TakeBase(c) \/ StartPattern(c) \/ Finish(c)
           \/ Read(c) \/ ConfidenceGate(c) \/ FixAndDraft(c)
           \/ CreateRef(c) \/ CommitChanges(c) \/ CreatePull(c)
           \/ MockPull(c) \/ CaptureDraft(c) \/ Notify(c)
           \/ MarkHandled(c) \/ SaveAudit(c) \/ Raise(c)

Next == (\E c \in Calls : Step(c)) \/ Clock \/ Crash

Spec == Init /\ [][Next]_vars
-----------------------------------------------------------------------------
(*                               Properties                                *)

\* GitHub never holds two pull requests for one pattern, although the dedup
\* table is not locked, expires and is lost with the process: the branch is
\* named after the fingerprint, and the second call stops at it (_draft_pr,
\* open_pull_request).
OnePullPerPattern == hosting = "github" => \A p \in Patterns : pulls[p] <= 1

\* Calls that have opened a pull request and not recorded it yet
Unrecorded(p) == {c \in Calls : /\ pc[c] \in {"notify", "mark", "audit"}
                                /\ cur[c] = p /\ outcome[c] = "pr_opened"}

\* The audit log never claims a pull request that does not exist, and while no
\* call raises and the process lives it misses none, however the calls overlap
\* (run: the record takes the URL from this agent run's final state).
AuditExact ==
    \A p \in Patterns :
        LET claimed == audited[p] + Cardinality(Unrecorded(p))
        IN  claimed <= pulls[p] /\ (claimed = pulls[p] \/ "raised" \in trouble)

\* As long as no two calls overlapped, an agent is started on a pattern only when
\* the dedup window of its last handling has passed, although the patterns of a
\* call are selected together at its start and marked one by one
\* (ThresholdEngine): "Deduplication suppresses patterns already handled within
\* dedup_window_minutes".
DedupRespected ==
    [][\A c \in Calls :
          "overlap" \notin trouble /\ pc[c] = "loop" /\ pc'[c] = "investigate"
             => ~IsDuplicate(cur'[c])]_vars

\* As long as no call raised and no two overlapped, the agent's evidence is of
\* the issue's era or of the main branch, and an idle pipeline has its real host
\* back (run, the assignments to ctx.code_host).
OwnEraUntilTrouble ==
    trouble = {} =>
        /\ \A c \in Calls : pc[c] = "investigate" => read[c] \subseteq {cur[c], Main}
        /\ (\A c \in Calls : pc[c] = "idle") => host = <<>>
-----------------------------------------------------------------------------
(* What the documentation says and the code does not always do.            *)

\* pipeline.py, run: a second run "re-wraps from the real base, never
\* IssueEraCodeHost(IssueEraCodeHost(...))"
NeverNested == Len(host) <= 1
=============================================================================
