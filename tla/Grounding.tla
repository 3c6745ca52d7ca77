------------------------------ MODULE Grounding ------------------------------
(***************************************************************************)
(* Grounding a root cause in the type definitions of a published package   *)
(* (agent/sdk_schema.py; _ground_root_cause and _sdk_schema_evidence of    *)
(* agent/graph.py), in the threads of one server that share                *)
(* data/sdk_cache, for one package.                                        *)
(*                                                                         *)
(* A cache directory is {package}@{pin} or {package}@latest.  pip, which   *)
(* is external, moves the items of a wheel into it one after the other and *)
(* leaves an item alone that is there.  Versions are numbers, in order of  *)
(* publication.                                                            *)
(***************************************************************************)
EXTENDS Integers, FiniteSets

CONSTANTS
    Threads,
    Pins,          \* versions a probe may name; not all need be published
    Latest, Absent,
    Items,         \* top-level items of the package's wheel
    Keywords,      \* 1..n: the probe's keywords, in order, no two the same
    MaxBlocks,     \* bound: top-level class blocks of the package
    MaxSnippets,   \* max_snippets of extract_schema_snippets
    MaxVersion,    \* bound: versions published
    MaxGroundings, \* bound: groundings begun
    MaxCrashes     \* bound: number of times the server dies

ASSUME GroundingAssumption ==
    /\ Pins \subseteq 1..MaxVersion /\ {Latest, Absent} \cap Nat = {}
    /\ Items # {} /\ IsFiniteSet(Items) /\ IsFiniteSet(Threads)
    /\ Keywords \subseteq Nat /\ IsFiniteSet(Keywords)
    /\ MaxBlocks \in Nat /\ MaxVersion \in Nat /\ MaxGroundings \in Nat /\ MaxCrashes \in Nat
    /\ MaxSnippets \in Nat /\ Cardinality(Keywords) <= MaxSnippets

VARIABLES
    newest,   \* the version pip finds without a pin
    begun, crashes,
    dir,      \* cache directory -> item -> its version, or Absent
    pc,
    target,   \* per thread: the directory of the current attempt
    version,  \* per thread: the version pip resolved
    left,     \* per thread: items pip has not moved yet
    evidence, \* per thread: what the grounding prompt carries
    told,     \* per thread: the doc.sdk_schema events of this grounding
    trouble   \* history: directories used by two threads at a time, or left
              \* behind by a server that died

attempt == <<target, version, left>>
vars == <<newest, begun, crashes, dir, pc, attempt, evidence, told, trouble>>

Dirs == Pins \cup {Latest}
Versions == 1..MaxVersion
NoEvidence == [dir |-> Absent]
Evidence == [dir : Dirs, items : [Items -> Versions \cup {Absent}],
             prompt : [buckets : SUBSET Keywords, served : SUBSET Keywords,
                       own : SUBSET Keywords, text : SUBSET Keywords]]
Pc == {"idle", "probe", "fetch", "pip", "moving", "cleanup", "giveup", "extract", "ask"}

TypeOK ==
    /\ newest \in Versions /\ begun \in 0..MaxGroundings /\ crashes \in 0..MaxCrashes
    /\ dir \in [Dirs -> [Items -> Versions \cup {Absent}]]
    /\ pc \in [Threads -> Pc] /\ target \in [Threads -> Dirs]
    /\ version \in [Threads -> Versions \cup {Absent}] /\ left \in [Threads -> SUBSET Items]
    /\ evidence \in [Threads -> Evidence \cup {NoEvidence}]
    /\ told \in [Threads -> 0..1] /\ trouble \subseteq Dirs

Nothing == [i \in Items |-> Absent]

Init ==
    /\ newest \in Versions /\ begun = 0 /\ crashes = 0
    /\ dir = [d \in Dirs |-> Nothing]
    /\ pc = [t \in Threads |-> "idle"] /\ target = [t \in Threads |-> Latest]
    /\ version = [t \in Threads |-> Absent] /\ left = [t \in Threads |-> {}]
    /\ evidence = [t \in Threads |-> NoEvidence] /\ told = [t \in Threads |-> 0]
    /\ trouble = {}

Goto(t, label) == pc' = [pc EXCEPT ![t] = label]

\* _sdk_schema_evidence ends: it emits doc.sdk_schema on every way out
Tell(t) == told' = [told EXCEPT ![t] = @ + 1] /\ Goto(t, "ask")
-----------------------------------------------------------------------------
(* _ground_root_cause up to the fetch                                      *)

\* With grounding off nothing is done; with sdk_schema_grounding off the model
\* is asked at once
Begin(t) ==
    /\ pc[t] = "idle" /\ begun < MaxGroundings
    /\ begun' = begun + 1
    /\ told' = [told EXCEPT ![t] = 0]
    /\ (Goto(t, "probe") \/ Goto(t, "ask"))
    /\ UNCHANGED <<newest, crashes, dir, attempt, evidence, trouble>>

\* The call fails, the answer is not relevant or its package or keywords are
\* unusable
ProbeFails(t) ==
    /\ pc[t] = "probe" /\ Tell(t)
    /\ UNCHANGED <<newest, begun, crashes, dir, attempt, evidence, trouble>>

\* A version hint that is no version is as none
Probe(t) ==
    /\ pc[t] = "probe" /\ Goto(t, "fetch")
    /\ \E d \in Dirs : target' = [target EXCEPT ![t] = d]
    /\ UNCHANGED <<newest, begun, crashes, dir, version, left, evidence, told, trouble>>
-----------------------------------------------------------------------------
(* fetch_sdk                                                               *)

Using(u, d) == target[u] = d /\ pc[u] \in {"moving", "cleanup", "giveup", "extract"}

\* Thread t starts to use its target
Enter(t) ==
    trouble' = IF \E u \in Threads \ {t} : Using(u, target[t])
               THEN trouble \cup {target[t]} ELSE trouble

Hit(t) ==
    /\ pc[t] = "fetch" /\ dir[target[t]] # Nothing
    /\ Goto(t, "extract") /\ Enter(t)
    /\ UNCHANGED <<newest, begun, crashes, dir, attempt, evidence, told>>

Miss(t) ==
    /\ pc[t] = "fetch" /\ dir[target[t]] = Nothing
    /\ Goto(t, "pip")
    /\ UNCHANGED <<newest, begun, crashes, dir, attempt, evidence, told, trouble>>

\* Mutant: the second attempt, without the pin, installs where the first did
ResolveInHintDir(t) ==
    /\ pc[t] = "pip"
    /\ version' = [version EXCEPT ![t] = newest]
    /\ left' = [left EXCEPT ![t] = Items]
    /\ Goto(t, "moving") /\ Enter(t)
    /\ UNCHANGED <<newest, begun, crashes, dir, target, evidence, told>>

\* External: pip downloads the wheel
Resolve(t) ==
    /\ pc[t] = "pip" /\ target[t] \in {Latest} \cup 1..newest
    /\ version' = [version EXCEPT ![t] = IF target[t] = Latest THEN newest ELSE target[t]]
    /\ left' = [left EXCEPT ![t] = Items]
    /\ Goto(t, "moving") /\ Enter(t)
    /\ UNCHANGED <<newest, begun, crashes, dir, target, evidence, told>>

\* External: pip moves an item into the target directory
Move(t) ==
    /\ pc[t] = "moving"
    /\ \E i \in left[t] :
          /\ left' = [left EXCEPT ![t] = @ \ {i}]
          /\ dir' = [dir EXCEPT ![target[t]][i] = IF @ = Absent THEN version[t] ELSE @]
    /\ UNCHANGED <<newest, begun, crashes, pc, target, version, evidence, told, trouble>>

\* The process of pip has ended
PipGone(t) == version' = [version EXCEPT ![t] = Absent] /\ left' = [left EXCEPT ![t] = {}]

\* pip exits with 0: a hit unless someone has emptied the directory
Installed(t) ==
    /\ pc[t] = "moving" /\ left[t] = {}
    /\ Goto(t, IF dir[target[t]] = Nothing THEN "cleanup" ELSE "extract") /\ PipGone(t)
    /\ UNCHANGED <<newest, begun, crashes, dir, target, evidence, told, trouble>>

\* pip fails, or it is killed at its timeout; an unpublished pin always fails
PipFails(t) ==
    /\ pc[t] \in {"pip", "moving"}
    /\ (Goto(t, "cleanup") \/ Goto(t, "giveup")) /\ Enter(t) /\ PipGone(t)
    /\ UNCHANGED <<newest, begun, crashes, dir, target, evidence, told>>

NextAttempt(t) ==
    IF target[t] = Latest
    THEN Tell(t) /\ UNCHANGED target
    ELSE /\ target' = [target EXCEPT ![t] = Latest]
         /\ Goto(t, "fetch") /\ UNCHANGED told

\* Mutant: what a failed install has left stays
KeepFailed(t) ==
    /\ pc[t] = "cleanup" /\ NextAttempt(t)
    /\ UNCHANGED <<newest, begun, crashes, dir, version, left, evidence, trouble>>

\* rmtree, and the attempt without the pin
Cleanup(t) ==
    /\ pc[t] = "cleanup"
    /\ dir' = [dir EXCEPT ![target[t]] = Nothing]
    /\ NextAttempt(t)
    /\ UNCHANGED <<newest, begun, crashes, version, left, evidence, trouble>>

\* Mutant: the exception's way out says nothing
GiveUpSilently(t) ==
    /\ pc[t] = "giveup" /\ Goto(t, "ask")
    /\ dir' = [dir EXCEPT ![target[t]] = Nothing]
    /\ UNCHANGED <<newest, begun, crashes, attempt, evidence, told, trouble>>

\* An exception, like the timeout: rmtree, and no other attempt
GiveUp(t) ==
    /\ pc[t] = "giveup"
    /\ dir' = [dir EXCEPT ![target[t]] = Nothing]
    /\ Tell(t)
    /\ UNCHANGED <<newest, begun, crashes, attempt, evidence, trouble>>
-----------------------------------------------------------------------------
(* extract_schema_snippets, and the grounding call                         *)

(* Of a class block count the keywords in it and those that are left of    *)
(* them in the text that is cut off at max_lines_each; a walk is the       *)
(* blocks in the order of the files.                                       *)

Blocks == {b \in [whole : SUBSET Keywords, cut : SUBSET Keywords] : b.cut \subseteq b.whole}
Walks == [1..MaxBlocks -> Blocks]

\* A block without keyword, or that truncation leaves without one, is dropped
Kept(walk) == {i \in 1..MaxBlocks : walk[i].cut # {}}

\* The bucket of a kept block is the first keyword that the whole block matches
InBucket(walk, i, k) == i \in Kept(walk) /\ k \in walk[i].whole /\ \A j \in walk[i].whole : k <= j

Sooner(walk, i) == {j \in Kept(walk) : j < i /\ \E k \in Keywords : InBucket(walk, i, k) /\ InBucket(walk, j, k)}

\* The rounds are numbered from 0: the position of a block in its bucket
Round(walk, i) == Cardinality(Sooner(walk, i))

InBucketBefore(walk, i, j) ==
    \E k, l \in Keywords : k < l /\ InBucket(walk, i, k) /\ InBucket(walk, j, l)

\* Mutant: first the blocks of the first keyword, then those of the next
FirstMatches(walk) ==
    LET Before(i) == {j \in Kept(walk) : InBucketBefore(walk, j, i) \/ j \in Sooner(walk, i)}
    IN  {i \in Kept(walk) : Cardinality(Before(i)) < MaxSnippets}

\* A round takes the next block of every bucket, in the order of the keywords,
\* until there are MaxSnippets
Snippets(walk) ==
    LET Before(i) == {j \in Kept(walk) : \/ Round(walk, j) < Round(walk, i)
                                         \/ /\ Round(walk, j) = Round(walk, i)
                                            /\ InBucketBefore(walk, j, i)}
    IN  {i \in Kept(walk) : Cardinality(Before(i)) < MaxSnippets}

\* The keywords of the buckets that have a block among these
BucketsOf(walk, shown) == {k \in Keywords : \E i \in shown : InBucket(walk, i, k)}

\* Keywords of kept blocks that no earlier keyword accompanies in one, and that
\* truncation takes from none
OwnKeywords(walk) ==
    {k \in Keywords : /\ \E i \in Kept(walk) : k \in walk[i].whole
                      /\ \A i \in Kept(walk) : k \in walk[i].whole =>
                            k \in walk[i].cut /\ InBucket(walk, i, k)}

\* The keywords with a bucket, with a class in the prompt, with classes of their
\* own, and in the text of the prompt
Prompt(walk) ==
    LET shown == Snippets(walk)
    IN  [buckets |-> BucketsOf(walk, Kept(walk)), served |-> BucketsOf(walk, shown),
         own |-> OwnKeywords(walk), text |-> UNION {walk[i].cut : i \in shown}]

Prompts == {Prompt(walk) : walk \in Walks}

Extract(t) ==
    /\ pc[t] = "extract" /\ Tell(t)
    /\ \E p \in Prompts :
          evidence' = [evidence EXCEPT ![t] =
              IF dir[target[t]] = Nothing \/ p.text = {} THEN NoEvidence
              ELSE [dir |-> target[t], items |-> dir[target[t]], prompt |-> p]]
    /\ UNCHANGED <<newest, begun, crashes, dir, attempt, trouble>>

\* The summary is rewritten or, when the call fails, kept
Ask(t) ==
    /\ pc[t] = "ask" /\ Goto(t, "idle")
    /\ evidence' = [evidence EXCEPT ![t] = NoEvidence]
    /\ target' = [target EXCEPT ![t] = Latest]
    /\ UNCHANGED <<newest, begun, crashes, dir, version, left, told, trouble>>
-----------------------------------------------------------------------------
Publish ==
    /\ newest < MaxVersion /\ newest' = newest + 1
    /\ UNCHANGED <<begun, crashes, dir, pc, attempt, evidence, told, trouble>>

\* The server dies and comes back
Crash ==
    /\ crashes < MaxCrashes /\ crashes' = crashes + 1
    /\ trouble' = trouble \cup {d \in Dirs : \E t \in Threads :
                                   target[t] = d /\ pc[t] \in {"moving", "cleanup", "giveup"}}
    /\ pc' = [t \in Threads |-> "idle"]
    /\ target' = [t \in Threads |-> Latest] /\ version' = [t \in Threads |-> Absent]
    /\ left' = [t \in Threads |-> {}]
    /\ evidence' = [t \in Threads |-> NoEvidence] /\ told' = [t \in Threads |-> 0]
    /\ UNCHANGED <<newest, begun, dir>>

Fetch(t) == \/ Hit(t) \/ Miss(t) \/ Resolve(t) \/ Move(t) \/ Installed(t) \/ PipFails(t)
            \/ Cleanup(t) \/ GiveUp(t)

Step(t) == ProbeFails(t) \/ Probe(t) \/ Fetch(t) \/ Extract(t) \/ Ask(t)

Next == (\E t \in Threads : Begin(t) \/ Step(t)) \/ Publish \/ Crash

Spec == Init /\ [][Next]_vars

\* The threads run; pip is killed after _PIP_TIMEOUT_S
FairSpec == Spec /\ \A t \in Threads : WF_vars(Step(t))
-----------------------------------------------------------------------------
(*                               Properties                                *)

\* A directory named after a pin never holds anything but that version: a pin
\* that fell back to the newest version does not poison the cache for a later
\* fetch of the same pin, and the version an evidence reports is the version
\* of its text (fetch_sdk: "The cache key is computed PER ATTEMPT").
PinnedDirsTrue ==
    /\ \A p \in Pins, i \in Items : dir[p][i] \in {p, Absent}
    /\ \A t \in Threads : evidence[t] # NoEvidence /\ evidence[t].dir \in Pins =>
          \A i \in Items : evidence[t].items[i] \in {evidence[t].dir, Absent}

\* What is called authoritative is a whole package of one version, although
\* installs fail and are killed halfway, as long as no other thread used the
\* directory at the same time and no server died in an install there (fetch_sdk:
\* a directory that is not empty is a hit, whoever left it).
WholeUntilTrouble ==
    \A t \in Threads : evidence[t] # NoEvidence /\ evidence[t].dir \notin trouble =>
        \E v \in Versions : \A i \in Items : evidence[t].items[i] = v

\* However many classes match a common keyword, each keyword with a bucket, i.e.
\* that is the first one some kept class matches, has a class of its own in the
\* prompt; and a keyword that no earlier one accompanies in a class, and that
\* truncation cuts from none, is in the prompt's text.  No more is true: a keyword
\* whose classes all match an earlier one too has no bucket, and its classes wait
\* behind the others of that one (extract_schema_snippets).
NoKeywordStarved ==
    \A t \in Threads : evidence[t] # NoEvidence =>
        /\ evidence[t].prompt.served = evidence[t].prompt.buckets
        /\ evidence[t].prompt.own \subseteq evidence[t].prompt.text

\* Every grounding that asks for evidence ends, having told so once whichever
\* way it took, unless the server died (_sdk_schema_evidence: "Emits
\* doc.sdk_schema in all paths").
GroundingEnds ==
    \A t \in Threads :
        pc[t] = "probe" ~> pc[t] = "idle" /\ (told[t] = 1 \/ crashes > 0)
=============================================================================
