------------------------- MODULE RemediationProofs -------------------------
(***************************************************************************)
(* The safety of concurrent calls, for every number of calls, patterns,    *)
(* requests and crashes.  The dedup table has no part in why there is one  *)
(* pull request per pattern: it is the branch name that keeps calls apart. *)
(***************************************************************************)
EXTENDS Remediation, FiniteSetTheorems, TLAPS

\* Calls past create_git_ref whose pull request is not open yet
Opening(c) == pc[c] \in {"commit", "pull"}

ShapeOK == /\ pc \in [Calls -> Pc] /\ cur = [c \in Calls |-> cur[c]]
           /\ pulls \in [Patterns -> Nat]

\* A call that is opening a pull request has made the pattern's branch, and
\* there is no pull request for the pattern yet
Owned ==
    \A c \in Calls :
        Opening(c) => /\ DraftBranch(c) \in branches
                      /\ cur[c] \in Patterns => pulls[cur[c]] = 0

\* No other call is opening one for the same pattern
Alone == \A c, d \in Calls : Opening(c) /\ Opening(d) /\ cur[c] = cur[d] => c = d

\* A pattern with a pull request has its branch: branches are never deleted
Branched == \A p \in Patterns : pulls[p] > 0 => <<p, 0>> \in branches

AtMostOne == \A p \in Patterns : pulls[p] <= 1

OpenInv == ShapeOK /\ (hosting = "github" => Owned /\ Alone /\ Branched /\ AtMostOne)

LEMMA OpenInvInit == Init => OpenInv
BY DEF Init, OpenInv, ShapeOK, Owned, Alone, Branched, AtMostOne, Opening, Pc

\* A step by which no call starts to open a pull request, and that leaves the
\* branches and the pull requests alone
Quiet == /\ UNCHANGED <<hosting, branches, pulls>>
         /\ pc' \in [Calls -> Pc] /\ cur' = [c \in Calls |-> cur'[c]]
         /\ \A c \in Calls : Opening(c)' => Opening(c) /\ cur'[c] = cur[c]

LEMMA QuietStep == OpenInv /\ Quiet => OpenInv'
BY DEF Quiet, OpenInv, ShapeOK, Owned, Alone, Branched, AtMostOne, Opening, DraftBranch

\* The steps of a call that are quiet
LEMMA CallIsQuiet ==
    ASSUME OpenInv, NEW c \in Calls,
           \/ Request(c) \/ TakeBase(c) \/ StartPattern(c) \/ Finish(c)
           \/ Read(c) \/ ConfidenceGate(c) \/ FixAndDraft(c) \/ CaptureDraft(c)
           \/ CommitChanges(c) \/ Notify(c) \/ MarkHandled(c) \/ SaveAudit(c)
    PROVE  Quiet
<1>1. CASE Request(c)
    BY <1>1 DEF Request, Goto, OpenInv, ShapeOK, Quiet, Opening, Pc, callVars, outside, shared
<1>2. CASE TakeBase(c)
    BY <1>2 DEF TakeBase, Goto, OpenInv, ShapeOK, Quiet, Opening, Pc, callVars, outside, shared
<1>3. CASE StartPattern(c)
    BY <1>3 DEF StartPattern, Goto, OpenInv, ShapeOK, Quiet, Opening, Pc, callVars, outside, shared
<1>4. CASE Finish(c)
    BY <1>4 DEF Finish, Goto, OpenInv, ShapeOK, Quiet, Opening, Pc, callVars, outside, shared
<1>5. CASE Read(c)
    BY <1>5 DEF Read, Goto, OpenInv, ShapeOK, Quiet, Opening, Pc, callVars, outside, shared
<1>6. CASE ConfidenceGate(c)
    BY <1>6 DEF ConfidenceGate, Goto, OpenInv, ShapeOK, Quiet, Opening, Pc, callVars, outside, shared
<1>7. CASE FixAndDraft(c)
    BY <1>7 DEF FixAndDraft, Goto, OpenInv, ShapeOK, Quiet, Opening, Pc, callVars, outside, shared
<1>8. CASE CaptureDraft(c)
    BY <1>8 DEF CaptureDraft, Goto, OpenInv, ShapeOK, Quiet, Opening, Pc, callVars, outside, shared
<1>9. CASE CommitChanges(c)
    BY <1>9 DEF CommitChanges, Goto, OpenInv, ShapeOK, Quiet, Opening, Pc, callVars, outside, shared
<1>10. CASE Notify(c)
    BY <1>10 DEF Notify, Goto, OpenInv, ShapeOK, Quiet, Opening, Pc, callVars, outside, shared
<1>11. CASE MarkHandled(c)
    BY <1>11 DEF MarkHandled, Goto, OpenInv, ShapeOK, Quiet, Opening, Pc, callVars, outside, shared
<1>12. CASE SaveAudit(c)
    BY <1>12 DEF SaveAudit, Goto, OpenInv, ShapeOK, Quiet, Opening, Pc, callVars, outside, shared
<1>13. QED  BY <1>1, <1>2, <1>3, <1>4, <1>5, <1>6, <1>7, <1>8, <1>9, <1>10, <1>11, <1>12

\* Death and the clock are quiet too
LEMMA WorldIsQuiet == OpenInv /\ (Clock \/ Crash \/ UNCHANGED vars) => Quiet
<1>1. OpenInv /\ Clock => Quiet
    BY DEF Clock, OpenInv, ShapeOK, Quiet, Opening, callVars, outside, shared
<1>2. OpenInv /\ Crash => Quiet
    BY DEF Crash, OpenInv, ShapeOK, Quiet, Opening, Pc, callVars, outside, shared
<1>3. OpenInv /\ UNCHANGED vars => Quiet
    BY DEF vars, OpenInv, ShapeOK, Quiet, Opening, callVars, outside, shared
<1>4. QED  BY <1>1, <1>2, <1>3

\* create_git_ref: whoever is opening a pull request has its branch, so the
\* branch that does not exist is of a pattern nobody works on
LEMMA CreateRefStep ==
    ASSUME OpenInv, NEW c \in Calls, CreateRef(c)
    PROVE  OpenInv'
<1> USE DEF Opening, DraftBranch
<1>1. /\ hosting' = hosting /\ cur' = cur /\ pulls' = pulls
      /\ branches' = branches \cup {<<cur[c], 0>>}
      /\ <<cur[c], 0>> \notin branches /\ hosting = "github"
      /\ pc' = [pc EXCEPT ![c] = "commit"]
    BY DEF CreateRef, Goto
<1>2. ShapeOK'
    BY <1>1 DEF OpenInv, ShapeOK, Pc
<1>3. \A d \in Calls : d # c => (Opening(d)' <=> Opening(d))
    BY <1>1 DEF OpenInv, ShapeOK
<1>4. \A d \in Calls : Opening(d) => cur[d] # cur[c]
    BY <1>1 DEF OpenInv, Owned
<1>5. Owned'
  <2>1. cur[c] \in Patterns => pulls[cur[c]] = 0
      BY <1>1 DEF OpenInv, ShapeOK, Branched
  <2>2. QED  BY <1>1, <1>3, <2>1 DEF OpenInv, Owned
<1>6. Alone'
    BY <1>1, <1>3, <1>4 DEF OpenInv, Alone
<1>7. Branched' /\ AtMostOne'
    BY <1>1 DEF OpenInv, Branched, AtMostOne
<1>8. QED  BY <1>2, <1>5, <1>6, <1>7 DEF OpenInv

\* A count of pull requests stays a count
LEMMA OneMore ==
    ASSUME NEW S, NEW f \in [S -> Nat], NEW x
    PROVE  [f EXCEPT ![x] = @ + 1] \in [S -> Nat]
<1>1. CASE x \in S
  <2>1. f[x] + 1 \in Nat
      BY <1>1
  <2>2. QED  BY <1>1, <2>1, Zenon
<1>2. CASE x \notin S
    BY <1>2, Zenon
<1>3. QED  BY <1>1, <1>2

\* create_pull, answered or not: the pattern had none, and this call leaves
LEMMA PullStep ==
    ASSUME OpenInv, NEW c \in Calls, pc[c] = "pull",
           pulls' = [pulls EXCEPT ![cur[c]] = @ + 1],
           UNCHANGED <<hosting, branches, cur>>,
           NEW to \in {"notify", "idle"}, pc' = [pc EXCEPT ![c] = to]
    PROVE  OpenInv'
<1> USE DEF Opening, DraftBranch
<1>1. ShapeOK'
  <2>1. pc' \in [Calls -> Pc] /\ cur' = [d \in Calls |-> cur'[d]]
      BY DEF OpenInv, ShapeOK, Pc
  <2>2. pulls' \in [Patterns -> Nat]
      BY OneMore DEF OpenInv, ShapeOK
  <2>3. QED  BY <2>1, <2>2 DEF ShapeOK
<1>2. SUFFICES ASSUME hosting = "github"
               PROVE  Owned' /\ Alone' /\ Branched' /\ AtMostOne'
    BY <1>1 DEF OpenInv
<1>3. \A d \in Calls : Opening(d)' => Opening(d) /\ d # c /\ cur[d] # cur[c]
    BY <1>2 DEF OpenInv, ShapeOK, Alone
<1>4. \A p \in Patterns : p # cur[c] => pulls'[p] = pulls[p]
    BY DEF OpenInv, ShapeOK
<1>5. cur[c] \in Patterns => pulls'[cur[c]] = 1 /\ <<cur[c], 0>> \in branches
    BY <1>2 DEF OpenInv, ShapeOK, Owned
<1>6. Owned'
    BY <1>2, <1>3, <1>4 DEF OpenInv, Owned
<1>7. Alone'
    BY <1>2, <1>3 DEF OpenInv, Alone
<1>8. Branched' /\ AtMostOne'
    BY <1>2, <1>4, <1>5 DEF OpenInv, Branched, AtMostOne
<1>9. QED  BY <1>6, <1>7, <1>8

\* The mock host counts what it is given: only the shape of the state matters
LEMMA MockPullStep ==
    ASSUME OpenInv, NEW c \in Calls, MockPull(c)
    PROVE  OpenInv'
<1>1. /\ pulls' = [pulls EXCEPT ![cur[c]] = @ + 1]
      /\ hosting = "mock" /\ hosting' = hosting /\ cur' = cur
      /\ pc' = [pc EXCEPT ![c] = "notify"]
    BY DEF MockPull, Opened, Goto
<1>2. pulls' \in [Patterns -> Nat]
    BY <1>1, OneMore DEF OpenInv, ShapeOK
<1>3. pc' \in [Calls -> Pc] /\ cur' = [d \in Calls |-> cur'[d]]
    BY <1>1 DEF OpenInv, ShapeOK, Pc
<1>4. QED  BY <1>1, <1>2, <1>3 DEF OpenInv, ShapeOK

\* An exception: nothing has changed outside, or the branch has been made, or
\* the pull request has been opened
LEMMA RaiseStep ==
    ASSUME OpenInv, NEW c \in Calls, Raise(c)
    PROVE  OpenInv'
<1>1. /\ pc' = [pc EXCEPT ![c] = "idle"] /\ UNCHANGED <<hosting, cur>>
    BY DEF Raise, Goto
<1>2. CASE UNCHANGED <<branches, pulls>>
  <2>1. Quiet
      BY <1>1, <1>2 DEF OpenInv, ShapeOK, Quiet, Opening, Pc
  <2>2. QED  BY <2>1, QuietStep
<1>3. CASE /\ branches' = branches \cup {DraftBranch(c)}
           /\ UNCHANGED pulls
    BY <1>1, <1>3 DEF OpenInv, ShapeOK, Owned, Alone, Branched, AtMostOne,
                      Opening, DraftBranch, Pc
<1>4. CASE /\ pc[c] = "pull" /\ pulls' = [pulls EXCEPT ![cur[c]] = @ + 1]
           /\ UNCHANGED branches
    BY <1>1, <1>4, PullStep
<1>5. QED  BY <1>2, <1>3, <1>4 DEF Raise

LEMMA OpenInvStep == OpenInv /\ [Next]_vars => OpenInv'
<1>1. ASSUME OpenInv, NEW c \in Calls, Step(c)
      PROVE  OpenInv'
  <2>1. CASE CreateRef(c)  BY <1>1, <2>1, CreateRefStep
  <2>2. CASE CreatePull(c)
    <3>1. /\ pc[c] = "pull" /\ pulls' = [pulls EXCEPT ![cur[c]] = @ + 1]
          /\ UNCHANGED <<hosting, branches, cur>>
          /\ pc' = [pc EXCEPT ![c] = "notify"]
        BY <2>2 DEF CreatePull, Opened, Goto
    <3>2. QED  BY <1>1, <3>1, PullStep
  <2>3. CASE MockPull(c)  BY <1>1, <2>3, MockPullStep
  <2>4. CASE Raise(c)  BY <1>1, <2>4, RaiseStep
  <2>5. CASE \/ Request(c) \/ TakeBase(c) \/ StartPattern(c) \/ Finish(c)
             \/ Read(c) \/ ConfidenceGate(c) \/ FixAndDraft(c) \/ CaptureDraft(c)
             \/ CommitChanges(c) \/ Notify(c) \/ MarkHandled(c) \/ SaveAudit(c)
      BY <1>1, <2>5, CallIsQuiet, QuietStep
  <2>6. QED  BY <1>1, <2>1, <2>2, <2>3, <2>4, <2>5 DEF Step
<1>2. OpenInv /\ (Clock \/ Crash \/ UNCHANGED vars) => OpenInv'
    BY WorldIsQuiet, QuietStep
<1>3. QED  BY <1>1, <1>2 DEF Next

\* On GitHub no pattern ever has two pull requests, however many calls race,
\* however often the process dies and whatever the dedup table has forgotten
\* (_draft_pr, GitHubClient.open_pull_request).
THEOREM OnePullHolds == Spec => []OnePullPerPattern
<1>1. OpenInv => OnePullPerPattern
    BY DEF OpenInv, AtMostOne, OnePullPerPattern
<1>2. QED  BY <1>1, OpenInvInit, OpenInvStep, PTL DEF Spec
-----------------------------------------------------------------------------
(* Types, and what a call has done by where it is                          *)

\* Sequences of distinct patterns
Queues == {s \in Seq(Patterns) : \A i, j \in DOMAIN s : s[i] = s[j] => i = j}

\* The agent is at work on cur
Working == Pc \ {"idle", "base", "loop"}

Typed ==
    /\ TypeOK
    /\ todo \in [Calls -> Queues]
    /\ \A c \in Calls :
          pc[c] \in {"investigate", "fix", "open", "commit", "pull"} => outcome[c] = "skipped"

LEMMA OrdersAreQueues == Orders \subseteq Queues
<1> SUFFICES ASSUME NEW s \in Orders PROVE s \in Queues
    OBVIOUS
<1>1. PICK n \in 0..Cardinality(Patterns) : s \in [1..n -> Patterns]
    BY DEF Orders
<1>2. n \in Nat /\ s \in Seq(Patterns)
    BY <1>1
<1>3. QED  BY <1>2 DEF Orders, Queues

LEMMA Rest ==
    ASSUME NEW s \in Queues, s # <<>>
    PROVE  /\ Head(s) \in Patterns /\ Tail(s) \in Queues
           /\ \A i \in DOMAIN Tail(s) : i + 1 \in DOMAIN s /\ Tail(s)[i] = s[i + 1]
           /\ \A i \in DOMAIN Tail(s) : Tail(s)[i] # Head(s)
<1>1. s \in Seq(Patterns) /\ Len(s) \in Nat /\ Len(s) >= 1
    BY DEF Queues
<1>2. Head(s) = s[1] /\ Head(s) \in Patterns /\ Tail(s) \in Seq(Patterns)
    BY <1>1
<1>3. \A i \in DOMAIN Tail(s) : i \in Nat /\ i # 0 /\ i + 1 \in DOMAIN s /\ Tail(s)[i] = s[i + 1]
    BY <1>1
<1>4. \A i \in DOMAIN Tail(s) : Tail(s)[i] # Head(s)
    BY <1>1, <1>2, <1>3 DEF Queues
<1>5. \A i, j \in DOMAIN Tail(s) : Tail(s)[i] = Tail(s)[j] => i = j
    BY <1>3 DEF Queues
<1>6. QED  BY <1>2, <1>3, <1>4, <1>5 DEF Queues

LEMMA NoQueue == <<>> \in Queues /\ <<>> \in Seq(Patterns) /\ DOMAIN <<>> = {}
BY DEF Queues

LEMMA TypesInit == Init => Typed
<1> SUFFICES ASSUME Init PROVE Typed
    OBVIOUS
<1>1. todo \in [Calls -> Queues] /\ todo \in [Calls -> Seq(Patterns)]
    BY NoQueue DEF Init
<1>2. TypeOK
    BY <1>1, RemediationAssumption DEF Init, TypeOK, Pc, Outcomes
<1>3. QED  BY <1>1, <1>2 DEF Init, Typed

LEMMA TypesStep == Typed /\ [Next]_vars => Typed'
<1> SUFFICES ASSUME Typed, [Next]_vars PROVE Typed'
    OBVIOUS
<1> USE DEF TypeOK, Typed, Pc, Outcomes, Goto, shared, callVars, outside
<1>q. Queues \subseteq Seq(Patterns)
    BY DEF Queues
<1>1. ASSUME NEW c \in Calls, Request(c) PROVE Typed'
  <2>1. \E s \in Queues : todo' = [todo EXCEPT ![c] = s]
      BY <1>1, OrdersAreQueues DEF Request, Select
  <2>2. todo' \in [Calls -> Queues]
      BY <2>1
  <2>3. served' \in 0..MaxRequests
      BY <1>1, RemediationAssumption DEF Request
  <2>4. trouble' \subseteq {"raised", "overlap"}
      BY <1>1 DEF Request
  <2>5. todo' \in [Calls -> Seq(Patterns)]
      BY <1>q, <2>2
  <2>6. pc' = [pc EXCEPT ![c] = "base"]
      BY <1>1 DEF Request
  <2>7. QED  BY <1>1, <2>2, <2>3, <2>4, <2>5, <2>6 DEF Request
<1>2. ASSUME NEW c \in Calls, TakeBase(c) \/ Finish(c) PROVE Typed'
  <2>1. base[c] \in Seq(Patterns) /\ host \in Seq(Patterns)
      OBVIOUS
  <2>2. \E s \in Seq(Patterns) : base' = [base EXCEPT ![c] = s]
      BY <1>2, <2>1, NoQueue DEF TakeBase, Finish
  <2>3. base' \in [Calls -> Seq(Patterns)]
      BY <2>2
  <2>4. host' \in Seq(Patterns)
      BY <1>2, <2>1 DEF TakeBase, Finish
  <2>5. \E l \in Pc : pc' = [pc EXCEPT ![c] = l] /\ l \in {"loop", "idle"}
      BY <1>2 DEF TakeBase, Finish
  <2>6. UNCHANGED <<hosting, now, served, crashes, handled, todo, cur, read, outcome, outside, trouble>>
      BY <1>2 DEF TakeBase, Finish
  <2>7. QED  BY <2>3, <2>4, <2>5, <2>6
<1>3. ASSUME NEW c \in Calls, StartPattern(c) PROVE Typed'
  <2>1. Head(todo[c]) \in Patterns /\ Tail(todo[c]) \in Queues
      BY <1>3, Rest DEF StartPattern
  <2>2. host' \in Seq(Patterns)
    <3>1. base[c] \in Seq(Patterns)
        OBVIOUS
    <3>2. Append(base[c], Head(todo[c])) \in Seq(Patterns)
        BY <2>1, <3>1
    <3>3. QED  BY <1>3, <3>1, <3>2 DEF StartPattern
  <2>3. todo' \in [Calls -> Queues]
      BY <1>3, <2>1 DEF StartPattern
  <2>4. todo' \in [Calls -> Seq(Patterns)]
      BY <1>q, <2>3
  <2>5. /\ cur' = [cur EXCEPT ![c] = Head(todo[c])] /\ read' = [read EXCEPT ![c] = {}]
        /\ pc' = [pc EXCEPT ![c] = "investigate"] /\ outcome' = [outcome EXCEPT ![c] = "skipped"]
        /\ UNCHANGED <<hosting, now, served, crashes, handled, base, outside, trouble>>
      BY <1>3 DEF StartPattern
  <2>6. QED  BY <2>1, <2>2, <2>3, <2>4, <2>5
<1>4. ASSUME NEW c \in Calls, Read(c) PROVE Typed'
  <2>1. \A i \in DOMAIN host : host[i] \in Patterns
      OBVIOUS
  <2>2. read' \in [Calls -> SUBSET (Patterns \cup {Main})]
      BY <1>4, <2>1 DEF Read
  <2>3. QED  BY <1>4, <2>2 DEF Read
<1>5. ASSUME NEW c \in Calls, ConfidenceGate(c) \/ FixAndDraft(c) PROVE Typed'
    BY <1>5 DEF ConfidenceGate, FixAndDraft
<1>6. ASSUME NEW c \in Calls, CreateRef(c) \/ CommitChanges(c) \/ CaptureDraft(c) \/ Notify(c)
      PROVE  Typed'
    BY <1>6 DEF CreateRef, CommitChanges, CaptureDraft, Notify
<1>7. ASSUME NEW c \in Calls, CreatePull(c) \/ MockPull(c) PROVE Typed'
  <2>1. pulls' \in [Patterns -> Nat]
    <3>1. pulls' = [pulls EXCEPT ![cur[c]] = @ + 1] /\ pulls \in [Patterns -> Nat]
        BY <1>7 DEF CreatePull, MockPull
    <3>2. QED  BY <3>1, OneMore
  <2>2. QED  BY <1>7, <2>1 DEF CreatePull, MockPull, Opened
<1>8. ASSUME NEW c \in Calls, MarkHandled(c) PROVE Typed'
    BY <1>8 DEF MarkHandled
<1>9. ASSUME NEW c \in Calls, SaveAudit(c) PROVE Typed'
  <2>1. audited' \in [Patterns -> Nat]
    <3>1. [audited EXCEPT ![cur[c]] = @ + 1] \in [Patterns -> Nat]
        BY OneMore
    <3>2. QED  BY <1>9, <3>1 DEF SaveAudit
  <2>2. QED  BY <1>9, <2>1 DEF SaveAudit
<1>10. ASSUME NEW c \in Calls, Raise(c) PROVE Typed'
  <2>1. pulls' \in [Patterns -> Nat]
    <3>1. [pulls EXCEPT ![cur[c]] = @ + 1] \in [Patterns -> Nat]
        BY OneMore
    <3>2. QED  BY <1>10, <3>1 DEF Raise
  <2>2. /\ todo' \in [Calls -> Queues] /\ todo' \in [Calls -> Seq(Patterns)]
        /\ base' \in [Calls -> Seq(Patterns)]
      BY <1>10, NoQueue DEF Raise
  <2>3. QED  BY <1>10, <2>1, <2>2 DEF Raise
<1>11. CASE Clock
    BY <1>11, RemediationAssumption DEF Clock
<1>12. CASE Crash
  <2>1. /\ todo' \in [Calls -> Queues] /\ todo' \in [Calls -> Seq(Patterns)]
        /\ base' \in [Calls -> Seq(Patterns)] /\ host' \in Seq(Patterns)
      BY <1>12, NoQueue DEF Crash
  <2>2. crashes' \in 0..MaxCrashes
      BY <1>12, RemediationAssumption DEF Crash
  <2>3. QED  BY <1>12, <2>1, <2>2 DEF Crash
<1>13. CASE UNCHANGED vars
    BY <1>13 DEF vars
<1>14. QED
    BY <1>1, <1>2, <1>3, <1>4, <1>5, <1>6, <1>7, <1>8, <1>9, <1>10, <1>11, <1>12, <1>13
       DEF Next, Step

\* The state of the pipeline, its calls and what they left outside is always of
\* its types; the agent has a pattern while it works (run).
THEOREM TypesHold == Spec => []TypeOK
<1>1. Typed => TypeOK
    BY DEF Typed
<1>2. QED  BY <1>1, TypesInit, TypesStep, PTL DEF Spec
-----------------------------------------------------------------------------
(* The audit log: what is recorded, or about to be, are the pull requests  *)

LEMMA FewUnrecorded ==
    \A p \in Patterns : IsFiniteSet(Unrecorded(p)) /\ Cardinality(Unrecorded(p)) \in Nat
BY RemediationAssumption, FS_Subset, FS_CardinalityType DEF Unrecorded

\* Steps that neither open nor record a pull request
LEMMA AuditFrame ==
    ASSUME AuditExact, UNCHANGED <<pulls, audited>>, "raised" \in trouble' <=> "raised" \in trouble,
           \A p \in Patterns : Unrecorded(p)' = Unrecorded(p)
    PROVE  AuditExact'
BY DEF AuditExact

\* An exception or a death: what was to be recorded may be forgotten
LEMMA AuditForgets ==
    ASSUME Typed, Typed', AuditExact, audited' = audited, "raised" \in trouble',
           \A p \in Patterns : pulls[p] <= pulls'[p] /\ Unrecorded(p)' \subseteq Unrecorded(p)
    PROVE  AuditExact'
<1> SUFFICES ASSUME NEW p \in Patterns
             PROVE  audited[p] + Cardinality(Unrecorded(p)') <= pulls'[p]
    BY DEF AuditExact
<1>1. Cardinality(Unrecorded(p)') <= Cardinality(Unrecorded(p)) /\ Cardinality(Unrecorded(p)') \in Nat
    BY FewUnrecorded, FS_Subset, FS_CardinalityType
<1>2. audited[p] \in Nat /\ pulls[p] \in Nat /\ pulls'[p] \in Nat
    BY DEF Typed, TypeOK
<1>3. audited[p] + Cardinality(Unrecorded(p)) <= pulls[p] /\ pulls[p] <= pulls'[p]
    BY DEF AuditExact
<1>4. QED  BY <1>1, <1>2, <1>3, FewUnrecorded

\* A pull request is opened: one more to record
LEMMA AuditOpens ==
    ASSUME Typed, AuditExact, NEW c \in Calls, pc[c] \in {"open", "pull"},
           UNCHANGED <<audited, trouble, cur>>,
           pulls' = [pulls EXCEPT ![cur[c]] = @ + 1], Opened(c)
    PROVE  AuditExact'
<1>1. cur[c] \in Patterns /\ pulls \in [Patterns -> Nat] /\ audited \in [Patterns -> Nat]
    BY DEF Typed, TypeOK
<1>2. c \notin Unrecorded(cur[c]) /\ Unrecorded(cur[c])' = Unrecorded(cur[c]) \cup {c}
    BY DEF Typed, TypeOK, Unrecorded, Opened, Goto
<1>3. \A p \in Patterns \ {cur[c]} : Unrecorded(p)' = Unrecorded(p)
    BY DEF Typed, TypeOK, Unrecorded, Opened, Goto
<1>4. Cardinality(Unrecorded(cur[c])') = Cardinality(Unrecorded(cur[c])) + 1
    BY <1>1, <1>2, FewUnrecorded, FS_AddElement
<1>5. \A p \in Patterns : pulls'[p] = IF p = cur[c] THEN pulls[p] + 1 ELSE pulls[p]
    BY <1>1
<1>6. SUFFICES ASSUME NEW p \in Patterns
               PROVE  LET claimed == audited[p] + Cardinality(Unrecorded(p)')
                      IN  claimed <= pulls'[p] /\ (claimed = pulls'[p] \/ "raised" \in trouble)
    BY DEF AuditExact
<1>7. audited[p] \in Nat /\ pulls[p] \in Nat /\ Cardinality(Unrecorded(p)) \in Nat
    BY <1>1, FewUnrecorded
<1>8. CASE p = cur[c]
    BY <1>4, <1>5, <1>7, <1>8 DEF AuditExact
<1>9. CASE p # cur[c]
    BY <1>3, <1>5, <1>9 DEF AuditExact
<1>10. QED  BY <1>8, <1>9

\* It is recorded: one less to record, one more recorded
LEMMA AuditSaves ==
    ASSUME Typed, AuditExact, NEW c \in Calls, SaveAudit(c)
    PROVE  AuditExact'
<1>1. /\ cur[c] \in Patterns /\ pulls \in [Patterns -> Nat] /\ audited \in [Patterns -> Nat]
      /\ pc[c] = "audit" /\ pc' = [pc EXCEPT ![c] = "loop"]
      /\ UNCHANGED <<cur, outcome, pulls, trouble>>
    BY DEF Typed, TypeOK, SaveAudit, Goto
<1>2. CASE outcome[c] # "pr_opened"
  <2>1. \A p \in Patterns : Unrecorded(p)' = Unrecorded(p)
      BY <1>1, <1>2 DEF Typed, TypeOK, Unrecorded
  <2>2. audited' = audited
      BY <1>2 DEF SaveAudit
  <2>3. QED  BY <1>1, <2>1, <2>2, AuditFrame
<1>3. CASE outcome[c] = "pr_opened"
  <2>1. c \in Unrecorded(cur[c]) /\ Unrecorded(cur[c])' = Unrecorded(cur[c]) \ {c}
      BY <1>1, <1>3 DEF Typed, TypeOK, Unrecorded
  <2>2. \A p \in Patterns \ {cur[c]} : Unrecorded(p)' = Unrecorded(p)
      BY <1>1 DEF Typed, TypeOK, Unrecorded
  <2>3. Cardinality(Unrecorded(cur[c])') = Cardinality(Unrecorded(cur[c])) - 1
      BY <1>1, <2>1, FewUnrecorded, FS_RemoveElement
  <2>4. \A p \in Patterns : audited'[p] = IF p = cur[c] THEN audited[p] + 1 ELSE audited[p]
      BY <1>1, <1>3 DEF SaveAudit
  <2>5. SUFFICES ASSUME NEW p \in Patterns
                 PROVE  LET claimed == audited'[p] + Cardinality(Unrecorded(p)')
                        IN  claimed <= pulls[p] /\ (claimed = pulls[p] \/ "raised" \in trouble)
      BY <1>1 DEF AuditExact
  <2>6. audited[p] \in Nat /\ pulls[p] \in Nat /\ Cardinality(Unrecorded(p)) \in Nat
      BY <1>1, FewUnrecorded
  <2>7. CASE p = cur[c]
    <3>1. audited'[p] = audited[p] + 1 /\ Cardinality(Unrecorded(p)') = Cardinality(Unrecorded(p)) - 1
      <4>1. audited'[cur[c]] = audited[cur[c]] + 1
          BY <1>1, <2>4
      <4>2. QED  BY <1>1, <2>3, <2>7, <4>1
    <3>2. audited'[p] + Cardinality(Unrecorded(p)') = audited[p] + Cardinality(Unrecorded(p))
        BY <2>6, <3>1
    <3>3. QED  BY <3>2 DEF AuditExact
  <2>8. CASE p # cur[c]
      BY <2>2, <2>4, <2>8 DEF AuditExact
  <2>9. QED  BY <2>7, <2>8
<1>4. QED  BY <1>2, <1>3

LEMMA AuditInit == Init => AuditExact
<1> SUFFICES ASSUME Init, NEW p \in Patterns PROVE audited[p] + Cardinality(Unrecorded(p)) = pulls[p]
    BY DEF Init, AuditExact
<1>1. Unrecorded(p) = {}
    BY DEF Init, Unrecorded
<1>2. QED  BY <1>1, FS_EmptySet DEF Init

LEMMA AuditStep == Typed /\ Typed' /\ AuditExact /\ [Next]_vars => AuditExact'
<1> SUFFICES ASSUME Typed, Typed', AuditExact, [Next]_vars PROVE AuditExact'
    OBVIOUS
<1> USE DEF Goto, shared, callVars, outside
<1>0. Typed => pc \in [Calls -> Pc] /\ outcome \in [Calls -> Outcomes] /\ pulls \in [Patterns -> Nat]
    BY DEF Typed, TypeOK
<1>1. ASSUME NEW c \in Calls,
             \/ Request(c) \/ TakeBase(c) \/ StartPattern(c) \/ Finish(c) \/ Read(c)
             \/ ConfidenceGate(c) \/ FixAndDraft(c) \/ CreateRef(c) \/ CommitChanges(c)
      PROVE  AuditExact'
  <2>1. \A p \in Patterns : Unrecorded(p)' = Unrecorded(p)
    <3>1. CASE \/ Request(c) \/ TakeBase(c) \/ Finish(c) \/ Read(c) \/ FixAndDraft(c)
               \/ CreateRef(c) \/ CommitChanges(c)
        BY <1>0, <3>1 DEF Request, TakeBase, Finish, Read, FixAndDraft, CreateRef, CommitChanges,
           Unrecorded
    <3>2. CASE StartPattern(c)
      <4>1. /\ pc[c] = "loop" /\ pc' = [pc EXCEPT ![c] = "investigate"]
            /\ \A d \in Calls \ {c} : cur'[d] = cur[d] /\ outcome'[d] = outcome[d]
          BY <3>2 DEF StartPattern, Typed, TypeOK
      <4>2. QED  BY <1>0, <4>1 DEF Unrecorded
    <3>3. CASE ConfidenceGate(c)
      <4>1. outcome[c] = "skipped" /\ pc[c] = "investigate"
          BY <3>3 DEF ConfidenceGate, Typed
      <4>2. QED  BY <1>0, <3>3, <4>1 DEF ConfidenceGate, Unrecorded
    <3>4. QED  BY <1>1, <3>1, <3>2, <3>3
  <2>2. UNCHANGED <<pulls, audited>> /\ ("raised" \in trouble' <=> "raised" \in trouble)
      BY <1>1 DEF Request, TakeBase, StartPattern, Finish, Read, ConfidenceGate, FixAndDraft,
         CreateRef, CommitChanges
  <2>3. QED  BY <2>1, <2>2, AuditFrame
<1>2. ASSUME NEW c \in Calls, CaptureDraft(c) \/ Notify(c) \/ MarkHandled(c)
      PROVE  AuditExact'
  <2>1. \A p \in Patterns : Unrecorded(p)' = Unrecorded(p)
      BY <1>0, <1>2 DEF CaptureDraft, Notify, MarkHandled, Unrecorded
  <2>2. UNCHANGED <<pulls, audited, trouble>>
      BY <1>2 DEF CaptureDraft, Notify, MarkHandled
  <2>3. QED  BY <2>1, <2>2, AuditFrame
<1>3. ASSUME NEW c \in Calls, CreatePull(c) \/ MockPull(c) PROVE AuditExact'
    BY <1>3, AuditOpens DEF CreatePull, MockPull
<1>4. ASSUME NEW c \in Calls, SaveAudit(c) PROVE AuditExact'
    BY <1>4, AuditSaves
<1>5. ASSUME NEW c \in Calls, Raise(c) PROVE AuditExact'
  <2>1. \A p \in Patterns : Unrecorded(p)' \subseteq Unrecorded(p)
      BY <1>0, <1>5 DEF Raise, Unrecorded
  <2>2. \A p \in Patterns : pulls[p] <= pulls'[p]
      BY <1>0, <1>5 DEF Raise
  <2>3. audited' = audited /\ "raised" \in trouble'
      BY <1>5 DEF Raise
  <2>4. QED  BY <2>1, <2>2, <2>3, AuditForgets
<1>6. CASE Crash
  <2>1. \A p \in Patterns : Unrecorded(p)' \subseteq Unrecorded(p) /\ pulls[p] <= pulls'[p]
      BY <1>0, <1>6 DEF Crash, Unrecorded
  <2>2. audited' = audited /\ "raised" \in trouble'
      BY <1>6 DEF Crash
  <2>3. QED  BY <2>1, <2>2, AuditForgets
<1>7. CASE Clock \/ UNCHANGED vars
  <2>1. UNCHANGED <<pc, cur, outcome, pulls, audited, trouble>>
      BY <1>7 DEF Clock, vars
  <2>2. \A p \in Patterns : Unrecorded(p)' = Unrecorded(p)
      BY <2>1 DEF Unrecorded
  <2>3. QED  BY <2>1, <2>2, AuditFrame
<1>8. QED  BY <1>1, <1>2, <1>3, <1>4, <1>5, <1>6, <1>7 DEF Next, Step

\* The audit log has no pull request that does not exist and, unless a call
\* raised, misses none, for any number of overlapping calls (run).
THEOREM AuditHolds == Spec => []AuditExact
BY TypesInit, TypesStep, AuditInit, AuditStep, PTL DEF Spec
-----------------------------------------------------------------------------
(* One call after the other: nothing that is still to do was handled since *)
(* it was selected, and the shared host is of the call's own pattern       *)

Serial ==
    "overlap" \notin trouble => \A c, d \in Calls : pc[c] # "idle" /\ pc[d] # "idle" => c = d

LEMMA SerialInit == Init => Serial
BY DEF Init, Serial

LEMMA SerialStep == Typed /\ Serial /\ [Next]_vars => Serial'
<1> SUFFICES ASSUME Typed, Serial, [Next]_vars PROVE Serial'
    OBVIOUS
<1> USE DEF Serial, Goto
<1>0. pc \in [Calls -> Pc]
    BY DEF Typed, TypeOK
<1>1. ASSUME NEW c \in Calls, Request(c) PROVE Serial'
    BY <1>0, <1>1 DEF Request
<1>2. ASSUME NEW c \in Calls, Step(c), ~Request(c) PROVE Serial'
  <2>1. pc[c] # "idle" /\ (\A d \in Calls \ {c} : pc'[d] = pc[d]) /\ trouble \subseteq trouble'
      BY <1>0, <1>2 DEF Step, TakeBase, StartPattern, Finish, Read, ConfidenceGate, FixAndDraft,
         CreateRef, CommitChanges, CreatePull, MockPull, Opened, CaptureDraft, Notify, MarkHandled,
         SaveAudit, Raise
  <2>2. QED  BY <2>1
<1>3. CASE Crash
    BY <1>3 DEF Crash
<1>4. CASE Clock \/ UNCHANGED vars
    BY <1>4 DEF Clock, vars, callVars
<1>5. QED  BY <1>1, <1>2, <1>3, <1>4 DEF Next

\* No pattern that a call has still to start is a duplicate, or is the one the
\* agent works on
Undone ==
    "overlap" \notin trouble =>
        \A c \in Calls : pc[c] # "idle" =>
            /\ \A i \in DOMAIN todo[c] : ~IsDuplicate(todo[c][i])
            /\ pc[c] \in Working => \A i \in DOMAIN todo[c] : todo[c][i] # cur[c]

LEMMA UndoneInit == Init => Undone
BY DEF Init, Undone

\* Steps of a call that neither start nor mark a pattern
LEMMA UndoneFrame ==
    ASSUME Undone, UNCHANGED <<now, handled, todo>>, trouble \subseteq trouble',
           \A d \in Calls : pc'[d] # "idle" => pc[d] # "idle",
           \A d \in Calls : pc'[d] \in Working => pc[d] \in Working /\ cur'[d] = cur[d]
    PROVE  Undone'
BY DEF Undone, IsDuplicate

\* What was handled before grows older
LEMMA Older ==
    ASSUME Typed, Clock, NEW p \in Patterns, ~IsDuplicate(p)
    PROVE  ~IsDuplicate(p)'
<1>1. now \in Nat /\ now' = now + 1 /\ handled' = handled /\ Window \in Nat
    BY RemediationAssumption DEF Clock, Typed, TypeOK, shared
<1>2. handled[p] # Never => handled[p] \in Nat
    BY DEF Typed, TypeOK
<1>3. QED  BY <1>1, <1>2 DEF IsDuplicate

LEMMA QueueOfPatterns == ASSUME Typed, NEW c \in Calls PROVE \A i \in DOMAIN todo[c] : todo[c][i] \in Patterns
BY DEF Typed, Queues

LEMMA UndoneStep == Typed /\ Serial /\ Undone /\ [Next]_vars => Undone'
<1> SUFFICES ASSUME Typed, Serial, Undone, [Next]_vars PROVE Undone'
    OBVIOUS
<1> USE DEF Goto, shared, callVars, outside
<1>0. /\ pc \in [Calls -> Pc] /\ todo \in [Calls -> Queues]
      /\ cur \in [Calls -> Patterns \cup {NoPattern}] /\ handled = [p \in Patterns |-> handled[p]]
    BY DEF Typed, TypeOK
<1>1. ASSUME NEW c \in Calls, Request(c) PROVE Undone'
  <2>1. PICK ps \in Orders : \E s \in Select(ps) : todo' = [todo EXCEPT ![c] = s]
      BY <1>1 DEF Request
  <2>2. PICK s \in Select(ps) : todo' = [todo EXCEPT ![c] = s]
      BY <2>1
  <2>3. \A i \in DOMAIN s : ~IsDuplicate(s[i])
      BY DEF Select
  <2>4. /\ pc' = [pc EXCEPT ![c] = "base"] /\ UNCHANGED <<now, handled, cur>>
        /\ trouble \subseteq trouble'
      BY <1>1 DEF Request
  <2>5. \A d \in Calls \ {c} : pc'[d] = pc[d] /\ todo'[d] = todo[d]
      BY <1>0, <2>2, <2>4
  <2>6. pc'[c] = "base" /\ todo'[c] = s
      BY <1>0, <2>2, <2>4
  <2>7. QED  BY <2>3, <2>4, <2>5, <2>6 DEF Undone, IsDuplicate, Working
<1>2. ASSUME NEW c \in Calls,
             \/ TakeBase(c) \/ Finish(c) \/ Read(c) \/ ConfidenceGate(c) \/ FixAndDraft(c)
             \/ CreateRef(c) \/ CommitChanges(c) \/ CreatePull(c) \/ MockPull(c)
             \/ CaptureDraft(c) \/ Notify(c) \/ SaveAudit(c)
      PROVE  Undone'
  <2>1. /\ UNCHANGED <<now, handled, todo, cur, trouble>>
        /\ pc[c] # "idle" /\ \E l \in Pc : /\ pc' = [pc EXCEPT ![c] = l]
                                           /\ l \in Working => pc[c] \in Working
      BY <1>0, <1>2 DEF TakeBase, Finish, Read, ConfidenceGate, FixAndDraft, CreateRef, CommitChanges,
         CreatePull, MockPull, Opened, CaptureDraft, Notify, SaveAudit, Working, Pc
  <2>2. QED  BY <1>0, <2>1, UndoneFrame
<1>3. ASSUME NEW c \in Calls, StartPattern(c) PROVE Undone'
  <2>1. /\ pc[c] = "loop" /\ todo[c] # <<>> /\ pc' = [pc EXCEPT ![c] = "investigate"]
        /\ todo' = [todo EXCEPT ![c] = Tail(@)] /\ cur' = [cur EXCEPT ![c] = Head(todo[c])]
        /\ UNCHANGED <<now, handled, trouble>>
      BY <1>3 DEF StartPattern
  <2>2. todo'[c] = Tail(todo[c]) /\ cur'[c] = Head(todo[c]) /\ todo[c] \in Queues
      BY <1>0, <2>1
  <2>3. \A i \in DOMAIN todo'[c] : /\ i + 1 \in DOMAIN todo[c] /\ todo'[c][i] = todo[c][i + 1]
                                   /\ todo'[c][i] # cur'[c]
      BY <2>1, <2>2, Rest
  <2>4. \A d \in Calls \ {c} : pc'[d] = pc[d] /\ todo'[d] = todo[d] /\ cur'[d] = cur[d]
      BY <1>0, <2>1
  <2>5. QED  BY <2>1, <2>3, <2>4 DEF Undone, IsDuplicate
<1>4. ASSUME NEW c \in Calls, MarkHandled(c) PROVE Undone'
  <2>1. /\ pc[c] = "mark" /\ pc' = [pc EXCEPT ![c] = "audit"]
        /\ handled' = [handled EXCEPT ![cur[c]] = now] /\ UNCHANGED <<now, todo, cur, trouble>>
      BY <1>4 DEF MarkHandled
  <2>2. SUFFICES ASSUME "overlap" \notin trouble
                 PROVE  /\ \A d \in Calls \ {c} : pc'[d] = "idle"
                        /\ \A i \in DOMAIN todo[c] : ~IsDuplicate(todo[c][i])' /\ todo[c][i] # cur[c]
      BY <2>1 DEF Undone, IsDuplicate
  <2>3. \A d \in Calls \ {c} : pc'[d] = "idle"
      BY <1>0, <2>1, <2>2 DEF Serial
  <2>4. \A i \in DOMAIN todo[c] : ~IsDuplicate(todo[c][i]) /\ todo[c][i] # cur[c]
      BY <2>1, <2>2 DEF Undone, Working, Pc
  <2>5. \A p \in Patterns : p # cur[c] => handled'[p] = handled[p]
      BY <1>0, <2>1
  <2>6. \A i \in DOMAIN todo[c] : handled'[todo[c][i]] = handled[todo[c][i]]
      BY <2>4, <2>5, QueueOfPatterns
  <2>7. QED  BY <2>1, <2>3, <2>4, <2>6 DEF IsDuplicate
<1>5. ASSUME NEW c \in Calls, Raise(c) PROVE Undone'
  <2>1. /\ pc' = [pc EXCEPT ![c] = "idle"] /\ todo' = [todo EXCEPT ![c] = <<>>]
        /\ UNCHANGED <<now, handled, cur>> /\ trouble \subseteq trouble'
      BY <1>5 DEF Raise
  <2>2. pc'[c] = "idle" /\ \A d \in Calls \ {c} : pc'[d] = pc[d] /\ todo'[d] = todo[d]
      BY <1>0, <2>1
  <2>3. QED  BY <2>1, <2>2 DEF Undone, IsDuplicate
<1>6. CASE Clock
  <2>1. UNCHANGED <<pc, todo, cur, trouble>>
      BY <1>6 DEF Clock
  <2>2. \A c \in Calls : \A i \in DOMAIN todo[c] : ~IsDuplicate(todo[c][i]) => ~IsDuplicate(todo[c][i])'
      BY <1>6, <2>1, Older, QueueOfPatterns
  <2>3. QED  BY <2>1, <2>2 DEF Undone
<1>7. CASE Crash
    BY <1>7 DEF Crash, Undone
<1>8. CASE UNCHANGED vars
    BY <1>8 DEF vars, Undone, IsDuplicate
<1>9. QED
    BY <1>1, <1>2, <1>3, <1>4, <1>5, <1>6, <1>7, <1>8 DEF Next, Step

LEMMA DedupStep ==
    Typed /\ Undone /\ [Next]_vars =>
        [\A c \in Calls :
            "overlap" \notin trouble /\ pc[c] = "loop" /\ pc'[c] = "investigate"
               => ~IsDuplicate(cur'[c])]_vars
<1> SUFFICES ASSUME Typed, Undone, Next, NEW c \in Calls,
                    "overlap" \notin trouble, pc[c] = "loop", pc'[c] = "investigate"
             PROVE  ~IsDuplicate(cur'[c])
    OBVIOUS
<1>0. pc \in [Calls -> Pc] /\ todo \in [Calls -> Queues] /\ cur \in [Calls -> Patterns \cup {NoPattern}]
    BY DEF Typed, TypeOK
<1>1. StartPattern(c)
  <2>1. ASSUME NEW d \in Calls, Step(d), ~StartPattern(d) PROVE FALSE
      BY <1>0, <2>1 DEF Step, Request, TakeBase, Finish, Read, ConfidenceGate, FixAndDraft, CreateRef,
         CommitChanges, CreatePull, MockPull, Opened, CaptureDraft, Notify, MarkHandled, SaveAudit,
         Raise, Goto
  <2>2. ASSUME NEW d \in Calls, StartPattern(d) PROVE d = c
      BY <1>0, <2>2 DEF StartPattern, Goto
  <2>3. ~(Clock \/ Crash)
      BY DEF Clock, Crash, callVars
  <2>4. QED  BY <2>1, <2>2, <2>3 DEF Next
<1>2. todo[c] \in Queues /\ todo[c] # <<>> /\ cur'[c] = Head(todo[c])
    BY <1>0, <1>1 DEF StartPattern
<1>3. 1 \in DOMAIN todo[c] /\ cur'[c] = todo[c][1]
    BY <1>2 DEF Queues
<1>4. QED  BY <1>3 DEF Undone

\* While calls do not overlap, no agent is started on a pattern whose dedup window
\* is open, for any window, clock and number of requests (ThresholdEngine.select
\* and the loop of run).
THEOREM DedupHolds == Spec => DedupRespected
BY TypesInit, TypesStep, SerialInit, SerialStep, UndoneInit, UndoneStep, DedupStep, PTL
   DEF Spec, DedupRespected

-----------------------------------------------------------------------------
(* Eras                                                                    *)

\* Without trouble: an idle pipeline has its real host, so that is what a call
\* takes for its base, and what the agent reads through is of its pattern
Eras ==
    trouble = {} =>
        /\ (\A c \in Calls : pc[c] \in {"idle", "base"}) => host = <<>>
        /\ \A c \in Calls :
              /\ pc[c] \notin {"idle", "base"} => base[c] = <<>>
              /\ pc[c] = "investigate" => /\ \A i \in DOMAIN host : host[i] = cur[c]
                                        /\ read[c] \subseteq {cur[c], Main}

LEMMA ErasInit == Init => Eras
BY DEF Init, Eras

\* Without trouble there is one call at a time
LEMMA OthersIdle ==
    ASSUME Serial, trouble = {}, NEW c \in Calls, pc[c] # "idle"
    PROVE  \A d \in Calls \ {c} : pc[d] = "idle"
BY DEF Serial

LEMMA ErasStep == Typed /\ Serial /\ Eras /\ [Next]_vars => Eras'
<1> SUFFICES ASSUME Typed, Serial, Eras, [Next]_vars, trouble' = {} PROVE Eras'
    BY DEF Eras
<1> USE DEF Goto, shared, callVars, outside
<1>0. /\ pc \in [Calls -> Pc] /\ base \in [Calls -> Seq(Patterns)]
      /\ cur = [c \in Calls |-> cur[c]] /\ read = [c \in Calls |-> read[c]]
    BY DEF Typed, TypeOK
<1>1. ASSUME NEW c \in Calls, Request(c) PROVE Eras'
  <2>1. trouble = {} /\ \A d \in Calls : pc[d] = "idle"
      BY <1>1 DEF Request
  <2>2. /\ pc' = [pc EXCEPT ![c] = "base"] /\ UNCHANGED <<host, base, cur, read>>
      BY <1>1 DEF Request
  <2>3. \A d \in Calls : pc'[d] \in {"idle", "base"}
      BY <1>0, <2>1, <2>2
  <2>4. QED  BY <2>1, <2>2, <2>3 DEF Eras
<1>2. ASSUME NEW c \in Calls, Step(c), ~Request(c) PROVE Eras'
  <2>1. trouble = {} /\ pc[c] # "idle" /\ \A d \in Calls \ {c} : pc'[d] = pc[d]
      BY <1>0, <1>2 DEF Step, TakeBase, StartPattern, Finish, Read, ConfidenceGate, FixAndDraft,
         CreateRef, CommitChanges, CreatePull, MockPull, Opened, CaptureDraft, Notify, MarkHandled,
         SaveAudit, Raise
  <2>2. \A d \in Calls \ {c} : pc'[d] = "idle"
      BY <2>1, OthersIdle
  <2>3. SUFFICES /\ pc'[c] \in {"idle", "base"} => host' = <<>>
                 /\ pc'[c] \notin {"idle", "base"} => base'[c] = <<>>
                 /\ pc'[c] = "investigate" => /\ \A i \in DOMAIN host' : host'[i] = cur'[c]
                                            /\ read'[c] \subseteq {cur'[c], Main}
      BY <2>2 DEF Eras
  <2>4. CASE TakeBase(c)
    <3>1. host = <<>>
        BY <2>1, <2>4, OthersIdle DEF TakeBase, Eras
    <3>2. QED  BY <1>0, <2>4, <3>1 DEF TakeBase
  <2>5. CASE StartPattern(c)
    <3>1. base[c] = <<>> /\ cur'[c] = Head(todo[c]) /\ read'[c] = {} /\ base' = base /\ pc'[c] = "investigate"
        BY <1>0, <2>1, <2>5 DEF StartPattern, Eras
    <3>2. host' \in {<<>>, <<cur'[c]>>}
        BY <2>5, <3>1 DEF StartPattern
    <3>3. QED  BY <3>1, <3>2
  <2>6. CASE Finish(c)
    <3>1. base[c] = <<>>
        BY <2>1, <2>6 DEF Finish, Eras
    <3>2. QED  BY <1>0, <2>6, <3>1 DEF Finish
  <2>7. CASE Read(c)
    <3>1. /\ pc' = pc /\ pc[c] = "investigate" /\ UNCHANGED <<host, base, cur>>
          /\ \E era \in {host[i] : i \in DOMAIN host} \cup {Main} :
                read' = [read EXCEPT ![c] = @ \cup {era}]
        BY <2>7 DEF Read
    <3>2. base[c] = <<>> /\ (\A i \in DOMAIN host : host[i] = cur[c]) /\ read[c] \subseteq {cur[c], Main}
        BY <2>1, <3>1 DEF Eras
    <3>3. QED  BY <1>0, <3>1, <3>2
  <2>8. CASE \/ ConfidenceGate(c) \/ FixAndDraft(c) \/ CreateRef(c) \/ CommitChanges(c)
             \/ CreatePull(c) \/ MockPull(c) \/ CaptureDraft(c) \/ Notify(c) \/ MarkHandled(c)
             \/ SaveAudit(c)
    <3>1. /\ pc[c] \notin {"idle", "base"} /\ base' = base
          /\ pc'[c] \notin {"idle", "base", "investigate"}
        BY <1>0, <2>8 DEF ConfidenceGate, FixAndDraft, CreateRef, CommitChanges, CreatePull, MockPull,
           Opened, CaptureDraft, Notify, MarkHandled, SaveAudit
    <3>2. QED  BY <2>1, <3>1 DEF Eras
  <2>9. ~Raise(c)
      BY DEF Raise
  <2>10. QED  BY <1>2, <2>4, <2>5, <2>6, <2>7, <2>8, <2>9 DEF Step
<1>3. CASE Clock \/ UNCHANGED vars
    BY <1>3 DEF Clock, vars, Eras
<1>4. ~Crash
    BY DEF Crash
<1>5. QED  BY <1>1, <1>2, <1>3, <1>4 DEF Next

\* Without exceptions and overlaps every agent reads at its own issue's commit or
\* on the main branch, for any number of patterns and calls one after the other
\* (run, _issue_era_host).
THEOREM ErasHold == Spec => []OwnEraUntilTrouble
<1>1. Eras => OwnEraUntilTrouble
    BY DEF Eras, OwnEraUntilTrouble
<1>2. QED
    BY <1>1, TypesInit, TypesStep, SerialInit, SerialStep, ErasInit, ErasStep, PTL DEF Spec
=============================================================================
