---------------------------- MODULE FixWaveProofs ----------------------------
(***************************************************************************)
(* The fix wave's safety properties, for every number of clusters,         *)
(* patterns, verifications and crashes, and whatever disks fail.           *)
(***************************************************************************)
EXTENDS FixWave, TLAPS

USE FixWaveAssumption DEF Clusters

(* Files that grow *)

\* What an append to the file of i with event e may leave
Grown(i, e) ==
    /\ file' \in [Clusters -> SUBSET Event] /\ torn' \in [Clusters -> BOOLEAN]
    /\ diskBad' \subseteq Clusters /\ diskBad \subseteq diskBad'
    /\ \A j \in Clusters : j # i => /\ file'[j] = file[j] /\ torn'[j] = torn[j]
                                    /\ j \in diskBad' => j \in diskBad
    /\ file[i] \subseteq file'[i] /\ file'[i] \subseteq file[i] \cup {e}
    /\ i \notin diskBad' /\ ~torn[i] => e \in file'[i] /\ ~torn'[i]

LEMMA AppendGrows ==
    ASSUME TypeOK, NEW i \in Clusters, NEW e \in Event, Appended(i, e) \/ AppendFails(i)
    PROVE  Grown(i, e)
<1>1. CASE Appended(i, e)
  <2>1. file' \in [Clusters -> SUBSET Event] /\ torn' \in [Clusters -> BOOLEAN]
    <3>1. (IF torn[i] THEN file[i] ELSE file[i] \cup {e}) \in SUBSET Event
        BY DEF TypeOK
    <3>2. QED  BY <1>1, <3>1 DEF TypeOK, Appended
  <2>2. QED  BY <1>1, <2>1 DEF TypeOK, Appended, Grown
<1>2. CASE AppendFails(i)
    BY <1>2 DEF TypeOK, AppendFails, Grown
<1>3. QED  BY <1>1, <1>2

\* What a file has, it keeps
LEMMA HasMore ==
    ASSUME NEW S, NEW T, S \subseteq T, NEW types, Has(S, types)
    PROVE  Has(T, types)
BY DEF Has

LEMMA UrlsMore ==
    ASSUME NEW S, NEW T, S \subseteq T
    PROVE  PrUrls(S) \subseteq PrUrls(T)
BY DEF PrUrls

\* An event adds the pull request it names, if it is of the two types that do
LEMMA UrlsOfOneMore ==
    ASSUME NEW S, NEW T, NEW e, T \subseteq S \cup {e}, NEW n \in PrUrls(T)
    PROVE  \/ n \in PrUrls(S)
           \/ n = e.n /\ n # 0 /\ e.type \in {"pr.opened", "audit.saved"}
BY DEF PrUrls

LEMMA EvIsEvent == ASSUME NEW t \in EventTypes PROVE Ev(t) \in Event /\ Ev(t).type = t
BY DEF Ev, Event
-----------------------------------------------------------------------------
(* What was reported stays true *)

\* Nothing about run i that an outcome has recorded changes
Kept(i) == /\ pulls'[i] = pulls[i] /\ file[i] \subseteq file'[i]
           /\ pc[i] = "none" => pc'[i] = "none"
           /\ pc'[i] = "none" => pc[i] = "none"

LEMMA HonestKept ==
    ASSUME NEW o \in Outcome, Honest(o), Kept(o.of), diskBad \subseteq diskBad'
    PROVE  Honest(o)'
<1>1. o.of \in Clusters
    BY DEF Outcome
<1>2. \A types : Has(file[o.of], types) => Has(file'[o.of], types)
    BY HasMore DEF Kept
<1>3. QED  BY <1>1, <1>2 DEF Honest, Kept

\* As long as the runs that have an outcome are kept, the summary stays honest
LEMMA SummaryKept ==
    ASSUME TypeOK, OutcomesInStep, SummaryHonest, UNCHANGED <<outcomes, posted>>,
           diskBad \subseteq diskBad',
           \A i \in Clusters : Kept(i) \/ (wave \in {"next", "join"} /\ i = at)
    PROVE  SummaryHonest'
<1>1. \A x \in Outcome : Honest(x) /\ Kept(x.of) => Honest(x)'
    BY HonestKept
<1>2. ASSUME NEW o \in DOMAIN outcomes PROVE Honest(outcomes[o])'
  <2>1. outcomes[o] \in Outcome /\ o \in 1..Len(outcomes)
      BY <1>2 DEF TypeOK
  <2>2. outcomes[o].of = o /\ o \in Clusters
      BY <2>1 DEF OutcomesInStep, Outcome
  <2>3. wave \in {"next", "join"} => o # at
      BY <2>1 DEF TypeOK, OutcomesInStep
  <2>4. Honest(outcomes[o]) /\ Kept(o)
      BY <1>2, <2>2, <2>3 DEF SummaryHonest
  <2>5. QED  BY <1>1, <2>1, <2>2, <2>4 DEF Honest
<1>3. ASSUME posted # <<>>, NEW i \in Clusters
      PROVE  posted[i].of = i /\ Honest(posted[i])'
  <2>1. posted[i].of = i /\ Honest(posted[i]) /\ wave = "done" /\ Len(posted) = NClusters
      BY <1>3 DEF SummaryHonest, OutcomesInStep
  <2>2. posted[i] \in Outcome
      BY <2>1 DEF TypeOK
  <2>3. Kept(i)
      BY <2>1
  <2>4. QED  BY <1>1, <2>1, <2>2, <2>3 DEF Honest
<1>4. QED  BY <1>2, <1>3 DEF SummaryHonest, Honest
\* Whatever is logged without the marker is a verification's
LEMMA LogStep ==
    ASSUME TypeOK, LogsMarked, NEW m \in BOOLEAN,
           NEW event \in {"run.failed", "run_failed", "wave_failed", "verify.failed"},
           ~m => event = "verify.failed", Log(event, m)
    PROVE  selflog' \subseteq Record /\ LogsMarked'
<1>1. selflog' = selflog \cup {[event |-> event, self_heal |-> m]}
    BY DEF Log
<1>2. [event |-> event, self_heal |-> m] \in Record
    BY DEF Record
<1>3. selflog \subseteq Record
    BY DEF TypeOK
<1>4. LogsMarked'
    BY <1>1 DEF LogsMarked
<1>5. QED  BY <1>1, <1>2, <1>3, <1>4
-----------------------------------------------------------------------------
(* The pipeline thread *)

\* Only the thread the wave waits for moves, and it leaves the wave alone
LEMMA ThreadFrame ==
    ASSUME IInv, NEW i \in Clusters, NEW label \in Pc \ {"none"}, pc[i] \in Live,
           pc' = [pc EXCEPT ![i] = label], UNCHANGED <<server, waveVars, verify, mining>>
    PROVE  /\ up /\ wave = "join" /\ i = at
           /\ pc' \in [Clusters -> Pc] /\ pc'[i] = label
           /\ \A j \in Clusters : j # i => pc'[j] = pc[j]
           /\ OutcomesInStep' /\ LiveIsJoined' /\ AheadNotBegun' /\ LoopGuard'
<1> USE DEF IInv, TypeOK, server, waveVars, mining
<1>1. up /\ wave = "join" /\ i = at
    BY DEF LiveIsJoined
<1>2. /\ pc' \in [Clusters -> Pc] /\ pc'[i] = label
      /\ \A j \in Clusters : j # i => pc'[j] = pc[j]
    OBVIOUS
<1>3. OutcomesInStep' /\ LoopGuard'
    BY DEF OutcomesInStep, LoopGuard
<1>4. LiveIsJoined'
    BY <1>1, <1>2 DEF LiveIsJoined
<1>5. AheadNotBegun'
    BY <1>1, <1>2 DEF AheadNotBegun
<1>6. QED  BY <1>1, <1>2, <1>3, <1>4, <1>5

\* A thread appends.  A file's first event has the marker, an exit comes after an
\* end or an error; the event names a pull request that is open, and after the
\* opening it is the one that names it.
LEMMA AppendStep ==
    ASSUME IInv, NEW i \in Clusters, NEW e \in Event, Grown(i, e),
           NEW to \in {"run", "open", "audit", "exit", "raised"},
           pc[i] \in Live, pc' = [pc EXCEPT ![i] = to], pat' = pat,
           UNCHANGED <<server, waveVars, pulls, verify, mining>>,
           selflog' \subseteq Record, LogsMarked',
           e.type # "interrupted",
           pc[i] \in {"boot", "raised", "exit"} => e.type \in SelfHeal,
           to \in {"run", "open", "audit"} => file'[i] # {},
           to \in {"open", "audit"} => pat[i] # 0,
           to = "exit" /\ i \notin diskBad' => e.type \in {"end", "error"},
           to = "raised" => i \in diskBad',
           e.type \in {"pr.opened", "audit.saved"} /\ e.n # 0 => e.n \in pulls[i],
           pc[i] = "opened" => e.type = "pr.opened" /\ e.n = pat[i]
    PROVE  IInv'
<1> USE DEF IInv
<1>1. /\ up /\ wave = "join" /\ i = at
      /\ pc' \in [Clusters -> Pc] /\ pc'[i] = to
      /\ \A j \in Clusters : j # i => pc'[j] = pc[j]
      /\ OutcomesInStep' /\ LiveIsJoined' /\ AheadNotBegun' /\ LoopGuard'
    BY ThreadFrame DEF Pc
<1>2. TypeOK'
    BY <1>1 DEF TypeOK, Grown, server, waveVars, verify, mining
<1>3. MarkedFirst'
  <2>1. ASSUME NEW j \in Clusters, j # i
        PROVE  /\ file'[j] = file[j] /\ torn'[j] = torn[j] /\ pc'[j] = pc[j]
               /\ j \in verifying' <=> j \in verifying
      BY <1>1, <2>1 DEF Grown, verify
  <2>2. file'[i] # {} => Has(file'[i], SelfHeal)
    <3>1. CASE file[i] = {}
      <4>1. e.type \in SelfHeal
          BY <3>1 DEF MarkedFirst, Live
      <4>2. QED  BY <3>1, <4>1 DEF Grown, Has
    <3>2. CASE file[i] # {}
        BY <3>2, HasMore DEF MarkedFirst, Grown
    <3>3. QED  BY <3>1, <3>2
  <2>3. i \in verifying' => file'[i] # {}
      BY DEF MarkedFirst, Grown, verify
  <2>4. QED  BY <1>1, <2>1, <2>2, <2>3 DEF MarkedFirst
<1>4. FileTells'
  <2>1. ASSUME NEW j \in Clusters
        PROVE  /\ PrUrls(file'[j]) \subseteq pulls'[j]
               /\ pc'[j] = "opened" => pat'[j] \in pulls'[j]
    <3>1. CASE j # i
        BY <1>1, <3>1 DEF Grown, FileTells
    <3>2. CASE j = i
        BY <1>1, <3>2, UrlsOfOneMore DEF Grown, FileTells
    <3>3. QED  BY <3>1, <3>2
  <2>2. ASSUME NEW j \in Clusters
        PROVE  ~Has(file'[j], {"interrupted"})
      BY <1>1 DEF Grown, FileTells, Has
  <2>3. ASSUME NEW j \in Clusters, j \notin diskBad'
        PROVE  /\ ~torn'[j]
               /\ \A n \in pulls'[j] : \/ n \in PrUrls(file'[j])
                                       \/ pc'[j] = "opened" /\ n = pat'[j]
               /\ pc'[j] \in {"exit", "gone"} => Has(file'[j], {"end", "error"})
    <3>1. CASE j # i
        BY <1>1, <2>3, <3>1 DEF Grown, FileTells
    <3>2. CASE j = i
      <4>1. i \notin diskBad /\ ~torn[i] /\ e \in file'[i] /\ ~torn'[i] /\ to # "raised"
          BY <1>1, <2>3, <3>2 DEF Grown, FileTells
      <4>2. PrUrls(file[i]) \subseteq PrUrls(file'[i])
          BY UrlsMore DEF Grown
      <4>3. \A n \in pulls[i] : n \in PrUrls(file[i]) \/ (pc[i] = "opened" /\ n = pat[i])
          BY <1>1, <4>1 DEF FileTells
      <4>4. pc[i] = "opened" /\ pat[i] \in pulls[i] => pat[i] \in PrUrls(file'[i])
        <5>1. pulls[i] \subseteq 1..MaxPatterns
            BY DEF TypeOK
        <5>2. e \in file'[i] /\ e.n # 0 /\ e.type = "pr.opened" => e.n \in PrUrls(file'[i])
            BY DEF PrUrls
        <5>3. QED  BY <4>1, <5>1, <5>2
      <4>5. to = "exit" => Has(file'[i], {"end", "error"})
        <5>1. to = "exit" => e \in file'[i] /\ e.type \in {"end", "error"}
            BY <2>3, <3>2, <4>1
        <5>2. QED  BY <5>1 DEF Has
      <4>6. QED  BY <1>1, <3>2, <4>1, <4>2, <4>3, <4>4, <4>5
    <3>3. QED  BY <3>1, <3>2
  <2>4. QED  BY <2>1, <2>2, <2>3 DEF FileTells
<1>5. SummaryHonest'
  <2>1. \A j \in Clusters : Kept(j) \/ (wave \in {"next", "join"} /\ j = at)
      BY <1>1 DEF Grown, Kept
  <2>2. QED  BY <2>1, SummaryKept DEF Grown, waveVars
<1>6. QED  BY <1>1, <1>2, <1>3, <1>4, <1>5

\* An event of the body: whether or not the append fails, a step as above
LEMMA EmitStep ==
    ASSUME IInv, NEW i \in Clusters, NEW e \in Event,
           NEW label \in {"run", "open", "audit", "exit"},
           pc[i] \in Live \ {"raised", "exit"}, Emit(i, e, label), pat' = pat,
           e.type # "interrupted",
           pc[i] = "boot" => e.type = "start",
           label = "exit" => e.type = "end",
           label \in {"open", "audit"} => pat[i] # 0,
           e.type \in {"pr.opened", "audit.saved"} /\ e.n # 0 => e.n \in pulls[i],
           pc[i] = "opened" => e.type = "pr.opened" /\ e.n = pat[i]
    PROVE  IInv'
<1>1. Grown(i, e)
    BY AppendGrows DEF Emit, IInv
<1>2. UNCHANGED <<server, waveVars, pulls, verify, mining, selflog>> /\ LogsMarked'
    BY DEF Emit, IInv, LogsMarked
<1>3. CASE Appended(i, e) /\ Goto(i, label)
  <2>1. file'[i] # {}
    <3>1. CASE pc[i] = "boot"
        BY <1>3, <3>1 DEF Appended, IInv, MarkedFirst, TypeOK
    <3>2. CASE pc[i] # "boot"
        BY <1>1, <3>2 DEF Grown, IInv, MarkedFirst, Live
    <3>3. QED  BY <3>1, <3>2
  <2>2. QED  BY <1>1, <1>2, <1>3, <2>1, AppendStep DEF Goto, IInv, TypeOK, SelfHeal
<1>4. CASE AppendFails(i) /\ Goto(i, "raised")
    BY <1>1, <1>2, <1>4, AppendStep DEF AppendFails, Goto, IInv, TypeOK, SelfHeal
<1>5. QED  BY <1>3, <1>4 DEF Emit

\* A step of the body that leaves the file alone.  It may open a pull request.
LEMMA MoveStep ==
    ASSUME IInv, NEW i \in Clusters, NEW to \in Live \cup {"gone"},
           pc[i] \in Live \ {"opened"}, pc' = [pc EXCEPT ![i] = to], to # "boot",
           UNCHANGED <<server, waveVars, files, verify, selflog, mining>>,
           pat' \in [Clusters -> 0..MaxPatterns],
           \A j \in Clusters : j # i => pat'[j] = pat[j] /\ pulls'[j] = pulls[j],
           pulls' \in [Clusters -> SUBSET (1..MaxPatterns)],
           pulls[i] \subseteq pulls'[i],
           \A n \in pulls'[i] \ pulls[i] : to = "opened" /\ n = pat'[i],
           to = "opened" => pat'[i] \in pulls'[i],
           to \in {"agent", "open", "opened", "audit"} => pat'[i] # 0,
           pc[i] = "boot" => to = "raised",
           pc[i] # "raised",
           to \in {"exit", "gone"} => pc[i] = "exit",
           pc[i] = "exit" => to = "gone"
    PROVE  IInv'
<1> USE DEF IInv
<1>1. /\ up /\ wave = "join" /\ i = at
      /\ pc' \in [Clusters -> Pc] /\ pc'[i] = to
      /\ \A j \in Clusters : j # i => pc'[j] = pc[j]
      /\ OutcomesInStep' /\ LiveIsJoined' /\ AheadNotBegun' /\ LoopGuard'
    BY ThreadFrame DEF Pc, Live
<1>2. TypeOK'
    BY <1>1 DEF TypeOK, server, waveVars, verify, mining, files
<1>3. MarkedFirst'
    BY <1>1 DEF MarkedFirst, files, verify, Live, Has, SelfHeal
<1>4. LogsMarked'
    BY DEF LogsMarked
<1>5. FileTells'
  <2>1. UNCHANGED <<wave, file, torn, diskBad>>
      BY DEF files, waveVars
  <2>2. ASSUME NEW j \in Clusters
        PROVE  /\ PrUrls(file'[j]) \subseteq pulls'[j]
               /\ pc'[j] = "opened" => pat'[j] \in pulls'[j]
      BY <1>1, <2>1 DEF FileTells
  <2>3. ASSUME NEW j \in Clusters
        PROVE  ~Has(file'[j], {"interrupted"})
      BY <1>1, <2>1 DEF FileTells
  <2>4. ASSUME NEW j \in Clusters, j \notin diskBad'
        PROVE  /\ ~torn'[j]
               /\ \A n \in pulls'[j] : \/ n \in PrUrls(file'[j])
                                       \/ pc'[j] = "opened" /\ n = pat'[j]
               /\ pc'[j] \in {"exit", "gone"} => Has(file'[j], {"end", "error"})
    <3>1. CASE j # i
        BY <1>1, <2>1, <2>4, <3>1 DEF FileTells
    <3>2. CASE j = i
        BY <1>1, <2>1, <2>4, <3>2 DEF FileTells
    <3>3. QED  BY <3>1, <3>2
  <2>5. QED  BY <2>2, <2>3, <2>4 DEF FileTells
<1>6. SummaryHonest'
  <2>1. \A j \in Clusters : Kept(j) \/ (wave \in {"next", "join"} /\ j = at)
      BY <1>1 DEF Kept, files
  <2>2. QED  BY <2>1, SummaryKept DEF files, waveVars
<1>7. QED  BY <1>1, <1>2, <1>3, <1>4, <1>5, <1>6

LEMMA ThreadStep == ASSUME IInv, NEW i \in Clusters, Thread(i) PROVE IInv'
<1> USE DEF IInv, Goto, Live
<1>1. CASE EmitStart(i)
    BY <1>1, EmitStep, EvIsEvent DEF EmitStart, EventTypes
<1>2. CASE StartPattern(i)
  <2>1. /\ pat' \in [Clusters -> 0..MaxPatterns] /\ pat'[i] # 0
        /\ \A j \in Clusters : j # i => pat'[j] = pat[j]
      BY <1>2 DEF StartPattern, TypeOK
  <2>2. pulls' = pulls /\ pulls \in [Clusters -> SUBSET (1..MaxPatterns)]
      BY <1>2 DEF StartPattern, TypeOK
  <2>3. QED  BY <1>2, <2>1, <2>2, MoveStep DEF StartPattern
<1>3. CASE Investigate(i)
  <2>1. CASE Emit(i, Ev("fix"), "open")
      BY <1>3, <2>1, EmitStep, EvIsEvent DEF Investigate, EventTypes, TypeOK
  <2>2. CASE Emit(i, Ev("zero"), "audit")
      BY <1>3, <2>2, EmitStep, EvIsEvent DEF Investigate, EventTypes, TypeOK
  <2>3. CASE Goto(i, "audit") /\ UNCHANGED <<server, waveVars, files, pulls, verify, selflog, mining>>
      BY <1>3, <2>3, MoveStep DEF Investigate, TypeOK
  <2>4. QED  BY <1>3, <2>1, <2>2, <2>3 DEF Investigate
<1>4. CASE OpenPull(i)
  <2>1. /\ pulls' = [pulls EXCEPT ![i] = @ \cup {pat[i]}] /\ pat' = pat /\ pc[i] = "open"
        /\ pat[i] \in 1..MaxPatterns
      BY <1>4 DEF OpenPull, TypeOK
  <2>2. /\ pulls' \in [Clusters -> SUBSET (1..MaxPatterns)]
        /\ pulls'[i] = pulls[i] \cup {pat[i]}
        /\ \A j \in Clusters : j # i => pulls'[j] = pulls[j]
    <3>1. pulls \in [Clusters -> SUBSET (1..MaxPatterns)]
        BY DEF TypeOK
    <3>2. pulls[i] \cup {pat[i]} \in SUBSET (1..MaxPatterns)
        BY <2>1, <3>1
    <3>3. QED  BY <2>1, <3>1, <3>2
  <2>3. pat' \in [Clusters -> 0..MaxPatterns]
      BY <2>1 DEF TypeOK
  <2>4. /\ pat'[i] \in pulls'[i] /\ pat'[i] # 0 /\ pulls[i] \subseteq pulls'[i]
        /\ \A n \in pulls'[i] \ pulls[i] : n = pat'[i]
      BY <2>1, <2>2
  <2>5. /\ pc' = [pc EXCEPT ![i] = "opened"]
        /\ UNCHANGED <<server, waveVars, files, verify, selflog, mining>>
      BY <1>4 DEF OpenPull
  <2>6. \A j \in Clusters : j # i => pat'[j] = pat[j] /\ pulls'[j] = pulls[j]
      BY <2>1, <2>2
  <2>7. QED  BY <2>1, <2>2, <2>3, <2>4, <2>5, <2>6, MoveStep
<1>5. CASE CaptureDraft(i)
    BY <1>5, MoveStep DEF CaptureDraft, TypeOK
<1>6. CASE EmitOpened(i)
  <2>1. [type |-> "pr.opened", n |-> pat[i]] \in Event /\ pat[i] \in pulls[i]
      BY <1>6 DEF EmitOpened, Event, EventTypes, TypeOK, FileTells
  <2>2. QED  BY <1>6, <2>1, EmitStep DEF EmitOpened, TypeOK
<1>7. CASE EmitAudit(i)
  <2> DEFINE n == IF pat[i] \in pulls[i] THEN pat[i] ELSE 0
  <2>1. [type |-> "audit.saved", n |-> n] \in Event
      BY DEF Event, EventTypes, TypeOK
  <2>2. n # 0 => n \in pulls[i]
      OBVIOUS
  <2>3. /\ Emit(i, [type |-> "audit.saved", n |-> n], "run") /\ pat' = pat /\ pc[i] = "audit"
        /\ pat[i] # 0
      BY <1>7 DEF EmitAudit, TypeOK
  <2> HIDE DEF n
  <2>4. QED  BY <2>1, <2>2, <2>3, EmitStep
<1>8. CASE EmitEnd(i)
    BY <1>8, EmitStep, EvIsEvent DEF EmitEnd, EventTypes
<1>9. CASE BodyRaises(i)
    BY <1>9, MoveStep DEF BodyRaises, TypeOK
<1>10. CASE EmitError(i)
  <2>1. Grown(i, Ev("error")) /\ Ev("error") \in Event /\ Ev("error").type = "error"
      BY <1>10, AppendGrows, EvIsEvent DEF EmitError, EventTypes
  <2>2. selflog' \subseteq Record /\ LogsMarked'
      BY <1>10, LogStep DEF EmitError
  <2>3. QED  BY <1>10, <2>1, <2>2, AppendStep DEF EmitError, SelfHeal
<1>11. CASE Exit(i)
    BY <1>11, MoveStep DEF Exit, TypeOK
<1>12. QED  BY <1>1, <1>2, <1>3, <1>4, <1>5, <1>6, <1>7, <1>8, <1>9, <1>10, <1>11 DEF Thread
-----------------------------------------------------------------------------
(* The wave *)

\* Nothing but the wave and the server's flags moves: the files go on telling
LEMMA FilesFrame ==
    ASSUME IInv, UNCHANGED <<file, torn, threads, verify>>, diskBad \subseteq diskBad',
           wave' \in {"waiting", "next", "join", "read"} =>
              wave \in {"waiting", "next", "join", "read"}
    PROVE  MarkedFirst' /\ FileTells' /\ \A i \in Clusters : Kept(i)
<1>1. MarkedFirst' /\ \A i \in Clusters : Kept(i)
    BY DEF IInv, MarkedFirst, Kept, threads, verify
<1>2. FileTells'
    BY DEF IInv, FileTells, threads
<1>3. QED  BY <1>1, <1>2

\* One more outcome, and on to the next cluster
LEMMA RecordStep ==
    ASSUME IInv, wave \in {"next", "read"}, at \in Clusters,
           NEW o \in Outcome, o.of = at, Honest(o)',
           outcomes' = Append(outcomes, o), wave' = "next", at' = at + 1, posted' = posted,
           UNCHANGED <<server, file, torn, threads, verify, mining>>,
           diskBad \subseteq diskBad', diskBad' \subseteq Clusters,
           selflog' \subseteq Record, LogsMarked'
    PROVE  IInv'
<1> USE DEF IInv
<1>1. Len(outcomes) = at - 1 /\ posted = <<>>
    BY DEF OutcomesInStep
<1>2. /\ DOMAIN outcomes = 1..(at - 1) /\ DOMAIN outcomes' = 1..at
      /\ \A k \in 1..(at - 1) : outcomes'[k] = outcomes[k]
      /\ outcomes'[at] = o /\ Len(outcomes') = at /\ outcomes' \in Seq(Outcome)
    BY <1>1 DEF TypeOK
<1>3. TypeOK'
  <2>1. UNCHANGED <<up, crashes, openPrs, posted, file, torn, pc, pat, pulls, verifying,
                    verifies, mined, minedLogs>>
      BY DEF server, threads, verify, mining
  <2>2. /\ wave' = "next" /\ at' \in 1..(NClusters + 1) /\ outcomes' \in Seq(Outcome)
        /\ selflog' \subseteq Record /\ diskBad' \subseteq Clusters
      BY <1>2
  <2>3. QED  BY <2>1, <2>2, Zenon DEF TypeOK
<1>4. OutcomesInStep'
    BY <1>1, <1>2 DEF OutcomesInStep, TypeOK
<1>5. LiveIsJoined' /\ AheadNotBegun' /\ LoopGuard'
    BY DEF LiveIsJoined, AheadNotBegun, LoopGuard, server, threads, mining, Live, TypeOK
<1>6. MarkedFirst' /\ FileTells' /\ \A i \in Clusters : Kept(i)
    BY FilesFrame
<1>7. SummaryHonest'
  <2>1. \A x \in Outcome : Honest(x) /\ Kept(x.of) => Honest(x)'
      BY HonestKept
  <2>2. ASSUME NEW k \in 1..(at - 1) PROVE Honest(outcomes[k])'
    <3>1. outcomes[k] \in Outcome /\ outcomes[k].of \in Clusters
      <4>1. outcomes \in Seq(Outcome) /\ k \in 1..Len(outcomes)
          BY <1>1 DEF TypeOK
      <4>2. outcomes[k] \in Outcome
          BY <4>1
      <4>3. \A x \in Outcome : x.of \in Clusters
          BY DEF Outcome
      <4>4. QED  BY <4>2, <4>3
    <3>2. Honest(outcomes[k])
        BY <1>2 DEF SummaryHonest
    <3>3. PICK x \in Outcome : x = outcomes[k]
        BY <3>1
    <3>4. Honest(x)
        BY <3>2, <3>3 DEF Honest
    <3>5. Honest(x)'
        BY <1>6, <2>1, <3>1, <3>3, <3>4
    <3>6. QED  BY <1>2, <3>3, <3>5 DEF Honest
  <2>3. QED  BY <1>1, <1>2, <2>2 DEF SummaryHonest, Honest
<1>8. QED  BY <1>3, <1>4, <1>5, <1>6, <1>7

LEMMA StartFailsStep == ASSUME IInv, StartRunFails PROVE IInv'
<1> USE DEF IInv
<1>1. wave = "next" /\ at \in Clusters /\ pc[at] = "none"
    BY DEF StartRunFails, AheadNotBegun, TypeOK
<1>2. at \notin diskBad => pulls[at] = {}
    BY <1>1 DEF MarkedFirst, FileTells, PrUrls
<1>3. PICK o \in Outcome : o = [of |-> at, status |-> "failed", urls |-> {}]
    BY <1>1 DEF Outcome, Statuses
<1>4. Honest(o)'
    BY <1>1, <1>2, <1>3 DEF StartRunFails, Honest, files, threads, TypeOK
<1>5. selflog' \subseteq Record /\ LogsMarked'
    BY LogStep DEF StartRunFails, ClusterFails
<1>6. QED  BY <1>1, <1>3, <1>4, <1>5, RecordStep DEF StartRunFails, ClusterFails, files, TypeOK

LEMMA ReadFailsStep == ASSUME IInv, ReadOutcomeFails PROVE IInv'
<1> USE DEF IInv
<1>1. wave = "read" /\ at \in Clusters
    BY DEF ReadOutcomeFails, OutcomesInStep
<1>2. PICK o \in Outcome : o = [of |-> at, status |-> "failed", urls |-> {}]
    BY <1>1 DEF Outcome, Statuses
<1>3. Honest(o)'
    BY <1>1, <1>2 DEF ReadOutcomeFails, Honest
<1>4. selflog' \subseteq Record /\ LogsMarked'
    BY LogStep DEF ReadOutcomeFails, ClusterFails
<1>5. diskBad \subseteq diskBad' /\ diskBad' \subseteq Clusters
    BY <1>1 DEF ReadOutcomeFails, TypeOK
<1>6. QED  BY <1>1, <1>2, <1>3, <1>4, <1>5, RecordStep DEF ReadOutcomeFails, ClusterFails

\* The thread is gone, so what its file tells is all there will be
LEMMA ReadStep == ASSUME IInv, ReadOutcome PROVE IInv'
<1> USE DEF IInv
<1>1. wave = "read" /\ at \in Clusters /\ pc[at] = "gone"
    BY DEF ReadOutcome, OutcomesInStep, LiveIsJoined
<1>2. /\ PrUrls(file[at]) \subseteq pulls[at] /\ ~Has(file[at], {"interrupted"})
      /\ at \notin diskBad => /\ pulls[at] \subseteq PrUrls(file[at])
                              /\ Has(file[at], {"end", "error"})
    BY <1>1 DEF FileTells
<1>3. Status(file[at]) \in Statuses /\ PrUrls(file[at]) \subseteq 1..MaxPatterns
    BY <1>1, <1>2 DEF Status, Statuses, TypeOK
<1>4. PICK o \in Outcome :
         o = [of |-> at, status |-> Status(file[at]), urls |-> PrUrls(file[at])]
    BY <1>1, <1>3 DEF Outcome
<1>5. /\ o.status = "pr_created" <=> PrUrls(file[at]) # {}
      /\ o.status # "skipped"
    BY <1>4 DEF Status
<1>6. o.status = "unverified" => Has(file[at], {"end"})
    BY <1>2, <1>4 DEF Status, Has, Terminal
<1>7. o.status = "failed" => at \in diskBad \/ Has(file[at], {"error", "verify_error"})
    BY <1>2, <1>4 DEF Status, Has, Terminal
<1>8. UNCHANGED <<file, torn, diskBad, pc, pat, pulls>>
    BY DEF ReadOutcome, files, threads
<1>9. Honest(o)'
    BY <1>2, <1>4, <1>5, <1>6, <1>7, <1>8 DEF Honest
<1>10. LogsMarked' /\ selflog' \subseteq Record /\ diskBad' \subseteq Clusters
    BY <1>8 DEF ReadOutcome, LogsMarked, TypeOK
<1>11. QED  BY <1>1, <1>4, <1>8, <1>9, <1>10, RecordStep DEF ReadOutcome, files

\* No run has begun when the prologue fails
LEMMA PrologueStep == ASSUME IInv, PrologueFails PROVE IInv'
<1> USE DEF IInv
<1>1. wave = "waiting" /\ wave' = "post" /\ at = 1 /\ posted = <<>>
    BY DEF PrologueFails, OutcomesInStep
<1>2. \A i \in Clusters : pc[i] = "none" /\ (i \notin diskBad => pulls[i] = {})
    BY <1>1 DEF AheadNotBegun, MarkedFirst, FileTells, PrUrls
<1>3. /\ outcomes' = [i \in 1..NClusters |-> [of |-> i, status |-> "skipped", urls |-> {}]]
      /\ UNCHANGED <<server, at, posted, files, threads, verify, mining>>
    BY DEF PrologueFails, Skipped
<1>4. outcomes' \in Seq(Outcome) /\ Len(outcomes') = NClusters
  <2>1. \A i \in 1..NClusters : [of |-> i, status |-> "skipped", urls |-> {}] \in Outcome
      BY DEF Outcome, Statuses
  <2>2. QED  BY <1>3, <2>1
<1>5. selflog' \subseteq Record /\ LogsMarked'
    BY LogStep DEF PrologueFails
<1>6. TypeOK'
    BY <1>1, <1>3, <1>4, <1>5 DEF TypeOK, server, files, threads, verify, mining
<1>7. OutcomesInStep'
    BY <1>1, <1>3, <1>4 DEF OutcomesInStep
<1>8. LiveIsJoined' /\ AheadNotBegun' /\ LoopGuard'
    BY <1>1, <1>2, <1>3 DEF LiveIsJoined, AheadNotBegun, LoopGuard, server, threads, mining, Live
<1>9. MarkedFirst' /\ FileTells'
    BY <1>1, <1>3, FilesFrame DEF files
<1>10. SummaryHonest'
  <2>1. UNCHANGED <<pc, pulls, file, diskBad, posted>>
      BY <1>3 DEF files, threads
  <2>2. ASSUME NEW i \in 1..NClusters PROVE Honest(outcomes[i])'
    <3>1. outcomes'[i].of = i /\ outcomes'[i].status = "skipped" /\ outcomes'[i].urls = {}
        BY <1>3
    <3>2. QED  BY <1>2, <2>1, <3>1 DEF Honest
  <2>3. QED  BY <1>1, <1>3, <2>1, <2>2 DEF SummaryHonest
<1>11. QED  BY <1>5, <1>6, <1>7, <1>8, <1>9, <1>10

\* Every cluster has its outcome, at its own place
LEMMA PostStep == ASSUME IInv, Post PROVE IInv'
<1> USE DEF IInv
<1>1. /\ wave = "post" /\ wave' = "done" /\ Len(outcomes) = NClusters
      /\ \A o \in 1..NClusters : outcomes[o].of = o
      /\ outcomes \in Seq(Outcome)
  <2>1. wave = "post" /\ wave' = "done"
      BY Zenon DEF Post
  <2>2. outcomes \in Seq(Outcome)
      BY Zenon DEF TypeOK
  <2>3. Len(outcomes) = NClusters /\ \A o \in DOMAIN outcomes : outcomes[o].of = o
      BY <2>1, Zenon DEF OutcomesInStep
  <2>4. DOMAIN outcomes = 1..NClusters
      BY <2>2, <2>3
  <2>5. QED  BY <2>1, <2>2, <2>3, <2>4, Zenon
<1>2. UNCHANGED <<server, at, outcomes, files, threads, verify, selflog, mining>>
    BY DEF Post
<1>3. ASSUME NEW i \in Clusters PROVE Escalation[i] = outcomes[i]
  <2>1. DOMAIN outcomes = 1..NClusters
      BY <1>1
  <2>2. (CHOOSE o \in DOMAIN outcomes : outcomes[o].of = i) = i
      BY <1>1, <2>1
  <2>3. QED  BY <1>1, <2>1, <2>2 DEF Escalation
<1>4. posted' = posted \/ posted' = outcomes
  <2>1. Escalation = outcomes
    <3>1. Escalation = [i \in 1..NClusters |-> Escalation[i]]
        BY DEF Escalation
    <3>2. outcomes = [i \in 1..NClusters |-> outcomes[i]]
        BY <1>1
    <3>3. [i \in 1..NClusters |-> Escalation[i]] = [i \in 1..NClusters |-> outcomes[i]]
        BY <1>3, Zenon
    <3>4. QED  BY <3>1, <3>2, <3>3, Zenon
  <2>2. QED  BY <2>1 DEF Post
<1>5. TypeOK'
    BY <1>1, <1>2, <1>4 DEF TypeOK, server, files, threads, verify, mining
<1>6. OutcomesInStep' /\ LiveIsJoined' /\ AheadNotBegun' /\ LogsMarked' /\ LoopGuard'
    BY <1>1, <1>2 DEF OutcomesInStep, LiveIsJoined, AheadNotBegun, LogsMarked, LoopGuard,
                      server, threads, mining, Live
<1>7. MarkedFirst' /\ FileTells' /\ \A i \in Clusters : Kept(i)
    BY <1>1, <1>2, FilesFrame DEF files
<1>8. SummaryHonest'
  <2>1. CASE posted' = posted
      BY <1>2, <1>7, <2>1, SummaryKept DEF files
  <2>2. CASE posted' = outcomes
      BY <1>1, <1>2, <2>2 DEF SummaryHonest, Honest, files, threads
  <2>3. QED  BY <1>4, <2>1, <2>2
<1>9. QED  BY <1>5, <1>6, <1>7, <1>8

\* The steps of the wave between outcomes
LEMMA WaveMoves == ASSUME IInv, StartWave \/ StartRun \/ Join \/ EndWave PROVE IInv'
<1> USE DEF IInv
<1>1. /\ UNCHANGED <<server, at, outcomes, posted, files, pat, pulls, verify, selflog, mining>>
      /\ wave \in {"waiting", "next", "join"}
    BY DEF StartWave, StartRun, Join, EndWave, threads
<1>2. CASE (StartWave \/ Join \/ EndWave) /\ pc' = pc
  <2>1. TypeOK' /\ LogsMarked' /\ LoopGuard'
      BY <1>1, <1>2 DEF StartWave, Join, EndWave, TypeOK, LogsMarked, LoopGuard,
                        server, files, verify, mining
  <2>2. OutcomesInStep' /\ LiveIsJoined' /\ AheadNotBegun'
    <3>1. CASE StartWave
        BY <1>1, <1>2, <3>1 DEF StartWave, OutcomesInStep, LiveIsJoined, AheadNotBegun, server
    <3>2. CASE Join
        BY <1>1, <1>2, <3>2 DEF Join, OutcomesInStep, LiveIsJoined, AheadNotBegun, server, Live
    <3>3. CASE EndWave
      <4>1. OutcomesInStep'
          BY <1>1, <3>3 DEF EndWave, OutcomesInStep, TypeOK
      <4>2. QED  BY <1>1, <1>2, <3>3, <4>1 DEF EndWave, LiveIsJoined, AheadNotBegun, server
    <3>4. QED  BY <1>2, <3>1, <3>2, <3>3
  <2>3. MarkedFirst' /\ FileTells' /\ \A i \in Clusters : Kept(i)
      BY <1>1, <1>2, FilesFrame DEF files, threads
  <2>4. SummaryHonest'
      BY <1>1, <2>3, SummaryKept DEF files
  <2>5. QED  BY <2>1, <2>2, <2>3, <2>4
<1>3. CASE StartRun
  <2>1. /\ wave = "next" /\ wave' = "join" /\ at \in Clusters /\ pc' = [pc EXCEPT ![at] = "boot"]
        /\ pc[at] = "none"
      BY <1>3 DEF StartRun, Goto, AheadNotBegun, TypeOK
  <2>2. /\ pc' \in [Clusters -> Pc] /\ pc'[at] = "boot"
        /\ \A j \in Clusters : j # at => pc'[j] = pc[j]
      BY <2>1 DEF TypeOK, Pc
  <2>3. TypeOK' /\ LogsMarked' /\ LoopGuard'
      BY <1>1, <2>1, <2>2 DEF TypeOK, LogsMarked, LoopGuard, server, files, verify, mining
  <2>4. OutcomesInStep' /\ LiveIsJoined' /\ AheadNotBegun'
    <3>1. OutcomesInStep'
        BY <1>1, <2>1 DEF OutcomesInStep
    <3>2. LiveIsJoined'
        BY <1>1, <2>1, <2>2 DEF LiveIsJoined, StartRun, server
    <3>3. AheadNotBegun'
        BY <1>1, <2>1, <2>2 DEF AheadNotBegun, TypeOK
    <3>4. QED  BY <3>1, <3>2, <3>3
  <2>5. MarkedFirst'
      BY <1>1, <2>1, <2>2 DEF MarkedFirst, files, verify
  <2>6. FileTells'
      BY <1>1, <2>1, <2>2 DEF FileTells, files
  <2>7. SummaryHonest'
    <3>1. \A j \in Clusters : Kept(j) \/ (wave \in {"next", "join"} /\ j = at)
        BY <1>1, <2>1, <2>2 DEF Kept, files
    <3>2. QED  BY <1>1, <3>1, SummaryKept DEF files
  <2>8. QED  BY <2>3, <2>4, <2>5, <2>6, <2>7
<1>4. QED  BY <1>2, <1>3 DEF StartWave, Join, EndWave, threads
-----------------------------------------------------------------------------
(* Verifications, scans, death and restart *)

LEMMA VerifyStartStep == ASSUME IInv, NEW i \in Clusters, VerifyStart(i) PROVE IInv'
<1> USE DEF IInv
<1>1. UNCHANGED <<server, waveVars, files, threads, selflog, mining>>
    BY DEF VerifyStart
<1>2. TypeOK' /\ OutcomesInStep' /\ LiveIsJoined' /\ AheadNotBegun' /\ LogsMarked' /\ LoopGuard'
    BY <1>1 DEF VerifyStart, TypeOK, OutcomesInStep, LiveIsJoined, AheadNotBegun, LogsMarked,
                LoopGuard, server, waveVars, files, threads, mining, Live
<1>3. MarkedFirst'
    BY <1>1 DEF VerifyStart, MarkedFirst, Has, SelfHeal, files, threads
<1>4. FileTells' /\ \A j \in Clusters : Kept(j)
    BY <1>1 DEF FileTells, Kept, PrUrls, Has, files, threads, waveVars
<1>5. SummaryHonest'
    BY <1>1, <1>4, SummaryKept DEF files, waveVars
<1>6. QED  BY <1>2, <1>3, <1>4, <1>5

\* A verification writes behind the marker of its run
LEMMA VerifyEndStep == ASSUME IInv, NEW i \in Clusters, VerifyEnd(i) PROVE IInv'
<1> USE DEF IInv
<1>1. PICK type \in {"result", "broken", "verify_error"} :
         /\ Appended(i, Ev(type)) \/ AppendFails(i)
         /\ IF type = "verify_error" THEN Log("verify.failed", FALSE) ELSE UNCHANGED selflog
    BY DEF VerifyEnd
<1>2. Grown(i, Ev(type)) /\ Ev(type).type = type
    BY <1>1, AppendGrows, EvIsEvent DEF EventTypes
<1>3. /\ UNCHANGED <<server, waveVars, threads, verifies, mining>>
      /\ i \in verifying /\ verifying' = verifying \ {i}
    BY DEF VerifyEnd
<1>4. selflog' \subseteq Record /\ LogsMarked'
    BY <1>1, LogStep DEF TypeOK, LogsMarked
<1>5. TypeOK'
    BY <1>2, <1>3, <1>4 DEF TypeOK, Grown, server, waveVars, threads, mining
<1>6. OutcomesInStep' /\ LiveIsJoined' /\ AheadNotBegun' /\ LoopGuard'
    BY <1>3 DEF OutcomesInStep, LiveIsJoined, AheadNotBegun, LoopGuard, server, waveVars, threads,
                mining, Live
<1>7. MarkedFirst'
  <2>1. file[i] # {} /\ Has(file[i], SelfHeal) /\ pc[i] \notin {"none", "boot"}
      BY <1>3 DEF MarkedFirst
  <2>2. file'[i] # {} /\ Has(file'[i], SelfHeal)
      BY <1>2, <2>1, HasMore DEF Grown
  <2>3. QED  BY <1>2, <1>3, <2>1, <2>2 DEF MarkedFirst, Grown, threads
<1>8. FileTells'
  <2>1. ASSUME NEW j \in Clusters
        PROVE  /\ PrUrls(file'[j]) \subseteq pulls'[j]
               /\ pc'[j] = "opened" => pat'[j] \in pulls'[j]
    <3>1. CASE j # i
        BY <1>2, <1>3, <3>1 DEF FileTells, Grown, threads
    <3>2. CASE j = i
      <4>1. PrUrls(file'[i]) \subseteq PrUrls(file[i])
          BY <1>2, UrlsOfOneMore DEF Grown
      <4>2. QED  BY <1>3, <3>2, <4>1 DEF FileTells, threads
    <3>3. QED  BY <3>1, <3>2
  <2>2. ASSUME NEW j \in Clusters, wave \in {"waiting", "next", "join", "read"}
        PROVE  ~Has(file'[j], {"interrupted"})
      BY <1>2, <2>2 DEF FileTells, Grown, Has
  <2>3. ASSUME NEW j \in Clusters, j \notin diskBad', wave \in {"waiting", "next", "join", "read"}
        PROVE  /\ ~torn'[j]
               /\ \A n \in pulls'[j] : \/ n \in PrUrls(file'[j])
                                       \/ pc'[j] = "opened" /\ n = pat'[j]
               /\ pc'[j] \in {"exit", "gone"} => Has(file'[j], {"end", "error"})
    <3>1. /\ ~torn[j] /\ j \notin diskBad /\ file[j] \subseteq file'[j]
          /\ pc' = pc /\ pat' = pat /\ pulls' = pulls
        BY <1>2, <1>3, <2>3 DEF FileTells, Grown, threads
    <3>2. PrUrls(file[j]) \subseteq PrUrls(file'[j])
        BY <3>1, UrlsMore
    <3>3. Has(file[j], {"end", "error"}) => Has(file'[j], {"end", "error"})
        BY <3>1, HasMore
    <3>4. ~torn'[j]
        BY <1>2, <2>3, <3>1 DEF Grown
    <3>5. QED  BY <2>3, <3>1, <3>2, <3>3, <3>4 DEF FileTells
  <2>4. QED  BY <1>3, <2>1, <2>2, <2>3 DEF FileTells, waveVars
<1>9. SummaryHonest'
  <2>1. \A j \in Clusters : Kept(j)
      BY <1>2, <1>3 DEF Kept, Grown, threads
  <2>2. QED  BY <1>2, <1>3, <2>1, SummaryKept DEF Grown, waveVars
<1>10. QED  BY <1>4, <1>5, <1>6, <1>7, <1>8, <1>9

\* The marker keeps a scan from every file that has an end
LEMMA ScanStep == ASSUME IInv, Scan PROVE IInv'
<1> USE DEF IInv
<1>1. UNCHANGED <<server, waveVars, files, threads, verify, selflog>>
    BY DEF Scan
<1>2. \A i \in Clusters : ~Mined(file[i])
    BY DEF MarkedFirst, Mined, Mineable, Has
<1>3. mined' = {} /\ minedLogs' = minedLogs \cup {r \in selflog : ~r.self_heal}
    BY <1>2 DEF Scan, LoopGuard
<1>4. LoopGuard'
    BY <1>3 DEF LoopGuard, LogsMarked
<1>5. TypeOK'
    BY <1>1, <1>3 DEF TypeOK, server, waveVars, files, threads, verify
<1>6. OutcomesInStep' /\ LiveIsJoined' /\ AheadNotBegun' /\ LogsMarked'
    BY <1>1 DEF OutcomesInStep, LiveIsJoined, AheadNotBegun, LogsMarked, server, waveVars, threads,
                Live
<1>7. MarkedFirst' /\ FileTells' /\ \A i \in Clusters : Kept(i)
    BY <1>1, FilesFrame DEF files, waveVars
<1>8. SummaryHonest'
    BY <1>1, <1>7, SummaryKept DEF files, waveVars
<1>9. QED  BY <1>4, <1>5, <1>6, <1>7, <1>8

LEMMA CrashStep == ASSUME IInv, Crash PROVE IInv'
<1> USE DEF IInv
<1>1. /\ up' = FALSE /\ wave' \in {"done", "dead"} /\ (wave = "done" <=> wave' = "done")
      /\ pc' = [i \in Clusters |-> IF pc[i] \in Live THEN "lost" ELSE pc[i]]
      /\ verifying' = {} /\ crashes' \in 0..MaxCrashes
      /\ UNCHANGED <<openPrs, at, outcomes, posted, file, diskBad, pat, pulls, verifies,
                     selflog, mining>>
    BY DEF Crash, TypeOK
<1>2. /\ torn' \in [Clusters -> BOOLEAN]
      /\ \A i \in Clusters : pc[i] = "none" => (torn'[i] => torn[i] \/ i \in verifying)
    BY DEF Crash, TypeOK, Live
<1>3. TypeOK'
    BY <1>1, <1>2 DEF TypeOK, Pc, mining
<1>4. OutcomesInStep' /\ LiveIsJoined' /\ AheadNotBegun' /\ LogsMarked' /\ LoopGuard'
    BY <1>1 DEF OutcomesInStep, LiveIsJoined, AheadNotBegun, LogsMarked, LoopGuard, mining, Live
<1>5. MarkedFirst'
    BY <1>1, <1>2 DEF MarkedFirst, Live, Has, SelfHeal
<1>6. FileTells'
    BY <1>1 DEF FileTells
<1>7. SummaryHonest'
  <2>1. \A i \in Clusters : Kept(i)
      BY <1>1 DEF Kept, Live
  <2>2. QED  BY <1>1, <2>1, SummaryKept
<1>8. QED  BY <1>3, <1>4, <1>5, <1>6, <1>7

\* The sweep marks files that have begun, when the wave is over
LEMMA RestartStep == ASSUME IInv, Restart PROVE IInv'
<1> USE DEF IInv
<1>1. /\ ~up /\ up' = TRUE /\ wave \in {"dead", "done"}
      /\ UNCHANGED <<crashes, openPrs, waveVars, diskBad, threads, verify, selflog, mining>>
    BY DEF Restart, LiveIsJoined
<1>2. ASSUME NEW i \in Clusters
      PROVE  /\ file'[i] = file[i] \/ (file[i] # {} /\ file'[i] = file[i] \cup {Ev("interrupted")})
             /\ torn'[i] \in BOOLEAN /\ (torn'[i] => torn[i])
    BY DEF Restart, Marked, TypeOK
<1>3. Ev("interrupted") \in Event /\ Ev("interrupted").type = "interrupted"
    BY EvIsEvent DEF EventTypes
<1>4. TypeOK'
  <2>1. \A i \in Clusters : file'[i] \in SUBSET Event
    <3>1. \A i \in Clusters : file[i] \subseteq Event
        BY DEF TypeOK
    <3>2. QED  BY <1>2, <1>3, <3>1
  <2>2. file' \in [Clusters -> SUBSET Event] /\ torn' \in [Clusters -> BOOLEAN]
      BY <1>2, <2>1 DEF Restart
  <2>3. QED  BY <1>1, <2>2 DEF TypeOK, waveVars, threads, verify, mining
<1>5. OutcomesInStep' /\ LiveIsJoined' /\ AheadNotBegun' /\ LogsMarked' /\ LoopGuard'
    BY <1>1 DEF OutcomesInStep, LiveIsJoined, AheadNotBegun, LogsMarked, LoopGuard, waveVars,
                threads, mining, Live
<1>6. MarkedFirst'
  <2>1. ASSUME NEW i \in Clusters PROVE file'[i] # {} => Has(file'[i], SelfHeal)
    <3>1. file'[i] # {} => Has(file[i], SelfHeal)
        BY <1>2 DEF MarkedFirst
    <3>2. QED  BY <1>2, <3>1, HasMore
  <2>2. QED  BY <1>1, <1>2, <2>1 DEF MarkedFirst, threads, verify
<1>7. FileTells'
  <2>1. ASSUME NEW i \in Clusters PROVE PrUrls(file'[i]) \subseteq pulls'[i]
      BY <1>1, <1>2, <1>3, UrlsOfOneMore DEF FileTells, threads
  <2>2. QED  BY <1>1, <2>1 DEF FileTells, waveVars, threads
<1>8. SummaryHonest'
  <2>1. \A i \in Clusters : Kept(i)
      BY <1>1, <1>2 DEF Kept, threads
  <2>2. QED  BY <1>1, <2>1, SummaryKept DEF waveVars
<1>9. QED  BY <1>4, <1>5, <1>6, <1>7, <1>8

LEMMA StutterStep == ASSUME IInv, UNCHANGED vars PROVE IInv'
<1> USE DEF IInv, vars
<1>1. TypeOK' /\ OutcomesInStep' /\ LiveIsJoined' /\ AheadNotBegun' /\ LogsMarked' /\ LoopGuard'
    BY DEF TypeOK, OutcomesInStep, LiveIsJoined, AheadNotBegun, LogsMarked, LoopGuard, server,
           waveVars, files, threads, verify, mining, Live
<1>2. MarkedFirst' /\ FileTells' /\ \A i \in Clusters : Kept(i)
    BY FilesFrame DEF files, waveVars
<1>3. SummaryHonest'
    BY <1>2, SummaryKept DEF files, waveVars
<1>4. QED  BY <1>1, <1>2, <1>3
-----------------------------------------------------------------------------
LEMMA InitInv == Init => IInv
<1> SUFFICES ASSUME Init PROVE IInv
    OBVIOUS
<1>1. TypeOK
    BY DEF Init, TypeOK, Pc
<1>2. OutcomesInStep /\ LiveIsJoined /\ AheadNotBegun /\ LogsMarked /\ LoopGuard
    BY DEF Init, OutcomesInStep, LiveIsJoined, AheadNotBegun, LogsMarked, LoopGuard, Live
<1>3. MarkedFirst /\ FileTells /\ SummaryHonest
    BY DEF Init, MarkedFirst, FileTells, SummaryHonest, PrUrls, Has
<1>4. QED  BY <1>1, <1>2, <1>3 DEF IInv

\* The inductive invariant of a fix wave.
THEOREM WaveInvariantHolds == Spec => []IInv
<1>1. IInv /\ [Next]_vars => IInv'
  <2> SUFFICES ASSUME IInv, [Next]_vars PROVE IInv'
      OBVIOUS
  <2>1. CASE StartWave
      BY <2>1, WaveMoves
  <2>2. CASE WaveStep
      BY <2>2, WaveMoves, PrologueStep, StartFailsStep, ReadStep, ReadFailsStep, PostStep
         DEF WaveStep
  <2>3. CASE \E i \in Clusters : Thread(i) \/ VerifyStart(i) \/ VerifyEnd(i)
      BY <2>3, ThreadStep, VerifyStartStep, VerifyEndStep
  <2>4. CASE Scan \/ Crash \/ Restart
      BY <2>4, ScanStep, CrashStep, RestartStep
  <2>5. CASE UNCHANGED vars
      BY <2>5, StutterStep
  <2>6. QED  BY <2>1, <2>2, <2>3, <2>4, <2>5 DEF Next
<1>2. QED  BY InitInv, <1>1, PTL DEF Spec

\* No scan ever feeds on a wave run's file (_run_candidates, start_pipeline_thread).
THEOREM LoopGuardHolds == Spec => []LoopGuard
<1>1. IInv => LoopGuard
    BY DEF IInv
<1>2. QED  BY WaveInvariantHolds, <1>1, PTL

\* What the wave reports and posts agrees with its runs (_read_outcome,
\* build_escalation).
THEOREM SummariesAreHonest == Spec => []SummaryHonest
<1>1. IInv => SummaryHonest
    BY DEF IInv
<1>2. QED  BY WaveInvariantHolds, <1>1, PTL

\* One outcome per cluster, in report order (run_fix_wave).
THEOREM OutcomesAreComplete == Spec => []OneOutcomeEach
<1>1. IInv => OneOutcomeEach
    BY DEF IInv, OutcomesInStep, OneOutcomeEach
<1>2. QED  BY WaveInvariantHolds, <1>1, PTL

\* At most one wave run works at a time (_default_start_run).
THEOREM RunsAreSequential == Spec => []OneRunAtATime
<1>1. IInv => OneRunAtATime
    BY DEF IInv, LiveIsJoined, OneRunAtATime
<1>2. QED  BY WaveInvariantHolds, <1>1, PTL
-----------------------------------------------------------------------------
(* What the wave waits for, and that neither it nor a run can go on for    *)
(* ever: what WavePosts adds is that the threads go on.                    *)

JoinsItsRun == wave = "join" => pc[at] \in Live \cup {"gone"}

LEMMA JoinsStep ==
    ASSUME IInv, JoinsItsRun, [Next]_vars
    PROVE  JoinsItsRun'
<1> SUFFICES ASSUME wave' = "join" PROVE pc'[at'] \in Live \cup {"gone"}
    BY DEF JoinsItsRun
<1>1. pc \in [Clusters -> Pc]
    BY DEF IInv, TypeOK
<1>2. CASE StartRun
    BY <1>1, <1>2 DEF StartRun, Goto, Live
<1>3. ASSUME NEW i \in Clusters, Thread(i) PROVE pc'[at'] \in Live \cup {"gone"}
  <2>1. wave = "join" /\ at' = at /\ pc[at] \in Live \cup {"gone"}
      BY <1>3 DEF Thread, EmitStart, StartPattern, Investigate, OpenPull, CaptureDraft,
                  EmitOpened, EmitAudit, EmitEnd, BodyRaises, EmitError, Exit, Emit,
                  waveVars, JoinsItsRun
  <2>2. \E label \in Live \cup {"gone"} : pc' = [pc EXCEPT ![i] = label]
      BY <1>3 DEF Thread, EmitStart, StartPattern, Investigate, OpenPull, CaptureDraft,
                  EmitOpened, EmitAudit, EmitEnd, BodyRaises, EmitError, Exit, Emit,
                  Goto, Live
  <2>3. QED  BY <1>1, <2>1, <2>2
<1>4. CASE \/ Scan \/ Restart \/ UNCHANGED vars
           \/ \E i \in Clusters : VerifyStart(i) \/ VerifyEnd(i)
    BY <1>4 DEF Scan, Restart, VerifyStart, VerifyEnd, vars, waveVars, threads, JoinsItsRun
<1>5. CASE StartWave \/ PrologueFails \/ StartRunFails \/ Join \/ ReadOutcome
           \/ ReadOutcomeFails \/ EndWave \/ Post \/ Crash
    BY <1>5 DEF StartWave, PrologueFails, StartRunFails, ClusterFails, Join, ReadOutcome,
                ReadOutcomeFails, EndWave, Post, Crash
<1>6. QED  BY <1>2, <1>3, <1>4, <1>5 DEF Next, WaveStep

\* The wave never waits for a thread that does not live and is not over: not for
\* one that was not started, nor for one that died with the process
\* (run_fix_wave, start_pipeline_thread, thread.join without a timeout).
THEOREM WaitsForLiveRuns == Spec => []JoinsItsRun
<1>1. Init => JoinsItsRun
    BY DEF Init, JoinsItsRun
<1>2. QED  BY <1>1, JoinsStep, WaveInvariantHolds, PTL DEF Spec

\* How much of the wave is ahead: at most a "next", a "join" and a "read" for each
\* cluster, and the escalation
WaveStage == [label \in {"waiting", "next", "join", "read", "post", "done", "dead"} |->
    CASE label = "waiting" -> 4  [] label = "next" -> 3  [] label = "join" -> 2
      [] label = "post" -> 2     [] label = "read" -> 1  [] OTHER -> 0]

WaveRank == 3 * (NClusters + 1 - at) + WaveStage[wave]

\* And of run i: each pattern goes from "run" to "run" once
RunStage == [label \in Pc |->
    CASE label = "boot" -> 8   [] label = "agent" -> 7  [] label = "open" -> 6
      [] label = "opened" -> 5 [] label = "audit" -> 4  [] label = "run" -> 3
      [] label = "raised" -> 2 [] label = "exit" -> 1   [] OTHER -> 0]

RunRank(i) == 5 * (MaxPatterns - pat[i]) + RunStage[pc[i]]

\* The stages are small numbers, and nothing is counted below zero
LEMMA RankTypes ==
    ASSUME TypeOK
    PROVE  /\ WaveStage[wave] \in 0..4 /\ NClusters + 1 - at \in Nat /\ WaveRank \in Nat
           /\ \A i \in Clusters : /\ RunStage[pc[i]] \in 0..8 /\ MaxPatterns - pat[i] \in Nat
                                  /\ RunRank(i) \in Nat
<1>1. WaveStage[wave] \in 0..4 /\ NClusters + 1 - at \in Nat
    BY DEF TypeOK, WaveStage
<1>2. ASSUME NEW i \in Clusters
      PROVE  RunStage[pc[i]] \in 0..8 /\ MaxPatterns - pat[i] \in Nat
  <2>1. pc[i] \in Pc /\ pat[i] \in 0..MaxPatterns
      BY DEF TypeOK
  <2>2. QED  BY <2>1 DEF RunStage
<1>3. QED  BY <1>1, <1>2 DEF WaveRank, RunRank

\* The wave's own step
LEMMA WaveAdvances ==
    ASSUME TypeOK, TypeOK', StartWave \/ WaveStep
    PROVE  WaveRank' < WaveRank
<1>1. at \in 1..(NClusters + 1) /\ at' \in 1..(NClusters + 1)
    BY DEF TypeOK
<1>2. CASE StartWave \/ PrologueFails \/ StartRun \/ Join \/ EndWave \/ Post
  <2>1. at' = at /\ WaveStage[wave'] < WaveStage[wave]
    <3>1. /\ at' = at
          /\ \/ wave = "waiting" /\ wave' \in {"next", "post"}
             \/ wave = "next" /\ wave' \in {"join", "post"}
             \/ wave = "join" /\ wave' = "read"
             \/ wave = "post" /\ wave' = "done"
        BY <1>2 DEF StartWave, PrologueFails, StartRun, Join, EndWave, Post
    <3>2. QED  BY <3>1 DEF WaveStage
  <2>2. WaveStage[wave] \in 0..4 /\ WaveStage[wave'] \in 0..4
      BY DEF TypeOK, WaveStage
  <2>3. QED  BY <1>1, <2>1, <2>2 DEF WaveRank
<1>3. CASE StartRunFails \/ ReadOutcome \/ ReadOutcomeFails
  <2>1. at' = at + 1 /\ WaveStage[wave'] = 3 /\ WaveStage[wave] \in {1, 3}
      BY <1>3 DEF StartRunFails, ReadOutcome, ReadOutcomeFails, ClusterFails, WaveStage
  <2>2. QED  BY <1>1, <2>1 DEF WaveRank
<1>4. QED  BY <1>2, <1>3 DEF WaveStep

\* A run's own step
LEMMA RunAdvances ==
    ASSUME TypeOK, TypeOK', NEW i \in Clusters, Thread(i)
    PROVE  /\ RunRank(i)' < RunRank(i) /\ UNCHANGED waveVars
           /\ \A j \in Clusters \ {i} : pc'[j] = pc[j] /\ pat'[j] = pat[j]
<1>1. /\ pc \in [Clusters -> Pc] /\ pat \in [Clusters -> 0..MaxPatterns]
      /\ RunStage[pc[i]] \in 0..8 /\ RunStage[pc'[i]] \in 0..8
      /\ pat[i] \in 0..MaxPatterns /\ pat'[i] \in 0..MaxPatterns
    BY DEF TypeOK, RunStage
<1>2. CASE StartPattern(i)
  <2>1. /\ pat'[i] = pat[i] + 1 /\ pc[i] = "run" /\ pc'[i] = "agent" /\ UNCHANGED waveVars
        /\ \A j \in Clusters \ {i} : pc'[j] = pc[j] /\ pat'[j] = pat[j]
      BY <1>1, <1>2 DEF StartPattern, Goto
  <2>2. RunStage[pc[i]] = 3 /\ RunStage[pc'[i]] = 7
      BY <2>1 DEF RunStage, Pc
  <2>3. QED  BY <1>1, <2>1, <2>2 DEF RunRank
<1>3. CASE ~StartPattern(i)
  <2>1. \E label \in Pc :
           /\ pc' = [pc EXCEPT ![i] = label] /\ RunStage[label] < RunStage[pc[i]]
           /\ pat' = pat /\ UNCHANGED waveVars
    <3>1. CASE EmitStart(i) \/ EmitOpened(i) \/ EmitAudit(i) \/ EmitEnd(i)
        BY <3>1 DEF EmitStart, EmitOpened, EmitAudit, EmitEnd, Emit, Goto, RunStage, Pc
    <3>2. CASE Investigate(i)
        BY <3>2 DEF Investigate, Emit, Goto, RunStage, Pc
    <3>3. CASE OpenPull(i) \/ CaptureDraft(i)
        BY <3>3 DEF OpenPull, CaptureDraft, Goto, RunStage, Pc
    <3>4. CASE BodyRaises(i)
        BY <3>4 DEF BodyRaises, Goto, RunStage, Pc
    <3>5. CASE EmitError(i)
      <4>1. pc' = [pc EXCEPT ![i] = "exit"] /\ pat' = pat /\ UNCHANGED waveVars /\ pc[i] = "raised"
          BY <3>5 DEF EmitError, Goto
      <4>2. "exit" \in Pc /\ RunStage["exit"] < RunStage["raised"]
          BY DEF RunStage, Pc
      <4>3. QED  BY <4>1, <4>2
    <3>6. CASE Exit(i)
        BY <3>6 DEF Exit, Goto, RunStage, Pc
    <3>7. QED  BY <1>3, <3>1, <3>2, <3>3, <3>4, <3>5, <3>6 DEF Thread
  <2>2. PICK label \in Pc :
           /\ pc' = [pc EXCEPT ![i] = label] /\ RunStage[label] < RunStage[pc[i]]
           /\ pat' = pat /\ UNCHANGED waveVars
      BY <2>1
  <2>3. /\ pc'[i] = label /\ pat'[i] = pat[i]
        /\ \A j \in Clusters \ {i} : pc'[j] = pc[j] /\ pat'[j] = pat[j]
      BY <1>1, <2>2
  <2>4. RunStage[pc'[i]] < RunStage[pc[i]] /\ UNCHANGED waveVars
      BY <2>2, <2>3
  <2>5. RunRank(i)' < RunRank(i)
    <3>1. /\ RunStage[pc'[i]] < RunStage[pc[i]]
          /\ RunStage[pc[i]] \in Nat /\ RunStage[pc'[i]] \in Nat
        BY <1>1, <2>4
    <3>2. /\ 5 * (MaxPatterns - pat'[i]) = 5 * (MaxPatterns - pat[i])
          /\ 5 * (MaxPatterns - pat[i]) \in Nat
        BY <1>1, <2>3
    <3>3. /\ RunRank(i) = 5 * (MaxPatterns - pat[i]) + RunStage[pc[i]]
          /\ RunRank(i)' = 5 * (MaxPatterns - pat'[i]) + RunStage[pc'[i]]
        BY DEF RunRank, RunStage
    <3>4. QED  BY <3>1, <3>2, <3>3
  <2>6. QED  BY <2>3, <2>4, <2>5
<1>4. QED  BY <1>2, <1>3

\* Each step of the wave leaves less of the wave, each step of a run less of that
\* run, and only the start of its run adds to what a cluster has ahead.
Advances ==
    /\ WaveRank \in Nat /\ WaveRank' <= WaveRank
    /\ StartWave \/ WaveStep => WaveRank' < WaveRank
    /\ \A i \in Clusters :
          /\ RunRank(i) \in Nat
          /\ Thread(i) => RunRank(i)' < RunRank(i)
          /\ ~(StartRun /\ i = at) => RunRank(i)' <= RunRank(i)

\* The wave takes at most three steps for a cluster, and a run at most five for a
\* pattern, whatever raises, which disks fail and when the process dies
\* (run_fix_wave, run_pipeline_for_issue).
THEOREM WaveBounded == Spec => [][Advances]_vars
<1>1. ASSUME TypeOK, TypeOK', Next PROVE Advances
  <2>1. /\ WaveRank \in Nat /\ WaveRank' \in Nat
        /\ \A i \in Clusters : RunRank(i) \in Nat /\ RunRank(i)' \in Nat
    <3>1. /\ WaveStage[wave'] \in 0..4 /\ NClusters + 1 - at' \in Nat
        BY <1>1 DEF TypeOK, WaveStage
    <3>2. ASSUME NEW i \in Clusters PROVE RunRank(i)' \in Nat
      <4>1. pc'[i] \in Pc /\ pat'[i] \in 0..MaxPatterns
          BY <1>1 DEF TypeOK
      <4>2. RunStage[pc'[i]] \in 0..8
          BY <4>1 DEF RunStage
      <4>3. QED  BY <4>1, <4>2 DEF RunRank
    <3>3. QED  BY <1>1, <3>1, <3>2, RankTypes DEF WaveRank
  <2>2. CASE StartWave \/ WaveStep
    <3>1. WaveRank' < WaveRank
        BY <1>1, <2>2, WaveAdvances
    <3>2. ASSUME NEW i \in Clusters
          PROVE  /\ Thread(i) => RunRank(i)' < RunRank(i)
                 /\ ~(StartRun /\ i = at) => RunRank(i)' <= RunRank(i)
      <4>1. Thread(i) => RunRank(i)' < RunRank(i)
          BY <1>1, RunAdvances
      <4>2. CASE ~(StartRun /\ i = at)
        <5>1. pc'[i] = pc[i] /\ pat'[i] = pat[i]
            BY <1>1, <2>2, <4>2
               DEF TypeOK, StartWave, WaveStep, PrologueFails, StartRun, StartRunFails, ClusterFails,
                   Join, ReadOutcome, ReadOutcomeFails, EndWave, Post, Goto, threads
        <5>2. RunRank(i)' = RunRank(i)
            BY <5>1 DEF RunRank, RunStage
        <5>3. QED  BY <2>1, <4>1, <5>2
      <4>3. QED  BY <4>1, <4>2
    <3>3. QED  BY <2>1, <3>1, <3>2 DEF Advances
  <2>3. ASSUME NEW i \in Clusters, Thread(i), ~(StartWave \/ WaveStep) PROVE Advances
    <3>1. /\ RunRank(i)' < RunRank(i) /\ UNCHANGED waveVars
          /\ \A j \in Clusters \ {i} : pc'[j] = pc[j] /\ pat'[j] = pat[j]
        BY <1>1, <2>3, RunAdvances
    <3>2. WaveRank' = WaveRank
        BY <3>1 DEF WaveRank, WaveStage, waveVars
    <3>3. \A j \in Clusters \ {i} : RunRank(j)' = RunRank(j)
        BY <3>1 DEF RunRank, RunStage
    <3>4. \A j \in Clusters : Thread(j) => RunRank(j)' < RunRank(j)
        BY <1>1, RunAdvances
    <3>5. \A j \in Clusters : RunRank(j)' <= RunRank(j)
        BY <2>1, <3>1, <3>3
    <3>6. QED  BY <2>1, <2>3, <3>2, <3>4, <3>5 DEF Advances
  <2>4. CASE \/ Scan \/ Restart \/ \E i \in Clusters : VerifyStart(i) \/ VerifyEnd(i)
    <3>1. /\ wave' = wave /\ at' = at /\ pc' = pc /\ pat' = pat
        BY <2>4 DEF Scan, Restart, VerifyStart, VerifyEnd, waveVars, threads
    <3>2. WaveRank' = WaveRank /\ \A i \in Clusters : RunRank(i)' = RunRank(i)
        BY <3>1 DEF WaveRank, WaveStage, RunRank, RunStage
    <3>3. ~(StartWave \/ WaveStep)
        BY <1>1, <3>1, <3>2, <2>1, WaveAdvances
    <3>4. \A i \in Clusters : Thread(i) => RunRank(i)' < RunRank(i)
        BY <1>1, RunAdvances
    <3>5. QED  BY <2>1, <3>2, <3>3, <3>4 DEF Advances
  <2>5. CASE Crash /\ ~(StartWave \/ WaveStep)
    <3>1. at' = at /\ (wave' = wave \/ wave' = "dead") /\ pat' = pat
        BY <2>5 DEF Crash
    <3>2. WaveRank' <= WaveRank
      <4>1. WaveStage[wave'] <= WaveStage[wave] /\ WaveStage[wave] \in 0..4
            /\ WaveStage[wave'] \in 0..4
          BY <1>1, <3>1 DEF TypeOK, WaveStage
      <4>2. at \in 1..(NClusters + 1)
          BY <1>1 DEF TypeOK
      <4>3. QED  BY <3>1, <4>1, <4>2 DEF WaveRank
    <3>3. ASSUME NEW i \in Clusters PROVE RunRank(i)' <= RunRank(i)
      <4>1. pc[i] \in Pc /\ pat[i] \in 0..MaxPatterns
          BY <1>1 DEF TypeOK
      <4>2. pc'[i] = pc[i] \/ pc'[i] = "lost"
          BY <2>5 DEF Crash
      <4>3. /\ RunStage[pc'[i]] <= RunStage[pc[i]] /\ RunStage[pc[i]] \in 0..8
            /\ RunStage[pc'[i]] \in 0..8
          BY <4>1, <4>2 DEF RunStage, Pc
      <4>4. QED  BY <3>1, <4>1, <4>3 DEF RunRank
    <3>4. \A i \in Clusters : Thread(i) => RunRank(i)' < RunRank(i)
        BY <1>1, RunAdvances
    <3>5. QED  BY <2>1, <2>5, <3>2, <3>3, <3>4 DEF Advances
  <2>6. QED  BY <1>1, <2>2, <2>3, <2>4, <2>5 DEF Next
<1>2. TypeOK /\ TypeOK' /\ [Next]_vars => [Advances]_vars
    BY <1>1
<1>3. IInv => TypeOK
    BY DEF IInv
<1>4. QED  BY <1>2, <1>3, WaveInvariantHolds, PTL DEF Spec
=============================================================================
