----------------------------- MODULE CacheProofs -----------------------------
(***************************************************************************)
(* The two caches that threads of the server share and that people outside *)
(* change the sources of meanwhile.  Grounding: what the evidence of a     *)
(* grounding is, for any threads, pins, versions, package and keywords,    *)
(* and any number of groundings, failures and crashes.  ResolutionCache,   *)
(* from "The other cache" on: whom an assessment of an issue hears, and    *)
(* how old one is that is sent, for any threads, issues and comments.      *)
(***************************************************************************)
EXTENDS Grounding, ResolutionCache, FiniteSetTheorems, WellFoundedInduction, TLAPS

-----------------------------------------------------------------------------
(* Types: doc.sdk_schema is told once, on the way to the question          *)

Silent == {"probe", "fetch", "pip", "moving", "cleanup", "giveup", "extract"}

Typed == TypeOK /\ \A t \in Threads : pc[t] \in Silent => told[t] = 0

\* What Extract gives the question
Found(t, p) ==
    IF dir[target[t]] = Nothing \/ p.text = {} THEN NoEvidence
    ELSE [dir |-> target[t], items |-> dir[target[t]], prompt |-> p]

LEMMA PromptType ==
    ASSUME NEW p \in Prompts
    PROVE  p \in [buckets : SUBSET Keywords, served : SUBSET Keywords,
                  own : SUBSET Keywords, text : SUBSET Keywords]
<1>1. PICK walk \in Walks : p = Prompt(walk)
    BY DEF Prompts
<1>2. \A i \in 1..MaxBlocks : walk[i].cut \subseteq Keywords
    BY DEF Walks, Blocks
<1>3. \A i \in Snippets(walk) : i \in 1..MaxBlocks
    BY DEF Snippets, Kept
<1>4. UNION {walk[i].cut : i \in Snippets(walk)} \subseteq Keywords
    BY <1>2, <1>3
<1>5. QED  BY <1>1, <1>4 DEF Prompt, BucketsOf, OwnKeywords

LEMMA FoundType ==
    ASSUME TypeOK, NEW t \in Threads, NEW p \in Prompts
    PROVE  Found(t, p) \in Evidence \cup {NoEvidence}
<1>1. target[t] \in Dirs /\ dir[target[t]] \in [Items -> Versions \cup {Absent}]
    BY DEF TypeOK
<1>2. QED  BY <1>1, PromptType DEF Found, Evidence

LEMMA TypesInit == Init => Typed
<1> SUFFICES ASSUME Init PROVE Typed
    OBVIOUS
<1>1. newest \in Versions /\ begun \in 0..MaxGroundings /\ crashes \in 0..MaxCrashes
    BY GroundingAssumption DEF Init
<1>2. dir \in [Dirs -> [Items -> Versions \cup {Absent}]]
    BY DEF Init, Nothing
<1>3. QED  BY <1>1, <1>2 DEF Init, Typed, TypeOK, Pc, Dirs, Silent

LEMMA TellTyped ==
    ASSUME Typed, NEW t \in Threads, pc[t] \in Silent, Tell(t)
    PROVE  /\ pc' \in [Threads -> Pc] /\ told' \in [Threads -> 0..1]
           /\ \A u \in Threads : pc'[u] \in Silent => told'[u] = 0
<1>1. told[t] = 0
    BY DEF Typed
<1>2. told' \in [Threads -> 0..1]
    BY <1>1 DEF Typed, TypeOK, Tell
<1>3. pc' \in [Threads -> Pc] /\ pc'[t] = "ask"
    BY DEF Typed, TypeOK, Tell, Goto, Pc
<1>4. \A u \in Threads \ {t} : pc'[u] = pc[u] /\ told'[u] = told[u]
    BY DEF Typed, TypeOK, Tell, Goto
<1>5. QED  BY <1>2, <1>3, <1>4 DEF Typed, Silent

LEMMA TypesStep == Typed /\ [Next]_vars => Typed'
<1> SUFFICES ASSUME Typed, [Next]_vars PROVE Typed'
    OBVIOUS
<1> USE DEF Typed, Silent
<1>0. Nothing \in [Items -> Versions \cup {Absent}] /\ Latest \in Dirs /\ newest \in Versions
    BY DEF Nothing, Dirs, TypeOK
<1>1. CASE UNCHANGED vars
    BY <1>1 DEF vars, attempt, TypeOK
<1>2. CASE Publish
  <2>1. newest' \in Versions
      BY <1>2, GroundingAssumption DEF Publish, TypeOK, Versions
  <2>2. QED  BY <1>2, <2>1 DEF Publish, attempt, TypeOK
<1>3. CASE Crash
  <2>1. crashes' \in 0..MaxCrashes
      BY <1>3, GroundingAssumption DEF Crash, TypeOK
  <2>2. /\ pc' \in [Threads -> Pc] /\ target' \in [Threads -> Dirs]
        /\ \A t \in Threads : pc'[t] = "idle"
      BY <1>0, <1>3 DEF Crash, Pc
  <2>3. /\ version' \in [Threads -> Versions \cup {Absent}] /\ left' \in [Threads -> SUBSET Items]
        /\ evidence' \in [Threads -> Evidence \cup {NoEvidence}] /\ told' \in [Threads -> 0..1]
      BY <1>3 DEF Crash
  <2>4. trouble' \subseteq Dirs
      BY <1>3 DEF Crash, TypeOK
  <2>5. QED  BY <1>3, <2>1, <2>2, <2>3, <2>4 DEF Crash, TypeOK
<1>4. ASSUME NEW t \in Threads, Begin(t) PROVE Typed'
  <2>1. begun' \in 0..MaxGroundings
      BY <1>4, GroundingAssumption DEF Begin, TypeOK
  <2>2. pc' \in [Threads -> Pc] /\ told' \in [Threads -> 0..1] /\ told'[t] = 0
      BY <1>4 DEF Begin, Goto, TypeOK, Pc
  <2>3. \A u \in Threads \ {t} : pc'[u] = pc[u] /\ told'[u] = told[u]
      BY <1>4 DEF Begin, Goto, TypeOK
  <2>4. QED  BY <1>4, <2>1, <2>2, <2>3 DEF Begin, attempt, TypeOK
<1>5. ASSUME NEW t \in Threads, ProbeFails(t) PROVE Typed'
  <2>1. pc[t] \in Silent /\ Tell(t)
      BY <1>5 DEF ProbeFails
  <2>2. QED  BY <1>5, <2>1, TellTyped DEF ProbeFails, attempt, TypeOK
<1>6. ASSUME NEW t \in Threads, Probe(t) PROVE Typed'
  <2>1. pc' \in [Threads -> Pc] /\ target' \in [Threads -> Dirs]
      BY <1>6 DEF Probe, Goto, TypeOK, Pc
  <2>2. \A u \in Threads : pc'[u] \in Silent => pc[u] \in Silent
      BY <1>6 DEF Probe, Goto, TypeOK
  <2>3. QED  BY <1>6, <2>1, <2>2 DEF Probe, TypeOK
<1>7. ASSUME NEW t \in Threads, Hit(t) PROVE Typed'
    BY <1>7 DEF Hit, Enter, Goto, attempt, TypeOK, Pc
<1>8. ASSUME NEW t \in Threads, Miss(t) PROVE Typed'
    BY <1>8 DEF Miss, Goto, attempt, TypeOK, Pc
<1>9. ASSUME NEW t \in Threads, Resolve(t) PROVE Typed'
  <2>1. (IF target[t] = Latest THEN newest ELSE target[t]) \in Versions
      BY <1>0, <1>9, GroundingAssumption DEF Resolve, TypeOK, Dirs, Versions
  <2>2. QED  BY <1>9, <2>1 DEF Resolve, Enter, Goto, TypeOK, Pc
<1>10. ASSUME NEW t \in Threads, Move(t) PROVE Typed'
  <2>1. PICK i \in left[t] :
           /\ left' = [left EXCEPT ![t] = @ \ {i}]
           /\ dir' = [dir EXCEPT ![target[t]][i] = IF @ = Absent THEN version[t] ELSE @]
      BY <1>10 DEF Move
  <2>2. i \in Items /\ target[t] \in Dirs /\ version[t] \in Versions \cup {Absent}
      BY DEF TypeOK
  <2>3. dir' \in [Dirs -> [Items -> Versions \cup {Absent}]]
      BY <2>1, <2>2 DEF TypeOK
  <2>4. left' \in [Threads -> SUBSET Items]
      BY <2>1 DEF TypeOK
  <2>5. QED  BY <1>10, <2>3, <2>4 DEF Move, TypeOK
<1>11. ASSUME NEW t \in Threads, Installed(t) PROVE Typed'
    BY <1>11 DEF Installed, PipGone, Goto, TypeOK, Pc
<1>12. ASSUME NEW t \in Threads, PipFails(t) PROVE Typed'
    BY <1>12 DEF PipFails, PipGone, Enter, Goto, TypeOK, Pc
<1>13. ASSUME NEW t \in Threads, Cleanup(t) PROVE Typed'
  <2>1. dir' \in [Dirs -> [Items -> Versions \cup {Absent}]]
      BY <1>0, <1>13 DEF Cleanup, TypeOK
  <2>2. CASE Tell(t) /\ UNCHANGED target
    <3>1. pc[t] \in Silent
        BY <1>13 DEF Cleanup
    <3>2. QED  BY <1>13, <2>1, <2>2, <3>1, TellTyped DEF Cleanup, TypeOK
  <2>3. CASE target' = [target EXCEPT ![t] = Latest] /\ Goto(t, "fetch") /\ UNCHANGED told
    <3>1. pc' \in [Threads -> Pc] /\ target' \in [Threads -> Dirs]
        BY <1>0, <2>3 DEF Goto, TypeOK, Pc
    <3>2. \A u \in Threads : pc'[u] \in Silent => pc[u] \in Silent
        BY <1>13, <2>3 DEF Cleanup, Goto, TypeOK
    <3>3. QED  BY <1>13, <2>1, <2>3, <3>1, <3>2 DEF Cleanup, TypeOK
  <2>4. QED  BY <1>13, <2>2, <2>3 DEF Cleanup, NextAttempt
<1>14. ASSUME NEW t \in Threads, GiveUp(t) PROVE Typed'
  <2>1. dir' \in [Dirs -> [Items -> Versions \cup {Absent}]]
      BY <1>0, <1>14 DEF GiveUp, TypeOK
  <2>2. QED  BY <1>14, <2>1 DEF GiveUp, Tell, Goto, attempt, TypeOK, Pc
<1>15. ASSUME NEW t \in Threads, Extract(t) PROVE Typed'
  <2>1. PICK p \in Prompts : evidence' = [evidence EXCEPT ![t] = Found(t, p)]
      BY <1>15 DEF Extract, Found
  <2>2. evidence' \in [Threads -> Evidence \cup {NoEvidence}]
      BY <2>1, FoundType DEF TypeOK
  <2>3. pc[t] \in Silent /\ Tell(t)
      BY <1>15 DEF Extract
  <2>4. QED  BY <1>15, <2>2, <2>3, TellTyped DEF Extract, attempt, TypeOK
<1>16. ASSUME NEW t \in Threads, Ask(t) PROVE Typed'
  <2>1. pc' \in [Threads -> Pc] /\ target' \in [Threads -> Dirs]
      BY <1>0, <1>16 DEF Ask, Goto, TypeOK, Pc
  <2>2. evidence' \in [Threads -> Evidence \cup {NoEvidence}]
      BY <1>16 DEF Ask, TypeOK
  <2>3. \A u \in Threads : pc'[u] \in Silent => pc[u] \in Silent
      BY <1>16 DEF Ask, Goto, TypeOK
  <2>4. QED  BY <1>16, <2>1, <2>2, <2>3 DEF Ask, TypeOK
<1>17. QED
    BY <1>1, <1>2, <1>3, <1>4, <1>5, <1>6, <1>7, <1>8, <1>9, <1>10, <1>11, <1>12, <1>13, <1>14, <1>15, <1>16
       DEF Next, Step, Fetch

LEMMA Types == Spec => []Typed
<1>1. QED  BY TypesInit, TypesStep, PTL DEF Spec
-----------------------------------------------------------------------------
(* The directory of a pin: whoever moves items into it has the version of  *)
(* the pin                                                                 *)

Pinned ==
    /\ PinnedDirsTrue
    /\ \A t \in Threads : pc[t] = "moving" /\ target[t] \in Pins => version[t] = target[t]

LEMMA PinnedInit == Init => Pinned
BY DEF Init, Pinned, PinnedDirsTrue, Dirs, Nothing, NoEvidence

\* Nobody's directory, install or evidence changes for the worse
LEMMA PinnedFrame ==
    ASSUME Typed, Pinned,
           \A p \in Pins, i \in Items : dir'[p][i] \in {dir[p][i], Absent},
           \A t \in Threads : evidence'[t] \in {evidence[t], NoEvidence},
           \A t \in Threads : pc'[t] = "moving" =>
               pc[t] = "moving" /\ target'[t] = target[t] /\ version'[t] = version[t]
    PROVE  Pinned'
BY DEF Pinned, PinnedDirsTrue

LEMMA PinnedStep == Typed /\ Pinned /\ [Next]_vars => Pinned'
<1> SUFFICES ASSUME Typed, Pinned, [Next]_vars PROVE Pinned'
    OBVIOUS
<1> USE DEF Typed, TypeOK
<1>1. CASE UNCHANGED vars
    BY <1>1, PinnedFrame DEF vars, attempt
<1>2. CASE Publish
    BY <1>2, PinnedFrame DEF Publish, attempt
<1>3. CASE Crash
    BY <1>3, PinnedFrame DEF Crash
<1>4. ASSUME NEW t \in Threads, Begin(t) PROVE Pinned'
    BY <1>4, PinnedFrame DEF Begin, Goto, attempt
<1>5. ASSUME NEW t \in Threads, ProbeFails(t) PROVE Pinned'
    BY <1>5, PinnedFrame DEF ProbeFails, Tell, Goto, attempt
<1>6. ASSUME NEW t \in Threads, Probe(t) PROVE Pinned'
    BY <1>6, PinnedFrame DEF Probe, Goto
<1>7. ASSUME NEW t \in Threads, Hit(t) PROVE Pinned'
    BY <1>7, PinnedFrame DEF Hit, Goto, attempt
<1>8. ASSUME NEW t \in Threads, Miss(t) PROVE Pinned'
    BY <1>8, PinnedFrame DEF Miss, Goto, attempt
<1>9. ASSUME NEW t \in Threads, Resolve(t) PROVE Pinned'
  <2>1. PinnedDirsTrue'
      BY <1>9 DEF Resolve, Pinned, PinnedDirsTrue
  <2>2. target[t] \in Pins => version'[t] = target[t]
    <3>1. Latest \notin Nat /\ Pins \subseteq Nat
        BY GroundingAssumption
    <3>2. version' = [version EXCEPT ![t] = IF target[t] = Latest THEN newest ELSE target[t]]
        BY <1>9 DEF Resolve
    <3>3. QED  BY <3>1, <3>2
  <2>3. \A u \in Threads \ {t} : version'[u] = version[u] /\ pc'[u] = pc[u]
      BY <1>9 DEF Resolve, Goto
  <2>4. QED  BY <1>9, <2>1, <2>2, <2>3 DEF Resolve, Pinned
<1>10. ASSUME NEW t \in Threads, Move(t) PROVE Pinned'
  <2>1. PICK i \in left[t] :
           dir' = [dir EXCEPT ![target[t]][i] = IF @ = Absent THEN version[t] ELSE @]
      BY <1>10 DEF Move
  <2>2. ASSUME NEW p \in Pins, NEW j \in Items PROVE dir'[p][j] \in {p, Absent}
    <3>1. p \in Dirs /\ target[t] \in Dirs /\ i \in Items
        BY DEF Dirs
    <3>2. CASE p = target[t] /\ j = i
      <4>1. version[t] = p
          BY <1>10, <3>2 DEF Pinned, Move
      <4>2. dir'[p][j] = IF dir[p][j] = Absent THEN version[t] ELSE dir[p][j]
          BY <2>1, <3>1, <3>2
      <4>3. QED  BY <4>1, <4>2 DEF Pinned, PinnedDirsTrue
    <3>3. CASE p # target[t] \/ j # i
      <4>1. dir'[p][j] = dir[p][j]
          BY <2>1, <3>1, <3>3
      <4>2. QED  BY <4>1 DEF Pinned, PinnedDirsTrue
    <3>4. QED  BY <3>2, <3>3
  <2>3. QED  BY <1>10, <2>2 DEF Move, Pinned, PinnedDirsTrue
<1>11. ASSUME NEW t \in Threads, Installed(t) PROVE Pinned'
    BY <1>11, PinnedFrame DEF Installed, PipGone, Goto
<1>12. ASSUME NEW t \in Threads, PipFails(t) PROVE Pinned'
    BY <1>12, PinnedFrame DEF PipFails, PipGone, Goto
<1>13. ASSUME NEW t \in Threads, Cleanup(t) PROVE Pinned'
  <2>1. \A p \in Pins, i \in Items : dir'[p][i] \in {dir[p][i], Absent}
      BY <1>13 DEF Cleanup, Nothing, Dirs
  <2>2. \A u \in Threads : pc'[u] = "moving" => u # t /\ pc[u] = "moving" /\ target'[u] = target[u]
      BY <1>13 DEF Cleanup, NextAttempt, Tell, Goto
  <2>3. QED  BY <1>13, <2>1, <2>2, PinnedFrame DEF Cleanup
<1>14. ASSUME NEW t \in Threads, GiveUp(t) PROVE Pinned'
  <2>1. \A p \in Pins, i \in Items : dir'[p][i] \in {dir[p][i], Absent}
      BY <1>14 DEF GiveUp, Nothing, Dirs
  <2>2. QED  BY <1>14, <2>1, PinnedFrame DEF GiveUp, Tell, Goto, attempt
<1>15. ASSUME NEW t \in Threads, Extract(t) PROVE Pinned'
  <2>1. PICK p \in Prompts : evidence' = [evidence EXCEPT ![t] = Found(t, p)]
      BY <1>15 DEF Extract, Found
  <2>2. Found(t, p) # NoEvidence =>
           Found(t, p).dir = target[t] /\ Found(t, p).items = dir[target[t]]
      BY DEF Found
  <2>3. \A u \in Threads \ {t} : evidence'[u] = evidence[u]
      BY <2>1
  <2>4. PinnedDirsTrue'
      BY <1>15, <2>1, <2>2, <2>3 DEF Extract, Pinned, PinnedDirsTrue
  <2>5. QED  BY <1>15, <2>4 DEF Extract, Pinned, Tell, Goto, attempt
<1>16. ASSUME NEW t \in Threads, Ask(t) PROVE Pinned'
    BY <1>16, PinnedFrame DEF Ask, Goto
<1>17. QED
    BY <1>1, <1>2, <1>3, <1>4, <1>5, <1>6, <1>7, <1>8, <1>9, <1>10, <1>11, <1>12, <1>13, <1>14, <1>15, <1>16
       DEF Next, Step, Fetch

(* PinnedDirsTrue for every instance: a directory named after a pin, and    *)
(* the evidence taken from it, are of that version, however installs fail,  *)
(* fall back to the newest version, overlap or die with the server          *)
(* (fetch_sdk, _install_into).                                              *)
THEOREM PinsHold == Spec => []PinnedDirsTrue
<1>1. Pinned => PinnedDirsTrue
    BY DEF Pinned
<1>2. QED  BY <1>1, PinnedInit, PinnedStep, Types, PTL DEF Spec
-----------------------------------------------------------------------------
(* The snippets: the first block of each bucket is in the first round      *)

LEMMA SmallestNat ==
    ASSUME NEW T \in SUBSET Nat, T # {}
    PROVE  \E m \in T : \A n \in T : m <= n
<1> DEFINE R == {p \in Nat \X Nat : p[1] < p[2]}
<1>1. IsWellFoundedOn(R, Nat)
    BY NatLessThanWellFounded, Zenon DEF OpToRel
<1>2. \A m, n \in Nat : n < m => <<n, m>> \in R
    OBVIOUS
<1> HIDE DEF R
<1>3. PICK m \in T : \A n \in T : ~(<<n, m>> \in R)
    BY <1>1, WFMin
<1>4. \A n \in T : ~(n < m) /\ n \in Nat /\ m \in Nat
    BY <1>2, <1>3
<1>5. QED  BY <1>4

\* The first block of a bucket is in round 0, with one block at most of any other
\* bucket before it, and is shown
LEMMA FirstBlockShown ==
    ASSUME NEW walk \in Walks, NEW k \in Keywords, NEW i0 \in Kept(walk), InBucket(walk, i0, k)
    PROVE  \E i \in Snippets(walk) : InBucket(walk, i, k)
<1> DEFINE mine == {i \in Kept(walk) : InBucket(walk, i, k)}
           Others == Keywords \ {k}
<1>1. /\ \A i \in Kept(walk) : i \in 1..MaxBlocks /\ walk[i].whole \subseteq Keywords
      /\ Keywords \subseteq Nat /\ MaxBlocks \in Nat
    BY GroundingAssumption DEF Kept, Walks, Blocks
<1>2. PICK i \in mine : \A j \in mine : i <= j
  <2>1. mine \in SUBSET Nat /\ mine # {}
      BY <1>1
  <2> HIDE DEF mine
  <2>2. QED  BY <2>1, SmallestNat
<1>3. \A j \in Kept(walk), l, m \in Keywords : InBucket(walk, j, l) /\ InBucket(walk, j, m) => l = m
    BY <1>1 DEF InBucket
<1>4. Sooner(walk, i) = {}
    BY <1>1, <1>2, <1>3 DEF Sooner
<1>5. Round(walk, i) = 0
    BY <1>4, FS_EmptySet DEF Round
<1> DEFINE before == {j \in Kept(walk) : \/ Round(walk, j) < Round(walk, i)
                                         \/ /\ Round(walk, j) = Round(walk, i)
                                            /\ InBucketBefore(walk, j, i)}
<1>6. \A j \in Kept(walk) : IsFiniteSet(Sooner(walk, j)) /\ Round(walk, j) \in Nat
  <2>1. SUFFICES ASSUME NEW j \in Kept(walk) PROVE IsFiniteSet(Sooner(walk, j)) /\ Round(walk, j) \in Nat
      OBVIOUS
  <2>2. IsFiniteSet(1..MaxBlocks)
    <3>1. 1 \in Int /\ MaxBlocks \in Int
        BY <1>1
    <3>2. QED  BY <3>1, FS_Interval
  <2>3. IsFiniteSet(Sooner(walk, j))
    <3>1. Sooner(walk, j) \subseteq 1..MaxBlocks
        BY <1>1 DEF Sooner
    <3>2. QED  BY <2>2, <3>1, FS_Subset
  <2>4. QED  BY <2>3, FS_CardinalityType DEF Round
<1>7. \A j \in before : Round(walk, j) = 0 /\ \E l \in Others : InBucket(walk, j, l)
  <2>1. SUFFICES ASSUME NEW j \in before PROVE Round(walk, j) = 0 /\ \E l \in Others : InBucket(walk, j, l)
      OBVIOUS
  <2>2. Round(walk, j) = 0 /\ InBucketBefore(walk, j, i)
      BY <1>5, <1>6
  <2>3. PICK l, m \in Keywords : l < m /\ InBucket(walk, j, l) /\ InBucket(walk, i, m)
      BY <2>2 DEF InBucketBefore
  <2>4. m = k
      BY <1>2, <1>3, <2>3
  <2>5. QED  BY <1>1, <2>2, <2>3, <2>4
\* One block of every bucket is in round 0
<1>8. ASSUME NEW j \in before, NEW m \in before, NEW l \in Others, InBucket(walk, j, l), InBucket(walk, m, l)
      PROVE  j = m
  <2>1. \A a, b \in before : InBucket(walk, a, l) /\ InBucket(walk, b, l) => ~(a < b)
    <3>1. SUFFICES ASSUME NEW a \in before, NEW b \in before, InBucket(walk, a, l), InBucket(walk, b, l), a < b
                   PROVE  FALSE
        OBVIOUS
    <3>2. a \in Sooner(walk, b)
        BY <3>1 DEF Sooner
    <3>3. Cardinality(Sooner(walk, b)) = 0 /\ IsFiniteSet(Sooner(walk, b))
        BY <1>6, <1>7 DEF Round
    <3>4. QED  BY <3>2, <3>3, FS_EmptySet
  <2>2. j \in Nat /\ m \in Nat
      BY <1>1
  <2>3. ~(j < m) /\ ~(m < j)
      BY <1>8, <2>1
  <2>4. QED  BY <2>2, <2>3
<1> DEFINE f == [j \in before |-> CHOOSE l \in Others : InBucket(walk, j, l)]
<1> HIDE DEF before, Others
<1>9. \A j \in before : f[j] \in Others /\ InBucket(walk, j, f[j])
    BY <1>7
<1>10. f \in Injection(before, Others)
  <2>1. f \in [before -> Others]
      BY <1>9
  <2>2. \A j, m \in before : f[j] = f[m] => j = m
      BY <1>8, <1>9
  <2> HIDE DEF f
  <2>3. QED  BY <2>1, <2>2 DEF Injection, IsInjective
<1>11. IsFiniteSet(Others) /\ Cardinality(Others) = Cardinality(Keywords) - 1
    BY GroundingAssumption, FS_RemoveElement DEF Others
<1>12. IsFiniteSet(before) /\ Cardinality(before) <= Cardinality(Others)
    BY <1>10, <1>11, FS_Injection
<1>13. Cardinality(before) < MaxSnippets
  <2>1. Cardinality(before) \in Nat /\ Cardinality(Others) \in Nat /\ Cardinality(Keywords) \in Nat
      BY <1>11, <1>12, GroundingAssumption, FS_CardinalityType
  <2>2. QED  BY <1>11, <1>12, <2>1, GroundingAssumption
<1>14. i \in Kept(walk) /\ InBucket(walk, i, k)
    BY <1>2
<1>15. i \in Snippets(walk)
    BY <1>13, <1>14 DEF Snippets, before
<1>16. QED  BY <1>14, <1>15

LEMMA PromptServes ==
    ASSUME NEW p \in Prompts
    PROVE  p.served = p.buckets /\ p.own \subseteq p.text
<1>1. PICK walk \in Walks : p = Prompt(walk)
    BY DEF Prompts
<1>2. p.served = p.buckets
  <2>1. Snippets(walk) \subseteq Kept(walk)
      BY DEF Snippets
  <2>2. QED  BY <1>1, <2>1, FirstBlockShown DEF Prompt, BucketsOf
<1>3. ASSUME NEW k \in p.own PROVE k \in p.text
  <2>1. /\ k \in Keywords /\ \E i \in Kept(walk) : k \in walk[i].whole
        /\ \A i \in Kept(walk) : k \in walk[i].whole => k \in walk[i].cut /\ InBucket(walk, i, k)
      BY <1>1, <1>3 DEF Prompt, OwnKeywords
  <2>2. PICK i \in Snippets(walk) : InBucket(walk, i, k)
      BY <2>1, FirstBlockShown
  <2>3. k \in walk[i].cut
      BY <2>1, <2>2 DEF InBucket
  <2>4. k \in UNION {walk[j].cut : j \in Snippets(walk)}
      BY <2>2, <2>3
  <2>5. QED  BY <1>1, <2>4 DEF Prompt
<1>4. QED  BY <1>2, <1>3

LEMMA StarvedStep == Typed /\ NoKeywordStarved /\ [Next]_vars => NoKeywordStarved'
<1> SUFFICES ASSUME Typed, NoKeywordStarved, [Next]_vars PROVE NoKeywordStarved'
    OBVIOUS
<1>1. ASSUME NEW t \in Threads, Extract(t) PROVE NoKeywordStarved'
  <2>1. PICK p \in Prompts : evidence' = [evidence EXCEPT ![t] = Found(t, p)]
      BY <1>1 DEF Extract, Found
  <2>2. Found(t, p) # NoEvidence => /\ Found(t, p).prompt.served = Found(t, p).prompt.buckets
                                    /\ Found(t, p).prompt.own \subseteq Found(t, p).prompt.text
      BY PromptServes DEF Found
  <2>3. \A u \in Threads : evidence'[u] = IF u = t THEN Found(t, p) ELSE evidence[u]
      BY <2>1 DEF Typed, TypeOK
  <2>4. QED  BY <2>2, <2>3 DEF NoKeywordStarved
<1>2. CASE \A t \in Threads : evidence'[t] \in {evidence[t], NoEvidence}
    BY <1>2 DEF NoKeywordStarved
<1>3. CASE Publish \/ UNCHANGED vars
    BY <1>2, <1>3 DEF Publish, vars
<1>4. CASE Crash
    BY <1>2, <1>4 DEF Crash
<1>5. ASSUME NEW t \in Threads, Ask(t) PROVE NoKeywordStarved'
    BY <1>2, <1>5 DEF Ask, Typed, TypeOK
<1>6. ASSUME NEW t \in Threads, Begin(t) \/ ProbeFails(t) \/ Probe(t) \/ Fetch(t) PROVE NoKeywordStarved'
  <2>1. UNCHANGED evidence
      BY <1>6 DEF Begin, ProbeFails, Probe, Fetch, Hit, Miss, Resolve, Move, Installed, PipFails, Cleanup, GiveUp
  <2>2. QED  BY <1>2, <2>1
<1>7. QED  BY <1>1, <1>3, <1>4, <1>5, <1>6 DEF Next, Step

(* NoKeywordStarved for every number of keywords up to max_snippets and    *)
(* every sequence of class blocks, whichever keywords they match and       *)
(* truncation leaves: the first round shows one block of each bucket, so   *)
(* a keyword of its own classes is in the text (extract_schema_snippets).  *)
THEOREM RareKeywordsShown == Spec => []NoKeywordStarved
<1>1. Init => NoKeywordStarved
    BY DEF Init, NoKeywordStarved
<1>2. QED  BY <1>1, StarvedStep, Types, PTL DEF Spec
-----------------------------------------------------------------------------
(* Whole packages: a directory without trouble has one thread at a time,   *)
(* and what that thread finds there is nothing or one whole version        *)

Busy == {"moving", "cleanup", "giveup"}

Whole(f) == \E v \in Versions : \A i \in Items : f[i] = v
Settled(f) == f = Nothing \/ Whole(f)

\* pip, halfway through an install into an empty directory
Half(f, v, rest) ==
    v \in Versions /\ \A i \in Items : f[i] = IF i \in rest THEN Absent ELSE v

Exclusive ==
    \A t, u \in Threads : Using(t, target[u]) /\ Using(u, target[u]) /\ target[u] \notin trouble => t = u

Orderly ==
    \A d \in Dirs \ trouble :
       /\ (\A t \in Threads : ~(target[t] = d /\ pc[t] \in Busy)) => Settled(dir[d])
       /\ \A t \in Threads : target[t] = d /\ pc[t] = "moving" =>
              Whole(dir[d]) \/ Half(dir[d], version[t], left[t])

Tidy == Exclusive /\ Orderly /\ WholeUntilTrouble

LEMMA TidyInit == Init => Tidy
BY DEF Init, Tidy, Exclusive, Using, Orderly, Settled, WholeUntilTrouble

\* Threads that only stop using directories do not come into each other's way
LEMMA ExclusiveFrame ==
    ASSUME Exclusive, trouble \subseteq trouble',
           \A t \in Threads : Using(t, target[t])' => Using(t, target[t]) /\ target'[t] = target[t]
    PROVE  Exclusive'
BY DEF Exclusive, Using

\* A thread that starts to use its directory alone, or reports the trouble
LEMMA ExclusiveEnter ==
    ASSUME Exclusive, NEW t \in Threads, Enter(t), UNCHANGED target,
           \A u \in Threads \ {t} : pc'[u] = pc[u]
    PROVE  Exclusive'
BY DEF Exclusive, Enter, Using

LEMMA ExclusiveStep == Typed /\ Exclusive /\ [Next]_vars => Exclusive'
<1> SUFFICES ASSUME Typed, Exclusive, [Next]_vars PROVE Exclusive'
    OBVIOUS
<1> USE DEF Typed, TypeOK
<1>1. CASE UNCHANGED vars
    BY <1>1 DEF vars, attempt, Exclusive, Using
<1>2. CASE Publish
    BY <1>2 DEF Publish, attempt, Exclusive, Using
<1>3. CASE Crash
    BY <1>3 DEF Crash, Exclusive, Using
<1>4. ASSUME NEW t \in Threads, Begin(t) PROVE Exclusive'
    BY <1>4, ExclusiveFrame DEF Begin, Goto, attempt, Using
<1>5. ASSUME NEW t \in Threads, ProbeFails(t) PROVE Exclusive'
    BY <1>5, ExclusiveFrame DEF ProbeFails, Tell, Goto, attempt, Using
<1>6. ASSUME NEW t \in Threads, Probe(t) PROVE Exclusive'
    BY <1>6, ExclusiveFrame DEF Probe, Goto, Using
<1>7. ASSUME NEW t \in Threads, Hit(t) PROVE Exclusive'
    BY <1>7, ExclusiveEnter DEF Hit, Goto, attempt
<1>8. ASSUME NEW t \in Threads, Miss(t) PROVE Exclusive'
    BY <1>8, ExclusiveFrame DEF Miss, Goto, attempt, Using
<1>9. ASSUME NEW t \in Threads, Resolve(t) PROVE Exclusive'
    BY <1>9, ExclusiveEnter DEF Resolve, Goto
<1>10. ASSUME NEW t \in Threads, Move(t) PROVE Exclusive'
    BY <1>10 DEF Move, Exclusive, Using
<1>11. ASSUME NEW t \in Threads, Installed(t) PROVE Exclusive'
    BY <1>11, ExclusiveFrame DEF Installed, Goto, Using
<1>12. ASSUME NEW t \in Threads, PipFails(t) PROVE Exclusive'
    BY <1>12, ExclusiveEnter DEF PipFails, Goto
<1>13. ASSUME NEW t \in Threads, Cleanup(t) PROVE Exclusive'
    BY <1>13, ExclusiveFrame DEF Cleanup, NextAttempt, Tell, Goto, Using
<1>14. ASSUME NEW t \in Threads, GiveUp(t) PROVE Exclusive'
    BY <1>14, ExclusiveFrame DEF GiveUp, Tell, Goto, attempt, Using
<1>15. ASSUME NEW t \in Threads, Extract(t) PROVE Exclusive'
    BY <1>15, ExclusiveFrame DEF Extract, Tell, Goto, attempt, Using
<1>16. ASSUME NEW t \in Threads, Ask(t) PROVE Exclusive'
    BY <1>16, ExclusiveFrame DEF Ask, Goto, Using
<1>17. QED
    BY <1>1, <1>2, <1>3, <1>4, <1>5, <1>6, <1>7, <1>8, <1>9, <1>10, <1>11, <1>12, <1>13, <1>14, <1>15, <1>16
       DEF Next, Step, Fetch

\* Steps that neither touch a directory nor begin or end an install
LEMMA OrderlyFrame ==
    ASSUME Orderly, trouble \subseteq trouble', UNCHANGED dir,
           \A t \in Threads : pc[t] \in Busy =>
               pc'[t] = pc[t] /\ target'[t] = target[t] /\ version'[t] = version[t] /\ left'[t] = left[t],
           \A t \in Threads : pc'[t] \in Busy => pc[t] \in Busy
    PROVE  Orderly'
<1> SUFFICES ASSUME NEW d \in Dirs \ trouble'
             PROVE  /\ (\A t \in Threads : ~(target'[t] = d /\ pc'[t] \in Busy)) => Settled(dir[d])
                    /\ \A t \in Threads : target'[t] = d /\ pc'[t] = "moving" =>
                           Whole(dir[d]) \/ Half(dir[d], version'[t], left'[t])
    BY DEF Orderly, Settled, Whole, Half, Nothing
<1>1. d \in Dirs \ trouble
    OBVIOUS
<1>2. QED  BY <1>1 DEF Orderly, Busy

\* Steps of one thread in its directory
LEMMA OrderlyLocal ==
    ASSUME Orderly, NEW t \in Threads, trouble \subseteq trouble',
           \A u \in Threads \ {t} : /\ pc'[u] = pc[u] /\ target'[u] = target[u]
                                    /\ version'[u] = version[u] /\ left'[u] = left[u],
           \A d \in Dirs \ {target[t]} : dir'[d] = dir[d],
           target'[t] = target[t] \/ pc'[t] \notin Busy,
           target[t] \notin trouble' =>
              /\ \A u \in Threads \ {t} : ~(target[u] = target[t] /\ pc[u] \in Busy)
              /\ pc'[t] \notin Busy => Settled(dir'[target[t]])
              /\ pc'[t] = "moving" =>
                    Whole(dir'[target[t]]) \/ Half(dir'[target[t]], version'[t], left'[t])
    PROVE  Orderly'
<1> SUFFICES ASSUME NEW d \in Dirs \ trouble'
             PROVE  /\ (\A u \in Threads : ~(target'[u] = d /\ pc'[u] \in Busy)) => Settled(dir'[d])
                    /\ \A u \in Threads : target'[u] = d /\ pc'[u] = "moving" =>
                           Whole(dir'[d]) \/ Half(dir'[d], version'[u], left'[u])
    BY DEF Orderly, Settled, Whole, Half, Nothing
<1>1. CASE d = target[t]
  <2>1. ASSUME NEW u \in Threads, target'[u] = d, pc'[u] = "moving"
        PROVE  Whole(dir'[d]) \/ Half(dir'[d], version'[u], left'[u])
      BY <1>1, <2>1 DEF Busy
  <2>2. ASSUME \A u \in Threads : ~(target'[u] = d /\ pc'[u] \in Busy) PROVE Settled(dir'[d])
      BY <1>1, <2>2
  <2>3. QED  BY <2>1, <2>2
<1>2. CASE d # target[t]
  <2>1. dir'[d] = dir[d] /\ d \in Dirs \ trouble
      BY <1>2
  <2>2. \A u \in Threads : target'[u] = d /\ pc'[u] \in Busy <=> target[u] = d /\ pc[u] \in Busy
      BY <1>2
  <2>3. \A u \in Threads : target'[u] = d /\ pc'[u] = "moving" =>
           u # t /\ target[u] = d /\ pc[u] = "moving" /\ version'[u] = version[u] /\ left'[u] = left[u]
      BY <1>2 DEF Busy
  <2>4. QED  BY <2>1, <2>2, <2>3 DEF Orderly
<1>3. QED  BY <1>1, <1>2

\* Nobody else is in the directory of a thread that uses it
LEMMA Alone ==
    ASSUME Exclusive, NEW t \in Threads, Using(t, target[t]), target[t] \notin trouble
    PROVE  \A u \in Threads \ {t} : ~(target[u] = target[t] /\ pc[u] \in Busy)
BY DEF Exclusive, Using, Busy

LEMMA AloneEnter ==
    ASSUME NEW t \in Threads, Enter(t), target[t] \notin trouble'
    PROVE  \A u \in Threads \ {t} : ~(target[u] = target[t] /\ pc[u] \in Busy)
BY DEF Enter, Using, Busy

\* pip moves one item
LEMMA MoveKeeps ==
    ASSUME NEW f \in [Items -> Versions \cup {Absent}], NEW v, NEW rest, NEW i \in Items,
           Whole(f) \/ Half(f, v, rest)
    PROVE  LET g == [f EXCEPT ![i] = IF @ = Absent THEN v ELSE @]
           IN  Whole(g) \/ Half(g, v, rest \ {i})
<1> DEFINE g == [f EXCEPT ![i] = IF @ = Absent THEN v ELSE @]
<1>1. Absent \notin Versions
    BY GroundingAssumption DEF Versions
<1>2. CASE Whole(f)
    BY <1>1, <1>2 DEF Whole
<1>3. CASE Half(f, v, rest)
  <2>1. \A j \in Items : g[j] = IF j \in rest \ {i} THEN Absent ELSE v
      BY <1>1, <1>3 DEF Half
  <2>2. QED  BY <1>3, <2>1 DEF Half
<1>4. QED  BY <1>2, <1>3

LEMMA OrderlyStep == Typed /\ Exclusive /\ Orderly /\ [Next]_vars => Orderly'
<1> SUFFICES ASSUME Typed, Exclusive, Orderly, [Next]_vars PROVE Orderly'
    OBVIOUS
<1> USE DEF Typed, TypeOK
<1>1. CASE UNCHANGED vars
    BY <1>1, OrderlyFrame DEF vars, attempt
<1>2. CASE Publish
    BY <1>2, OrderlyFrame DEF Publish, attempt
<1>3. CASE Crash
  <2>1. ASSUME NEW d \in Dirs \ trouble'
        PROVE  \A t \in Threads : ~(target[t] = d /\ pc[t] \in Busy)
      BY <1>3 DEF Crash, Busy
  <2>2. trouble \subseteq trouble'
      BY <1>3 DEF Crash
  <2>3. \A d \in Dirs \ trouble' : Settled(dir[d])
      BY <2>1, <2>2 DEF Orderly
  <2>4. QED  BY <1>3, <2>3 DEF Crash, Orderly, Settled, Whole, Nothing
<1>4. ASSUME NEW t \in Threads, Begin(t) PROVE Orderly'
    BY <1>4, OrderlyFrame DEF Begin, Goto, attempt, Busy
<1>5. ASSUME NEW t \in Threads, ProbeFails(t) PROVE Orderly'
    BY <1>5, OrderlyFrame DEF ProbeFails, Tell, Goto, attempt, Busy
<1>6. ASSUME NEW t \in Threads, Probe(t) PROVE Orderly'
    BY <1>6, OrderlyFrame DEF Probe, Goto, Busy
<1>7. ASSUME NEW t \in Threads, Hit(t) PROVE Orderly'
    BY <1>7, OrderlyFrame DEF Hit, Enter, Goto, attempt, Busy
<1>8. ASSUME NEW t \in Threads, Miss(t) PROVE Orderly'
    BY <1>8, OrderlyFrame DEF Miss, Goto, attempt, Busy
<1>9. ASSUME NEW t \in Threads, Resolve(t) PROVE Orderly'
  <2>1. ASSUME target[t] \notin trouble'
        PROVE  Whole(dir'[target[t]]) \/ Half(dir'[target[t]], version'[t], left'[t])
    <3>1. target[t] \in Dirs \ trouble
        BY <1>9, <2>1 DEF Resolve, Enter
    <3>2. \A u \in Threads : ~(target[u] = target[t] /\ pc[u] \in Busy)
        BY <1>9, <2>1, AloneEnter DEF Resolve, Busy
    <3>3. Settled(dir[target[t]])
        BY <3>1, <3>2 DEF Orderly
    <3>4. left'[t] = Items /\ dir' = dir
        BY <1>9 DEF Resolve
    <3>5. version'[t] \in Versions
      <4>1. (IF target[t] = Latest THEN newest ELSE target[t]) \in Versions
          BY <1>9, GroundingAssumption DEF Resolve, Dirs, Versions
      <4>2. QED  BY <1>9, <4>1 DEF Resolve
    <3>6. QED  BY <3>3, <3>4, <3>5 DEF Settled, Half, Nothing
  <2>2. trouble \subseteq trouble' /\ pc'[t] = "moving" /\ UNCHANGED <<target, dir>>
      BY <1>9 DEF Resolve, Enter, Goto
  <2>3. \A u \in Threads \ {t} : pc'[u] = pc[u] /\ version'[u] = version[u] /\ left'[u] = left[u]
      BY <1>9 DEF Resolve, Goto
  <2>4. target[t] \notin trouble' => \A u \in Threads \ {t} : ~(target[u] = target[t] /\ pc[u] \in Busy)
      BY <1>9, AloneEnter DEF Resolve
  <2>5. QED  BY <2>1, <2>2, <2>3, <2>4, OrderlyLocal DEF Busy
<1>10. ASSUME NEW t \in Threads, Move(t) PROVE Orderly'
  <2>1. PICK i \in left[t] :
           /\ left' = [left EXCEPT ![t] = @ \ {i}]
           /\ dir' = [dir EXCEPT ![target[t]][i] = IF @ = Absent THEN version[t] ELSE @]
      BY <1>10 DEF Move
  <2>2. UNCHANGED <<pc, target, version, trouble>> /\ pc[t] = "moving"
      BY <1>10 DEF Move
  <2>3. i \in Items /\ target[t] \in Dirs /\ dir[target[t]] \in [Items -> Versions \cup {Absent}]
      OBVIOUS
  <2>4. dir'[target[t]] = [dir[target[t]] EXCEPT ![i] = IF @ = Absent THEN version[t] ELSE @]
      BY <2>1, <2>3
  <2>5. left'[t] = left[t] \ {i}
      BY <2>1
  <2>6. ASSUME target[t] \notin trouble
        PROVE  Whole(dir'[target[t]]) \/ Half(dir'[target[t]], version'[t], left'[t])
    <3>1. Whole(dir[target[t]]) \/ Half(dir[target[t]], version[t], left[t])
        BY <2>2, <2>3, <2>6 DEF Orderly
    <3> DEFINE f == dir[target[t]]
                g == [f EXCEPT ![i] = IF @ = Absent THEN version[t] ELSE @]
    <3>2. Whole(g) \/ Half(g, version[t], left[t] \ {i})
      <4>1. f \in [Items -> Versions \cup {Absent}] /\ i \in Items
          BY <2>3
      <4>2. Whole(f) \/ Half(f, version[t], left[t])
          BY <3>1
      <4> HIDE DEF f
      <4>3. QED  BY <4>1, <4>2, MoveKeeps
    <3>3. QED  BY <2>2, <2>4, <2>5, <3>2
  <2>7. target[t] \notin trouble => \A u \in Threads \ {t} : ~(target[u] = target[t] /\ pc[u] \in Busy)
      BY <2>2, Alone DEF Using
  <2>8. \A d \in Dirs \ {target[t]} : dir'[d] = dir[d]
      BY <2>1
  <2>9. \A u \in Threads \ {t} : left'[u] = left[u]
      BY <2>1
  <2>10. QED  BY <2>2, <2>6, <2>7, <2>8, <2>9, OrderlyLocal DEF Busy
<1>11. ASSUME NEW t \in Threads, Installed(t) PROVE Orderly'
  <2>1. /\ pc[t] = "moving" /\ left[t] = {} /\ UNCHANGED <<target, dir, trouble>>
        /\ pc'[t] = "cleanup" \/ (pc'[t] = "extract" /\ dir[target[t]] # Nothing)
      BY <1>11 DEF Installed, Goto
  <2>2. \A u \in Threads \ {t} : pc'[u] = pc[u] /\ version'[u] = version[u] /\ left'[u] = left[u]
      BY <1>11 DEF Installed, PipGone, Goto
  <2>3. target[t] \notin trouble => Whole(dir[target[t]])
      BY <2>1 DEF Orderly, Half, Whole
  <2>4. target[t] \notin trouble => \A u \in Threads \ {t} : ~(target[u] = target[t] /\ pc[u] \in Busy)
      BY <2>1, Alone DEF Using
  <2>5. target[t] \notin trouble' => Settled(dir'[target[t]])
      BY <2>1, <2>3 DEF Settled
  <2>6. QED  BY <2>1, <2>2, <2>4, <2>5, OrderlyLocal DEF Busy
<1>12. ASSUME NEW t \in Threads, PipFails(t) PROVE Orderly'
  <2>1. /\ UNCHANGED <<target, dir>> /\ trouble \subseteq trouble'
        /\ pc'[t] \in {"cleanup", "giveup"}
      BY <1>12 DEF PipFails, Enter, Goto
  <2>2. \A u \in Threads \ {t} : pc'[u] = pc[u] /\ version'[u] = version[u] /\ left'[u] = left[u]
      BY <1>12 DEF PipFails, PipGone, Goto
  <2>3. target[t] \notin trouble' => \A u \in Threads \ {t} : ~(target[u] = target[t] /\ pc[u] \in Busy)
      BY <1>12, AloneEnter DEF PipFails
  <2>4. QED  BY <2>1, <2>2, <2>3, OrderlyLocal DEF Busy
<1>13. ASSUME NEW t \in Threads, Cleanup(t) PROVE Orderly'
  <2>1. pc[t] = "cleanup" /\ pc'[t] \in {"ask", "fetch"} /\ UNCHANGED <<version, left, trouble>>
      BY <1>13 DEF Cleanup, NextAttempt, Tell, Goto
  <2>2. \A u \in Threads \ {t} : pc'[u] = pc[u] /\ target'[u] = target[u]
      BY <1>13 DEF Cleanup, NextAttempt, Tell, Goto
  <2>3. dir'[target[t]] = Nothing /\ \A d \in Dirs \ {target[t]} : dir'[d] = dir[d]
      BY <1>13 DEF Cleanup
  <2>4. target[t] \notin trouble => \A u \in Threads \ {t} : ~(target[u] = target[t] /\ pc[u] \in Busy)
      BY <2>1, Alone DEF Using
  <2>5. Settled(dir'[target[t]]) /\ pc'[t] \notin Busy /\ pc'[t] # "moving"
      BY <2>1, <2>3 DEF Busy, Settled
  <2>6. /\ trouble \subseteq trouble'
        /\ \A u \in Threads \ {t} : version'[u] = version[u] /\ left'[u] = left[u]
      BY <2>1
  <2>7. QED  BY <2>1, <2>2, <2>3, <2>4, <2>5, <2>6, OrderlyLocal
<1>14. ASSUME NEW t \in Threads, GiveUp(t) PROVE Orderly'
  <2>1. pc[t] = "giveup" /\ pc'[t] = "ask" /\ UNCHANGED <<target, version, left, trouble>>
      BY <1>14 DEF GiveUp, Tell, Goto, attempt
  <2>2. \A u \in Threads \ {t} : pc'[u] = pc[u]
      BY <1>14 DEF GiveUp, Tell, Goto
  <2>3. dir'[target[t]] = Nothing /\ \A d \in Dirs \ {target[t]} : dir'[d] = dir[d]
      BY <1>14 DEF GiveUp
  <2>4. target[t] \notin trouble => \A u \in Threads \ {t} : ~(target[u] = target[t] /\ pc[u] \in Busy)
      BY <2>1, Alone DEF Using
  <2>5. QED  BY <2>1, <2>2, <2>3, <2>4, OrderlyLocal DEF Busy, Settled
<1>15. ASSUME NEW t \in Threads, Extract(t) PROVE Orderly'
    BY <1>15, OrderlyFrame DEF Extract, Tell, Goto, attempt, Busy
<1>16. ASSUME NEW t \in Threads, Ask(t) PROVE Orderly'
    BY <1>16, OrderlyFrame DEF Ask, Goto, Busy
<1>17. QED
    BY <1>1, <1>2, <1>3, <1>4, <1>5, <1>6, <1>7, <1>8, <1>9, <1>10, <1>11, <1>12, <1>13, <1>14, <1>15, <1>16
       DEF Next, Step, Fetch

LEMMA WholeStep == Typed /\ Tidy /\ [Next]_vars => WholeUntilTrouble'
<1> SUFFICES ASSUME Typed, Tidy, [Next]_vars PROVE WholeUntilTrouble'
    OBVIOUS
<1> USE DEF Tidy
<1>1. ASSUME NEW t \in Threads, Extract(t) PROVE WholeUntilTrouble'
  <2>1. PICK p \in Prompts : evidence' = [evidence EXCEPT ![t] = Found(t, p)]
      BY <1>1 DEF Extract, Found
  <2>2. pc[t] = "extract" /\ UNCHANGED trouble
      BY <1>1 DEF Extract
  <2>3. ASSUME target[t] \notin trouble, dir[target[t]] # Nothing PROVE Whole(dir[target[t]])
    <3>1. \A u \in Threads : ~(target[u] = target[t] /\ pc[u] \in Busy)
        BY <2>2, <2>3, Alone DEF Using, Busy
    <3>2. target[t] \in Dirs \ trouble
        BY <2>3 DEF Typed, TypeOK
    <3>3. QED  BY <2>3, <3>1, <3>2 DEF Orderly, Settled
  <2>4. Found(t, p) # NoEvidence =>
           /\ Found(t, p).dir = target[t] /\ Found(t, p).items = dir[target[t]]
           /\ dir[target[t]] # Nothing
      BY DEF Found
  <2>5. \A u \in Threads : evidence'[u] = IF u = t THEN Found(t, p) ELSE evidence[u]
      BY <2>1 DEF Typed, TypeOK
  <2>6. QED  BY <2>2, <2>3, <2>4, <2>5 DEF WholeUntilTrouble, Whole
<1>2. CASE trouble \subseteq trouble' /\ \A t \in Threads : evidence'[t] \in {evidence[t], NoEvidence}
    BY <1>2 DEF WholeUntilTrouble
<1>3. CASE Publish \/ UNCHANGED vars
    BY <1>2, <1>3 DEF Publish, vars
<1>4. CASE Crash
    BY <1>2, <1>4 DEF Crash
<1>5. ASSUME NEW t \in Threads, Ask(t) PROVE WholeUntilTrouble'
    BY <1>2, <1>5 DEF Ask, Typed, TypeOK
<1>6. ASSUME NEW t \in Threads, Begin(t) \/ ProbeFails(t) \/ Probe(t) \/ Fetch(t) PROVE WholeUntilTrouble'
  <2>1. UNCHANGED evidence
      BY <1>6 DEF Begin, ProbeFails, Probe, Fetch, Hit, Miss, Resolve, Move, Installed, PipFails, Cleanup, GiveUp
  <2>2. trouble \subseteq trouble'
      BY <1>6 DEF Begin, ProbeFails, Probe, Fetch, Hit, Miss, Resolve, Move, Installed, PipFails, Cleanup, GiveUp, Enter
  <2>3. QED  BY <1>2, <2>1, <2>2
<1>7. QED  BY <1>1, <1>3, <1>4, <1>5, <1>6 DEF Next, Step

(* WholeUntilTrouble for every instance: as long as one thread at a time   *)
(* used a directory and no server died installing into it, evidence is a   *)
(* whole package of one version, although a failed or killed install       *)
(* leaves a part of one (_install_into removes it) and a second install    *)
(* skips what it finds (fetch_sdk).                                        *)
THEOREM EvidenceWhole == Spec => []WholeUntilTrouble
<1>1. Typed /\ Tidy /\ [Next]_vars => Tidy'
    BY ExclusiveStep, OrderlyStep, WholeStep DEF Tidy
<1>2. Tidy => WholeUntilTrouble
    BY DEF Tidy
<1>3. QED  BY <1>1, <1>2, TidyInit, Types, PTL DEF Spec
-----------------------------------------------------------------------------
(* A grounding cannot go on for ever                                       *)

Size == Cardinality(Items)

\* How much of a grounding is ahead of a thread at a label, with n items to move.
\* A pin has an attempt more before it, and moving starts with all the items.
Attempt(label, n) ==
    CASE label = "fetch" -> Size + 6  [] label = "pip" -> Size + 5
      [] label = "moving" -> n + 4    [] label = "cleanup" -> 3  [] OTHER -> 0

Trying == {"fetch", "pip", "moving", "cleanup"}

Ahead(label, d, n) ==
    IF label \in Trying THEN Attempt(label, n) + (IF d = Latest THEN 0 ELSE Size + 4)
    ELSE IF label = "probe" THEN 2 * Size + 11
    ELSE IF label \in {"extract", "giveup"} THEN 2
    ELSE IF label = "ask" THEN 1 ELSE 0

Rank(t) == Ahead(pc[t], target[t], Cardinality(left[t]))

LEMMA AheadNat ==
    ASSUME NEW label, NEW d, NEW n \in Nat
    PROVE  Ahead(label, d, n) \in Nat
<1>1. Size \in Nat
    BY GroundingAssumption, FS_CardinalityType DEF Size
<1>2. QED  BY <1>1 DEF Ahead, Trying, Attempt

LEMMA LeftFinite ==
    ASSUME Typed, NEW t \in Threads
    PROVE  /\ IsFiniteSet(left[t]) /\ Cardinality(left[t]) \in Nat
           /\ Size \in Nat /\ Cardinality(Items) = Size
<1>1. left[t] \subseteq Items
    BY DEF Typed, TypeOK
<1>2. QED  BY <1>1, GroundingAssumption, FS_Subset, FS_CardinalityType DEF Size

\* What others do leaves a thread where it is
LEMMA RankKept ==
    ASSUME NEW t \in Threads, pc'[t] = pc[t], target'[t] = target[t], left'[t] = left[t]
    PROVE  Rank(t)' = Rank(t)
    BY DEF Rank, Ahead, Attempt, Size

\* A thread's own step goes ahead, the second attempt included
LEMMA StepAhead ==
    ASSUME Typed, Typed', NEW t \in Threads, Step(t)
    PROVE  Rank(t)' < Rank(t)
<1> DEFINE n == Cardinality(left[t])
           m == Cardinality(left'[t])
<1>1. n \in Nat /\ Size \in Nat /\ Cardinality(Items) = Size /\ IsFiniteSet(left[t])
    BY LeftFinite
<1>2. m \in Nat
  <2>1. left'[t] \subseteq Items
      BY DEF Typed, TypeOK
  <2>2. QED  BY <2>1, GroundingAssumption, FS_Subset, FS_CardinalityType
<1>3. Rank(t) = Ahead(pc[t], target[t], n) /\ Rank(t)' = Ahead(pc'[t], target'[t], m)
    BY DEF Rank, Ahead, Attempt, Size
<1>4. pc \in [Threads -> Pc] /\ target \in [Threads -> Dirs] /\ left \in [Threads -> SUBSET Items]
    BY DEF Typed, TypeOK
<1> HIDE DEF n, m
<1>5. CASE ProbeFails(t) \/ GiveUp(t) \/ Extract(t)
  <2>1. pc'[t] = "ask" /\ pc[t] \in {"probe", "giveup", "extract"}
      BY <1>4, <1>5 DEF ProbeFails, GiveUp, Extract, Tell, Goto
  <2>2. QED  BY <1>1, <1>2, <1>3, <2>1 DEF Ahead, Trying
<1>6. CASE Ask(t)
  <2>1. pc'[t] = "idle" /\ pc[t] = "ask"
      BY <1>4, <1>6 DEF Ask, Goto
  <2>2. QED  BY <1>3, <2>1 DEF Ahead, Trying
<1>7. CASE Probe(t)
  <2>1. pc'[t] = "fetch" /\ pc[t] = "probe"
      BY <1>4, <1>7 DEF Probe, Goto
  <2>2. QED  BY <1>1, <1>2, <1>3, <2>1 DEF Ahead, Trying, Attempt
<1>8. CASE Hit(t)
  <2>1. pc'[t] = "extract" /\ pc[t] = "fetch"
      BY <1>4, <1>8 DEF Hit, Goto
  <2>2. QED  BY <1>1, <1>2, <1>3, <2>1 DEF Ahead, Trying, Attempt
<1>9. CASE Miss(t)
  <2>1. pc'[t] = "pip" /\ pc[t] = "fetch" /\ target'[t] = target[t]
      BY <1>4, <1>9 DEF Miss, Goto, attempt
  <2>2. QED  BY <1>1, <1>2, <1>3, <2>1 DEF Ahead, Trying, Attempt
<1>10. CASE Resolve(t)
  <2>1. pc'[t] = "moving" /\ pc[t] = "pip" /\ target'[t] = target[t] /\ left'[t] = Items
      BY <1>4, <1>10 DEF Resolve, Goto
  <2>2. m = Size
      BY <1>1, <2>1 DEF m
  <2>3. QED  BY <1>1, <1>2, <1>3, <2>1, <2>2 DEF Ahead, Trying, Attempt
<1>11. CASE Move(t)
  <2>1. PICK i \in left[t] : left'[t] = left[t] \ {i}
      BY <1>4, <1>11 DEF Move
  <2>2. Cardinality(left[t] \ {i}) = Cardinality(left[t]) - 1
      BY <1>1, <2>1, FS_RemoveElement
  <2>3. m = n - 1
      BY <2>1, <2>2 DEF m, n
  <2>4. pc'[t] = pc[t] /\ pc[t] = "moving" /\ target'[t] = target[t]
      BY <1>11 DEF Move
  <2>5. QED  BY <1>1, <1>2, <1>3, <2>3, <2>4 DEF Ahead, Trying, Attempt
<1>12. CASE Installed(t)
  <2>1. pc'[t] \in {"cleanup", "extract"} /\ pc[t] = "moving" /\ target'[t] = target[t]
      BY <1>4, <1>12 DEF Installed, Goto
  <2>2. QED  BY <1>1, <1>2, <1>3, <2>1 DEF Ahead, Trying, Attempt
<1>13. CASE PipFails(t)
  <2>1. /\ pc'[t] \in {"cleanup", "giveup"} /\ pc[t] \in {"pip", "moving"}
        /\ target'[t] = target[t]
      BY <1>4, <1>13 DEF PipFails, Goto
  <2>2. QED  BY <1>1, <1>2, <1>3, <2>1 DEF Ahead, Trying, Attempt
<1>14. CASE Cleanup(t)
  <2>1. pc[t] = "cleanup"
      BY <1>14 DEF Cleanup
  <2>2. CASE target[t] = Latest
    <3>1. pc'[t] = "ask"
        BY <1>4, <1>14, <2>2 DEF Cleanup, NextAttempt, Tell, Goto
    <3>2. QED  BY <1>1, <1>2, <1>3, <2>1, <3>1 DEF Ahead, Trying, Attempt
  <2>3. CASE target[t] # Latest
    <3>1. pc'[t] = "fetch" /\ target'[t] = Latest
        BY <1>4, <1>14, <2>3 DEF Cleanup, NextAttempt, Goto
    <3>2. QED  BY <1>1, <1>2, <1>3, <2>1, <2>3, <3>1 DEF Ahead, Trying, Attempt
  <2>4. QED  BY <2>2, <2>3
<1>15. QED  BY <1>5, <1>6, <1>7, <1>8, <1>9, <1>10, <1>11, <1>12, <1>13, <1>14 DEF Step, Fetch

\* A step of a thread concerns no other
LEMMA OthersStay ==
    ASSUME Typed, NEW u \in Threads, Begin(u) \/ Step(u), NEW t \in Threads, t # u
    PROVE  pc'[t] = pc[t] /\ target'[t] = target[t] /\ left'[t] = left[t] /\ told'[t] = told[t]
<1>1. /\ pc \in [Threads -> Pc] /\ target \in [Threads -> Dirs]
      /\ left \in [Threads -> SUBSET Items] /\ told \in [Threads -> 0..1]
    BY DEF Typed, TypeOK
<1>2. CASE Begin(u) \/ ProbeFails(u) \/ Probe(u) \/ Ask(u) \/ Extract(u)
    BY <1>1, <1>2 DEF Begin, ProbeFails, Probe, Ask, Extract, Tell, Goto, attempt
<1>3. CASE Hit(u) \/ Miss(u) \/ Resolve(u) \/ Installed(u) \/ PipFails(u)
    BY <1>1, <1>3 DEF Hit, Miss, Resolve, Installed, PipFails, PipGone, Goto, attempt
<1>4. CASE Move(u) \/ GiveUp(u)
    BY <1>1, <1>4 DEF Move, GiveUp, Tell, Goto, attempt
<1>5. CASE Cleanup(u)
    BY <1>1, <1>5 DEF Cleanup, NextAttempt, Tell, Goto
<1>6. QED  BY <1>2, <1>3, <1>4, <1>5 DEF Step, Fetch

\* A thread that leaves the fetch has told so, unless the server died
WayOut(t) ==
    pc[t] \in Silent /\ pc'[t] \notin Silent =>
        \/ pc'[t] = "ask" /\ told[t] = 0 /\ told'[t] = 1
        \/ pc'[t] = "idle" /\ crashes' > 0

Goes(t) ==
    /\ Step(t) => Rank(t)' < Rank(t)
    /\ ~Begin(t) => Rank(t)' <= Rank(t)
    /\ Rank(t) \in Nat /\ Rank(t)' \in Nat
    /\ WayOut(t)

\* Whatever other threads do to its directory, however often pip fails and the
\* server dies: each step of a grounding leaves less than there was of a natural
\* number, nothing but its beginning adds to it, and no way out of the fetch says
\* nothing or says it twice (fetch_sdk, _sdk_schema_evidence).  What GroundingEnds
\* adds is that the threads go on.
THEOREM GroundingsBounded == Spec => [][\A t \in Threads : Goes(t)]_vars
<1>1. ASSUME Typed, Typed', Next, NEW t \in Threads PROVE Goes(t)
  <2>1. Rank(t) \in Nat /\ Rank(t)' \in Nat
    <3>1. Cardinality(left[t]) \in Nat /\ Cardinality(left'[t]) \in Nat
      <4>1. left[t] \subseteq Items /\ left'[t] \subseteq Items
          BY <1>1 DEF Typed, TypeOK
      <4>2. QED  BY <4>1, GroundingAssumption, FS_Subset, FS_CardinalityType
    <3>2. Rank(t) \in Nat
        BY <3>1, AheadNat DEF Rank
    <3>3. Ahead(pc'[t], target'[t], Cardinality(left'[t])) \in Nat
        BY <3>1, AheadNat
    <3>4. Rank(t)' = Ahead(pc'[t], target'[t], Cardinality(left'[t]))
        BY DEF Rank, Ahead, Attempt, Size
    <3>5. QED  BY <3>2, <3>3, <3>4
  <2>2. Step(t) => Rank(t)' < Rank(t)
      BY <1>1, StepAhead
  <2>3. CASE \E u \in Threads \ {t} : Begin(u) \/ Step(u)
    <3>1. pc'[t] = pc[t] /\ target'[t] = target[t] /\ left'[t] = left[t]
        BY <1>1, <2>3, OthersStay
    <3>2. Rank(t)' = Rank(t)
        BY <3>1, RankKept
    <3>3. QED  BY <2>1, <2>2, <3>1, <3>2 DEF Goes, WayOut
  <2>4. CASE Publish
    <3>1. pc'[t] = pc[t] /\ target'[t] = target[t] /\ left'[t] = left[t]
        BY <2>4 DEF Publish, attempt
    <3>2. Rank(t)' = Rank(t)
        BY <3>1, RankKept
    <3>3. QED  BY <2>1, <2>2, <3>1, <3>2 DEF Goes, WayOut
  <2>5. CASE Crash
    <3>1. pc'[t] = "idle" /\ crashes' > 0
        BY <1>1, <2>5, GroundingAssumption DEF Crash, Typed, TypeOK
    <3>2. Rank(t)' = 0
        BY <3>1 DEF Rank, Ahead, Trying
    <3>3. QED  BY <2>1, <2>2, <3>1, <3>2 DEF Goes, WayOut
  <2>6. CASE Begin(t)
    <3>1. pc[t] \notin Silent
        BY <2>6 DEF Begin, Silent
    <3>2. QED  BY <2>1, <2>2, <2>6, <3>1 DEF Goes, WayOut
  <2>7. CASE Step(t)
    <3>1. WayOut(t)
      <4>1. /\ pc \in [Threads -> Pc] /\ told \in [Threads -> 0..1]
            /\ pc[t] \in Silent => told[t] = 0
          BY <1>1 DEF Typed, TypeOK
      <4>2. CASE ProbeFails(t) \/ GiveUp(t) \/ Extract(t)
          BY <4>1, <4>2 DEF ProbeFails, GiveUp, Extract, Tell, Goto, WayOut, Silent
      <4>3. CASE Cleanup(t)
          BY <4>1, <4>3 DEF Cleanup, NextAttempt, Tell, Goto, WayOut, Silent
      <4>4. CASE Probe(t) \/ Hit(t) \/ Miss(t) \/ Resolve(t) \/ Move(t) \/ Installed(t)
                 \/ PipFails(t)
          BY <4>1, <4>4 DEF Probe, Hit, Miss, Resolve, Move, Installed, PipFails, Goto,
                            WayOut, Silent
      <4>5. CASE Ask(t)
          BY <4>5 DEF Ask, WayOut, Silent
      <4>6. QED  BY <2>7, <4>2, <4>3, <4>4, <4>5 DEF Step, Fetch
    <3>2. QED  BY <2>1, <2>2, <2>7, <3>1 DEF Goes
  <2>8. QED  BY <1>1, <2>3, <2>4, <2>5, <2>6, <2>7 DEF Next
<1>2. Typed /\ Typed' /\ [Next]_vars => [\A t \in Threads : Goes(t)]_vars
    BY <1>1
<1>3. QED  BY <1>2, Types, PTL DEF Spec
-----------------------------------------------------------------------------
(***************************************************************************)
(* The other cache: ResolutionCache, the assessments of open issues.       *)
(***************************************************************************)

\* What the division into pages needs
LEMMA Division ==
    ASSUME NEW P \in Nat \ {0}, NEW m \in Nat, NEW n \in Nat
    PROVE  /\ m \div P \in Nat
           /\ m <= n => m \div P <= n \div P
           /\ n - m < P => n \div P <= (m \div P) + 1
           /\ (m + P) \div P = (m \div P) + 1
           /\ (P - 1) \div P = 0
    OBVIOUS

\* An assessment is not the answer that is not there
LEMMA RecordsDiffer == \A a \in Answers : a # NoAnswer
<1>1. \A a \in Answers : DOMAIN a # DOMAIN NoAnswer
  BY DEF Answers, NoAnswer
<1> QED BY <1>1

LEMMA Sizes == PageSize \in Nat \ {0} /\ Limit \in 1..PageSize
  BY CacheAssumption

LEMMA LastPageNat ==
    ASSUME RCTypeOK, NEW t \in Workers
    PROVE  LastPageOf(t) \in Nat
<1> DEFINE n == Len(Thread(t)) + PageSize - 1
<1>1. n \in Nat
  <2>1. Len(Thread(t)) \in Nat
    BY DEF Thread, RCTypeOK
  <2> QED BY <2>1, Sizes
<1> HIDE DEF n
<1>2. n \div PageSize \in Nat
  BY <1>1, Sizes, Division
<1> QED BY <1>2 DEF LastPageOf, n

\* The comments that have to be in what was fetched: those of before the fetch
\* that fewer than the limit follow by now
Wanted(t) == {n \in 1..known[t] : Len(Thread(t)) - n < Limit}

\* The comment whose page the rel="last" link named, one of before or during
\* the fetch
Named(t) == \E l \in 1..Len(Thread(t)) :
                /\ known[t] <= l /\ page[t] = ((l - 1) \div PageSize) + 1

\* What a fetch has got so far: only comments that exist, with "prev" those of
\* the page that was named, and all that are wanted when it ends, unless it failed
FetchOk(t) ==
    /\ items[t] \subseteq DOMAIN Thread(t) /\ known[t] <= Len(Thread(t))
    /\ stage[t] \in {"idle", "first"} => items[t] = {}
    /\ stage[t] \in {"last", "prev"} => page[t] > 1 /\ Named(t)
    /\ stage[t] = "prev" => PageOf(t, page[t]) \cap 1..known[t] \subseteq items[t]
    /\ stage[t] = "body" => items[t] = {} \/ Wanted(t) \subseteq items[t]

\* What MaintainerHeard says of an assessment, wherever it is
Heard(a, comments) ==
    LET said == {n \in DOMAIN comments : MaintainerSignal(comments[n])}
    IN  /\ a.known <= Len(comments)
        /\ a.verdict = "high" => said # {}
        /\ a.whole /\ (\E n \in said : n <= a.known /\ Len(comments) - n < Limit)
              => a.verdict = "high"

\* It holds of the answers and of what the cache has for later ones
AnswersHeard ==
    /\ \A t \in Workers : answer[t] # NoAnswer => Heard(answer[t], thread[answer[t].issue])
    /\ \A i \in Issues : cache[i] # NoEntry => Heard(cache[i].value, thread[cache[i].value.issue])
    /\ \A t \in Workers : stage[t] = "put" => answer[t] \in Answers

FetchInv == \A t \in Workers : FetchOk(t)

Entries == [at : 0..MaxTime, value : Answers]
Caches == [Issues -> {NoEntry} \cup Entries]

ResolutionInv == RCTypeOK /\ IsFiniteSet(Cached(cache)) /\ FetchInv /\ AnswersHeard

\* There is room in what is left of a cache for one entry more
LEMMA RoomForOne ==
    ASSUME RCTypeOK, IsFiniteSet(Cached(cache)), NEW c \in Room(cache)
    PROVE  /\ c \in Caches /\ \A i \in Issues : c[i] = cache[i] \/ c[i] = NoEntry
           /\ IsFiniteSet(Cached(c)) /\ Cardinality(Cached(c)) \in Nat
           /\ Cardinality(Cached(c)) < Max
<1> DEFINE d == Purged(cache)
<1>1. cache \in Caches /\ Cardinality(Cached(cache)) <= Max
  BY DEF RCTypeOK, Caches, Entries, Cached
<1>2. d \in Caches /\ \A i \in Issues : d[i] = cache[i] \/ d[i] = NoEntry
  BY <1>1 DEF Purged, Caches
<1>3. Cached(d) \subseteq Cached(cache)
  BY <1>2 DEF Cached
<1> HIDE DEF d
<1>4. /\ IsFiniteSet(Cached(d)) /\ Cardinality(Cached(d)) \in Nat
      /\ Cardinality(Cached(cache)) \in Nat /\ Cardinality(Cached(d)) <= Max
  <2>1. /\ Cardinality(Cached(d)) <= Cardinality(Cached(cache)) /\ IsFiniteSet(Cached(d))
        /\ Cardinality(Cached(d)) \in Nat /\ Cardinality(Cached(cache)) \in Nat
    BY <1>3, FS_Subset, FS_CardinalityType
  <2> QED BY <1>1, <2>1, CacheAssumption
<1>5. \/ c = cache /\ Cardinality(Cached(cache)) < Max
      \/ c = d /\ Cardinality(Cached(d)) < Max
      \/ \E i \in Oldest(d) : c = [d EXCEPT ![i] = NoEntry]
  BY DEF Room, d
<1>6. ASSUME NEW i \in Oldest(d), c = [d EXCEPT ![i] = NoEntry]
      PROVE  /\ c \in Caches /\ \A j \in Issues : c[j] = cache[j] \/ c[j] = NoEntry
             /\ IsFiniteSet(Cached(c)) /\ Cardinality(Cached(c)) \in Nat
             /\ Cardinality(Cached(c)) < Max
  <2>1. i \in Cached(d) /\ i \in Issues
    BY DEF Oldest, Cached
  <2>2. /\ c \in Caches /\ \A j \in Issues : c[j] = cache[j] \/ c[j] = NoEntry
        /\ Cached(c) = Cached(d) \ {i}
    BY <1>2, <1>6, <2>1 DEF Caches, Cached
  <2>3. Cardinality(Cached(d) \ {i}) = Cardinality(Cached(d)) - 1 /\ IsFiniteSet(Cached(d) \ {i})
    BY <1>4, <2>1, FS_RemoveElement
  <2>4. Cardinality(Cached(d) \ {i}) \in Nat
    BY <2>3, FS_CardinalityType
  <2>5. Cardinality(Cached(c)) = Cardinality(Cached(d) \ {i}) /\ IsFiniteSet(Cached(c))
    BY <2>2, <2>3
  <2> QED BY <1>4, <2>2, <2>3, <2>4, <2>5, CacheAssumption
<1> QED BY <1>1, <1>2, <1>4, <1>5, <1>6
-----------------------------------------------------------------------------
\* A put leaves at most Max entries, however many threads put at a time
LEMMA ResolutionTypes ==
    ASSUME ResolutionInv, [RCNext]_RCVars
    PROVE  RCTypeOK' /\ IsFiniteSet(Cached(cache))'
<1> USE DEF ResolutionInv
<1>1. CASE UNCHANGED RCVars
  BY <1>1 DEF RCTypeOK, RCVars, github, fetch, Cached
<1>2. CASE Tick
  <2>1. now' \in 0..MaxTime /\ UNCHANGED <<thread, posted, cache, stage, fetch, answer>>
    BY <1>2, CacheAssumption DEF Tick, RCTypeOK, github
  <2> QED BY <2>1 DEF RCTypeOK, fetch, Cached
<1>3. ASSUME NEW i \in Issues, NEW kind \in Kinds, Comment(i, kind) PROVE RCTypeOK' /\ IsFiniteSet(Cached(cache))'
  <2>1. thread' \in [Issues -> Seq(Kinds)] /\ posted' \in 0..MaxPosted
    <3>1. thread[i] \in Seq(Kinds) /\ Append(thread[i], kind) \in Seq(Kinds)
      BY DEF RCTypeOK
    <3>2. thread' \in [Issues -> Seq(Kinds)]
      BY <1>3, <3>1 DEF Comment, RCTypeOK
    <3> QED BY <1>3, <3>2, CacheAssumption DEF Comment, RCTypeOK
  <2> QED BY <1>3, <2>1 DEF Comment, RCTypeOK, fetch, Cached
<1>4. ASSUME NEW t \in Workers, WorkerStep(t) PROVE RCTypeOK' /\ IsFiniteSet(Cached(cache))'
  <2>0. \A p : PageOf(t, p) \in SUBSET Nat
    BY DEF PageOf, Thread, RCTypeOK
  <2>1. CASE CacheHit(t)
    <3>1. answer' \in [Workers -> Answers \cup {NoAnswer}]
      BY <2>1 DEF CacheHit, RCTypeOK, Fresh
    <3> QED BY <2>1, <3>1 DEF CacheHit, To, RCTypeOK, github, fetch, Cached
  <2>2. CASE CacheMiss(t)
    <3>1. Cached(cache)' \subseteq Cached(cache) /\ cache' \in Caches
      BY <2>2 DEF CacheMiss, Cached, RCTypeOK, Caches, Entries
    <3>2. /\ IsFiniteSet(Cached(cache)') /\ Cardinality(Cached(cache)') <= Cardinality(Cached(cache))
          /\ Cardinality(Cached(cache)') \in Nat /\ Cardinality(Cached(cache)) \in Nat
      BY <3>1, FS_Subset, FS_CardinalityType
    <3>3. Cardinality(Cached(cache)') <= Max
      BY <3>2, CacheAssumption DEF RCTypeOK, Cached
    <3>4. known' \in [Workers -> Nat]
      BY <2>2 DEF CacheMiss, RCTypeOK
    <3> QED BY <2>2, <3>1, <3>2, <3>3, <3>4 DEF CacheMiss, To, RCTypeOK, Cached, Caches, Entries, github
  <2>3. CASE FirstPage(t)
    <3>1. LastPageOf(t) \in Nat
      BY LastPageNat
    <3>2. /\ items' \in [Workers -> SUBSET Nat] /\ page' \in [Workers -> Nat]
          /\ stage' \in [Workers -> {"idle", "first", "last", "prev", "body", "put", "answered"}]
      BY <2>0, <2>3, <3>1 DEF FirstPage, To, RCTypeOK
    <3> QED BY <2>3, <3>2 DEF FirstPage, RCTypeOK, Cached, github
  <2>4. CASE LastPage(t)
    BY <2>0, <2>4 DEF LastPage, To, RCTypeOK, Cached, github
  <2>5. CASE PrevPage(t)
    BY <2>0, <2>5 DEF PrevPage, To, RCTypeOK, Cached, github
  <2>6. CASE PageFails(t)
    BY <2>6 DEF PageFails, To, RCTypeOK, Cached, github
  <2>7. CASE Assess(t)
    <3>1. PICK body, quiet \in BOOLEAN : answer' = [answer EXCEPT ![t] =
              [issue |-> asked[t], verdict |-> Verdict(t, body, quiet), known |-> known[t],
               whole |-> items[t] # {} \/ known[t] = 0, began |-> began[t]]]
      BY <2>7 DEF Assess
    <3>2. Verdict(t, body, quiet) \in Verdicts
      BY DEF Verdict, Verdicts
    <3>3. answer' \in [Workers -> Answers \cup {NoAnswer}]
      BY <3>1, <3>2 DEF RCTypeOK, Answers
    <3> QED BY <2>7, <3>3 DEF Assess, To, RCTypeOK, Cached, github, fetch
  <2>8. CASE Put(t)
    <3>1. PICK c \in Room(cache) : cache' = [c EXCEPT ![asked[t]] = [at |-> now, value |-> answer[t]]]
      BY <2>8 DEF Put
    <3>2. answer[t] \in Answers /\ asked[t] \in Issues /\ now \in 0..MaxTime
      BY <2>8 DEF Put, AnswersHeard, RCTypeOK
    <3>5. cache' \in Caches /\ Cached(cache)' \subseteq Cached(c) \cup {asked[t]}
      <4>1. c \in Caches
        BY RoomForOne
      <4> QED BY <3>1, <3>2, <4>1 DEF Caches, Entries, Cached
    <3>6. /\ IsFiniteSet(Cached(c)) /\ Cardinality(Cached(c)) \in Nat /\ Cardinality(Cached(c)) < Max
      BY RoomForOne
    <3> DEFINE more == Cached(c) \cup {asked[t]}
    <3>7. IsFiniteSet(more) /\ Cardinality(more) \in Nat /\ Cardinality(more) <= Max
      <4>1. IsFiniteSet(more) /\ (Cardinality(more) = Cardinality(Cached(c)) \/ Cardinality(more) = Cardinality(Cached(c)) + 1)
        BY <3>6, FS_AddElement
      <4> QED BY <3>6, <4>1, CacheAssumption
    <3> HIDE DEF more
    <3>8. Cached(cache)' \subseteq more
      BY <3>5 DEF more
    <3>9. IsFiniteSet(Cached(cache)') /\ Cardinality(Cached(cache)') \in Nat /\ Cardinality(Cached(cache)') <= Cardinality(more)
      BY <3>7, <3>8, FS_Subset, FS_CardinalityType
    <3>10. Cardinality(Cached(cache)') <= Max
      BY <3>7, <3>9, CacheAssumption
    <3> QED BY <2>8, <3>5, <3>9, <3>10 DEF Put, To, RCTypeOK, Cached, Caches, Entries, github, fetch
  <2>9. CASE NextRequest(t)
    <3>1. began' \in [Workers -> 0..MaxTime]
      BY <2>9, CacheAssumption DEF NextRequest, RCTypeOK
    <3> QED BY <2>9, <3>1 DEF NextRequest, To, RCTypeOK, Cached, github
  <2> QED BY <1>4, <2>1, <2>2, <2>3, <2>4, <2>5, <2>6, <2>7, <2>8, <2>9 DEF WorkerStep, FetchComments
<1> QED BY <1>1, <1>2, <1>3, <1>4 DEF RCNext
-----------------------------------------------------------------------------
(* The fetch                                                               *)

PageNo(n) == (n - 1) \div PageSize

\* What the pages have in them
LEMMA Pages ==
    ASSUME NEW m \in Nat \ {0}, NEW n \in Nat \ {0}
    PROVE  /\ PageNo(m) \in Nat /\ PageNo(n) \in Nat
           /\ m <= n => PageNo(m) <= PageNo(n)
           /\ n - m < PageSize => PageNo(n) <= PageNo(m) + 1
<1> m - 1 \in Nat /\ n - 1 \in Nat
  OBVIOUS
<1> QED BY Sizes, Division DEF PageNo

LEMMA LastPageIs ==
    ASSUME RCTypeOK, NEW t \in Workers
    PROVE  /\ Len(Thread(t)) = 0 => LastPageOf(t) = 0
           /\ Len(Thread(t)) # 0 => LastPageOf(t) = PageNo(Len(Thread(t))) + 1
<1> DEFINE l == Len(Thread(t))
<1>1. l \in Nat
  BY DEF Thread, RCTypeOK
<1>2. LastPageOf(t) = (l + PageSize - 1) \div PageSize
  BY DEF LastPageOf
<1> HIDE DEF l
<1>3. CASE l = 0
  <2>1. l + PageSize - 1 = PageSize - 1
    BY <1>3, Sizes
  <2>2. (PageSize - 1) \div PageSize = 0
    BY Sizes, Division
  <2>3. LastPageOf(t) = 0
    BY <1>2, <2>1, <2>2
  <2> QED BY <1>3, <2>3 DEF l
<1>4. CASE l # 0
  <2>1. l + PageSize - 1 = (l - 1) + PageSize /\ l - 1 \in Nat
    BY <1>1, <1>4, Sizes
  <2>2. ((l - 1) + PageSize) \div PageSize = ((l - 1) \div PageSize) + 1
    BY <2>1, Sizes, Division
  <2> QED BY <1>2, <1>4, <2>1, <2>2 DEF l, PageNo
<1> QED BY <1>3, <1>4

\* The page of the comment l was the last one when it was named.  A comment of
\* before l that fewer than the limit follow, and that is not on that page, is on
\* the page before it, and the last page is then short: LastPage goes on to it.
LEMMA ShortPage ==
    ASSUME RCTypeOK, NEW t \in Workers, NEW l \in 1..Len(Thread(t)), NEW n \in 1..l,
           n \notin PageOf(t, PageNo(l) + 1), Len(Thread(t)) - n < Limit
    PROVE  /\ Cardinality(PageOf(t, PageNo(l) + 1)) < Limit
           /\ n \in PageOf(t, PageNo(l))
<1> DEFINE last == Len(Thread(t))
           p == PageNo(l)
<1>1. last \in Nat /\ DOMAIN Thread(t) = 1..last /\ Limit \in Nat
  BY Sizes DEF Thread, RCTypeOK
<1>2. l \in Nat \ {0} /\ n \in Nat \ {0} /\ n \in 1..last
  BY <1>1
<1>3. \A q : PageOf(t, q) = {m \in 1..last : PageNo(m) = q - 1}
  BY <1>1 DEF PageOf, PageNo
<1>4. p \in Nat /\ PageNo(n) \in Nat /\ PageNo(n) <= p
  BY <1>2, Pages
<1>5. PageNo(n) < p
  BY <1>2, <1>3, <1>4
<1>6. p <= PageNo(n) + 1
  BY <1>1, <1>2, Sizes, Pages
<1>7. n \in PageOf(t, p)
  BY <1>2, <1>3, <1>4, <1>5, <1>6
<1> HIDE DEF last, p
<1>8. PageOf(t, p + 1) \subseteq (n + 1)..last
  <2> SUFFICES ASSUME NEW m \in 1..last, PageNo(m) = p, ~(n < m) PROVE FALSE
    BY <1>1, <1>2, <1>3, <1>4
  <2>1. m \in Nat \ {0} /\ m <= n
    BY <1>1, <1>2
  <2> QED BY <1>2, <1>4, <1>5, <2>1, Pages
<1>9. /\ IsFiniteSet((n + 1)..last) /\ Cardinality((n + 1)..last) < Limit
      /\ Cardinality((n + 1)..last) \in Nat
  <2>1. n + 1 \in Int /\ last \in Int
    BY <1>1, <1>2
  <2>2. /\ IsFiniteSet((n + 1)..last)
        /\ Cardinality((n + 1)..last) = IF n + 1 > last THEN 0 ELSE last - (n + 1) + 1
    BY <2>1, FS_Interval
  <2>3. last - n < Limit
    BY DEF last
  <2> QED BY <1>1, <1>2, <2>2, <2>3
<1>10. /\ Cardinality(PageOf(t, p + 1)) <= Cardinality((n + 1)..last)
       /\ Cardinality(PageOf(t, p + 1)) \in Nat
  BY <1>8, <1>9, FS_Subset, FS_CardinalityType
<1> QED BY <1>1, <1>7, <1>9, <1>10 DEF p

\* A step of another thread leaves a fetch what it was
LEMMA FetchKept ==
    ASSUME NEW t \in Workers, FetchOk(t), thread' = thread, asked'[t] = asked[t],
           page'[t] = page[t], items'[t] = items[t], known'[t] = known[t], stage'[t] = stage[t]
    PROVE  FetchOk(t)'
BY DEF FetchOk, Thread, PageOf, Wanted, Named

LEMMA FetchStep ==
    ASSUME ResolutionInv, [RCNext]_RCVars
    PROVE  FetchInv'
<1> USE DEF ResolutionInv
<1> SUFFICES ASSUME NEW u \in Workers PROVE FetchOk(u)'
  BY DEF FetchInv
<1>0. FetchOk(u) /\ Len(Thread(u)) \in Nat /\ DOMAIN Thread(u) = 1..Len(Thread(u)) /\ known[u] \in Nat
  BY DEF FetchInv, Thread, RCTypeOK
<1>1. CASE UNCHANGED RCVars \/ Tick
  BY <1>0, <1>1, FetchKept DEF RCVars, github, fetch, Tick
<1>2. ASSUME NEW i \in Issues, NEW kind \in Kinds, Comment(i, kind) PROVE FetchOk(u)'
  <2>1. thread[i] \in Seq(Kinds) /\ asked[u] \in Issues /\ thread \in [Issues -> Seq(Kinds)]
    BY DEF RCTypeOK
  <2>2. UNCHANGED <<stage, asked, page, items, known>> /\ thread' = [thread EXCEPT ![i] = Append(@, kind)]
    BY <1>2 DEF Comment, fetch
  <2> DEFINE old == Thread(u)
             new == Thread(u)'
  <2>3. /\ Len(new) \in Nat /\ Len(old) <= Len(new) /\ DOMAIN new = 1..Len(new)
    BY <2>1, <2>2 DEF Thread
  <2>4. \A p : PageOf(u, p)' \cap 1..known[u] \subseteq PageOf(u, p)
    BY <1>0, <2>3 DEF FetchOk, PageOf
  <2> HIDE DEF old, new
  <2>5. Wanted(u)' \subseteq Wanted(u)
    BY <1>0, <2>2, <2>3, Sizes DEF Wanted, old, new
  <2>6. Named(u) => Named(u)'
    BY <1>0, <2>2, <2>3 DEF Named, old, new
  <2>7. items'[u] \subseteq DOMAIN new /\ known'[u] <= Len(new)
    BY <1>0, <2>2, <2>3 DEF FetchOk, old
  <2> QED BY <1>0, <2>2, <2>4, <2>5, <2>6, <2>7 DEF FetchOk, new
<1>3. ASSUME NEW t \in Workers, WorkerStep(t), t # u PROVE FetchOk(u)'
  <2>1. /\ thread' = thread /\ asked'[u] = asked[u] /\ page'[u] = page[u]
        /\ items'[u] = items[u] /\ known'[u] = known[u] /\ stage'[u] = stage[u]
    <3>1. CASE CacheHit(t) \/ CacheMiss(t) \/ Assess(t) \/ Put(t) \/ NextRequest(t)
      BY <1>3, <3>1 DEF RCTypeOK, CacheHit, CacheMiss, Assess, Put, NextRequest, To, github, fetch
    <3>2. CASE FetchComments(t)
      BY <1>3, <3>2 DEF RCTypeOK, FetchComments, FirstPage, LastPage, PrevPage, PageFails, To, github
    <3> QED BY <1>3, <3>1, <3>2 DEF WorkerStep
  <2> QED BY <1>0, <2>1, FetchKept
<1>4. ASSUME WorkerStep(u) PROVE FetchOk(u)'
  <2> DEFINE last == Len(Thread(u))
  <2>1. CASE CacheHit(u)
    BY <1>0, <2>1 DEF CacheHit, To, RCTypeOK, FetchOk, Thread, github, fetch
  <2>2. CASE CacheMiss(u)
    BY <1>0, <2>2 DEF CacheMiss, To, RCTypeOK, FetchOk, Thread, github
  <2>3. CASE PageFails(u)
    BY <1>0, <2>3 DEF PageFails, To, RCTypeOK, FetchOk, Thread, github
  <2>4. CASE Assess(u) \/ Put(u)
    BY <1>0, <2>4 DEF Assess, Put, To, RCTypeOK, FetchOk, Thread, github, fetch
  <2>5. CASE NextRequest(u)
    <3>1. /\ items'[u] = {} /\ known'[u] = 0 /\ stage'[u] = "idle" /\ thread' = thread
          /\ asked' \in [Workers -> Issues]
      BY <2>5 DEF NextRequest, To, RCTypeOK, github
    <3>2. Len(Thread(u)') \in Nat
      BY <3>1 DEF Thread, RCTypeOK
    <3> QED BY <3>1, <3>2 DEF FetchOk
  <2>6. CASE FirstPage(u)
    <3>1. /\ UNCHANGED <<thread, asked, known>> /\ items'[u] = PageOf(u, 1)
          /\ page'[u] = LastPageOf(u) /\ stage'[u] = IF LastPageOf(u) > 1 THEN "last" ELSE "body"
      BY <2>6 DEF FirstPage, To, RCTypeOK, github
    <3>2. PageOf(u, 1) = {n \in 1..last : PageNo(n) = 0}
      BY <1>0 DEF PageOf, PageNo
    <3>3. Thread(u)' = Thread(u) /\ known[u] <= last
      BY <1>0, <3>1 DEF Thread, FetchOk
    <3>4. CASE LastPageOf(u) > 1
      <4>1. last # 0 /\ page'[u] = PageNo(last) + 1
        BY <1>0, <3>1, <3>4, LastPageIs
      <4>2. last \in 1..last
        BY <1>0, <4>1
      <4>3. Named(u)'
        BY <3>1, <3>3, <4>1, <4>2 DEF Named, PageNo
      <4> QED BY <1>0, <3>1, <3>2, <3>3, <3>4, <4>3 DEF FetchOk
    <3>5. CASE ~(LastPageOf(u) > 1)
      <4>1. ASSUME NEW n \in 1..last PROVE PageNo(n) = 0
        <5>1. last # 0 /\ last \in Nat \ {0} /\ n \in Nat \ {0} /\ n <= last
          BY <1>0
        <5>2. PageNo(last) <= 0
          BY <3>5, <5>1, LastPageIs, Pages
        <5> QED BY <5>1, <5>2, Pages
      <4>2. items'[u] = 1..last
        BY <3>1, <3>2, <4>1
      <4>3. Wanted(u)' \subseteq items'[u]
        BY <1>0, <3>1, <3>3, <4>2 DEF Wanted
      <4> QED BY <1>0, <3>1, <3>2, <3>3, <3>5, <4>3 DEF FetchOk
    <3> QED BY <3>4, <3>5
  <2>7. CASE LastPage(u) \/ PrevPage(u)
    <3>1. PICK l \in 1..last : known[u] <= l /\ page[u] = PageNo(l) + 1
      BY <1>0, <2>7 DEF FetchOk, Named, LastPage, PrevPage, PageNo
    <3>2. /\ UNCHANGED <<thread, asked, page, known>> /\ Thread(u)' = Thread(u)
          /\ page[u] > 1 /\ Named(u) /\ known[u] <= last
      BY <1>0, <2>7 DEF LastPage, PrevPage, FetchOk, Thread, github
    <3>3. Named(u)' /\ \A p : PageOf(u, p)' = PageOf(u, p) /\ PageOf(u, p) \subseteq DOMAIN Thread(u)
      BY <3>2 DEF Named, PageOf
    <3>4. ASSUME NEW n \in Wanted(u), n \notin PageOf(u, page[u])
          PROVE  Cardinality(PageOf(u, page[u])) < Limit /\ n \in PageOf(u, page[u] - 1)
      <4>1. n \in 1..l /\ Len(Thread(u)) - n < Limit
        BY <1>0, <3>1 DEF Wanted
      <4>2. n \notin PageOf(u, PageNo(l) + 1) /\ PageNo(l) \in Nat
        BY <1>0, <3>1, <3>4, Pages
      <4>3. page[u] - 1 = PageNo(l)
        BY <3>1, <4>2
      <4> QED BY <3>1, <4>1, <4>2, <4>3, ShortPage
    <3>5. CASE LastPage(u)
      <4>1. /\ items'[u] = PageOf(u, page[u])
            /\ stage'[u] = IF Cardinality(PageOf(u, page[u])) < Limit THEN "prev" ELSE "body"
        BY <3>5 DEF LastPage, To, RCTypeOK
      <4>2. ~(Cardinality(PageOf(u, page[u])) < Limit) => Wanted(u) \subseteq items'[u]
        BY <3>4, <4>1
      <4>3. Wanted(u)' = Wanted(u)
        BY <3>2 DEF Wanted
      <4> QED BY <3>2, <3>3, <4>1, <4>2, <4>3 DEF FetchOk
    <3>6. CASE PrevPage(u)
      <4>1. /\ items'[u] = items[u] \cup PageOf(u, page[u] - 1) /\ stage'[u] = "body"
            /\ PageOf(u, page[u]) \cap 1..known[u] \subseteq items[u] /\ items[u] \subseteq DOMAIN Thread(u)
        BY <1>0, <3>6 DEF PrevPage, To, RCTypeOK, FetchOk
      <4>2. Wanted(u) \subseteq items'[u]
        BY <3>4, <4>1 DEF Wanted
      <4>3. Wanted(u)' = Wanted(u)
        BY <3>2 DEF Wanted
      <4> QED BY <3>2, <3>3, <4>1, <4>2, <4>3 DEF FetchOk
    <3> QED BY <2>7, <3>5, <3>6
  <2> QED BY <1>4, <2>1, <2>2, <2>3, <2>4, <2>5, <2>6, <2>7 DEF WorkerStep, FetchComments
<1> QED BY <1>1, <1>2, <1>3, <1>4 DEF RCNext
-----------------------------------------------------------------------------
(* The verdict and the cache                                               *)

\* Of the comments that were fetched, those that fewer than the limit follow
\* are among the last Limit
LEMMA RecentEnough ==
    ASSUME RCTypeOK, NEW t \in Workers, items[t] \subseteq DOMAIN Thread(t),
           NEW n \in items[t], Len(Thread(t)) - n < Limit
    PROVE  n \in Recent(t)
<1> DEFINE last == Len(Thread(t))
           after == {m \in items[t] : m > n}
<1>1. last \in Nat /\ DOMAIN Thread(t) = 1..last /\ n \in 1..last /\ last - n < Limit
  BY DEF Thread, RCTypeOK
<1>2. after \subseteq (n + 1)..last
  BY <1>1
<1> HIDE DEF last, after
<1>3. /\ IsFiniteSet((n + 1)..last)
      /\ Cardinality((n + 1)..last) = IF n + 1 > last THEN 0 ELSE last - (n + 1) + 1
  <2>1. n + 1 \in Int /\ last \in Int
    BY <1>1
  <2> QED BY <2>1, FS_Interval
<1>4. Cardinality(after) <= Cardinality((n + 1)..last) /\ Cardinality(after) \in Nat
  BY <1>2, <1>3, FS_Subset, FS_CardinalityType
<1>5. Cardinality(after) < Limit
  BY <1>1, <1>3, <1>4, Sizes
<1> QED BY <1>5 DEF Recent, after

\* An assessment stays what it is while people go on commenting
LEMMA HeardStays ==
    ASSUME RCTypeOK, NEW a \in Answers, Heard(a, thread[a.issue]),
           \/ thread' = thread
           \/ \E i \in Issues, kind \in Kinds : thread' = [thread EXCEPT ![i] = Append(@, kind)]
    PROVE  Heard(a, thread'[a.issue])
<1> DEFINE old == thread[a.issue]
           new == thread'[a.issue]
<1>1. old \in Seq(Kinds) /\ a.issue \in Issues /\ a.known \in Nat
  BY DEF RCTypeOK, Answers
<1>2. /\ Len(new) \in Nat /\ Len(old) <= Len(new)
      /\ \A n \in 1..Len(old) : new[n] = old[n]
  <2>1. CASE thread' = thread
    BY <1>1, <2>1
  <2>2. ASSUME NEW i \in Issues, NEW kind \in Kinds, thread' = [thread EXCEPT ![i] = Append(@, kind)]
        PROVE  /\ Len(new) \in Nat /\ Len(old) <= Len(new)
               /\ \A n \in 1..Len(old) : new[n] = old[n]
    <3>1. new = IF a.issue = i THEN Append(old, kind) ELSE old
      BY <1>1, <2>2 DEF RCTypeOK
    <3> HIDE DEF old, new
    <3> QED BY <1>1, <3>1
  <2> QED BY <2>1, <2>2
<1>3. Len(old) \in Nat /\ DOMAIN old = 1..Len(old) /\ DOMAIN new = 1..Len(new)
  <2>1. thread' \in [Issues -> Seq(Kinds)]
    <3>1. ASSUME NEW i \in Issues, NEW kind \in Kinds, thread' = [thread EXCEPT ![i] = Append(@, kind)]
          PROVE  thread' \in [Issues -> Seq(Kinds)]
      <4>1. thread[i] \in Seq(Kinds) /\ Append(thread[i], kind) \in Seq(Kinds)
        BY DEF RCTypeOK
      <4> QED BY <3>1, <4>1 DEF RCTypeOK
    <3> QED BY <3>1 DEF RCTypeOK
  <2> QED BY <1>1, <2>1
<1> DEFINE said == {n \in DOMAIN old : MaintainerSignal(old[n])}
           saidNow == {n \in DOMAIN new : MaintainerSignal(new[n])}
<1>4. /\ a.known <= Len(old)
      /\ a.verdict = "high" => said # {}
      /\ a.whole /\ (\E n \in said : n <= a.known /\ Len(old) - n < Limit) => a.verdict = "high"
  BY DEF Heard
<1> HIDE DEF old, new
<1>5. said \subseteq saidNow
  BY <1>2, <1>3
<1>6. \A n \in saidNow : n <= a.known /\ Len(new) - n < Limit =>
         n \in said /\ Len(old) - n < Limit
  BY <1>1, <1>2, <1>3, <1>4, Sizes
<1> HIDE DEF said, saidNow
<1>7. /\ a.known <= Len(new)
      /\ a.verdict = "high" => saidNow # {}
      /\ a.whole /\ (\E n \in saidNow : n <= a.known /\ Len(new) - n < Limit) => a.verdict = "high"
  BY <1>1, <1>2, <1>3, <1>4, <1>5, <1>6
<1> QED BY <1>7 DEF Heard, new, saidNow

\* detect_resolution hears the maintainer
LEMMA AssessHears ==
    ASSUME ResolutionInv, NEW t \in Workers, Assess(t)
    PROVE  answer'[t] \in Answers /\ Heard(answer'[t], thread'[answer'[t].issue])
<1> DEFINE said == {n \in DOMAIN Thread(t) : MaintainerSignal(Thread(t)[n])}
           high == \E n \in Signals(t) : Thread(t)[n].maintainer
           whole == items[t] # {} \/ known[t] = 0
<1>1. FetchOk(t) /\ stage[t] = "body" /\ Len(Thread(t)) \in Nat /\ known[t] \in Nat
      /\ DOMAIN Thread(t) = 1..Len(Thread(t)) /\ asked[t] \in Issues /\ began[t] \in 0..MaxTime
  BY DEF Assess, ResolutionInv, FetchInv, Thread, RCTypeOK
<1>2. PICK body, quiet \in BOOLEAN : answer'[t] =
              [issue |-> asked[t], verdict |-> Verdict(t, body, quiet), known |-> known[t],
               whole |-> whole, began |-> began[t]]
  BY DEF Assess, ResolutionInv, RCTypeOK
<1>3. whole \in BOOLEAN
  OBVIOUS
<1> HIDE DEF whole
<1>4. /\ Verdict(t, body, quiet) \in Verdicts
      /\ Verdict(t, body, quiet) = "high" <=> high
  BY DEF Verdict, Verdicts
<1>5. answer'[t] \in Answers
  BY <1>1, <1>2, <1>4, <1>3 DEF Answers
<1>6. high => said # {}
  BY <1>1 DEF FetchOk, Signals, Human, Recent, MaintainerSignal
<1>7. ASSUME whole, NEW n \in said, n <= known[t], Len(Thread(t)) - n < Limit
      PROVE  high
  <2>1. items[t] # {}
    BY <1>1, <1>7 DEF whole
  <2>2. n \in items[t]
    BY <1>1, <1>7, <2>1 DEF FetchOk, Wanted
  <2>3. n \in Recent(t)
    BY <1>1, <1>7, <2>2, RecentEnough DEF FetchOk, ResolutionInv
  <2> QED BY <2>3 DEF Signals, Human, MaintainerSignal
<1> DEFINE a == answer'[t]
<1>8. /\ thread[a.issue] = Thread(t) /\ thread' = thread
      /\ a.known = known[t] /\ a.verdict = Verdict(t, body, quiet)
  BY <1>2 DEF Thread, Assess, github
<1>9. a.whole = whole
  BY <1>2
<1> HIDE DEF a, high
<1>10. Heard(a, thread'[a.issue])
  BY <1>1, <1>4, <1>6, <1>7, <1>8, <1>9 DEF Heard, FetchOk
<1> QED BY <1>5, <1>10 DEF a

LEMMA HeardStep ==
    ASSUME ResolutionInv, [RCNext]_RCVars
    PROVE  AnswersHeard'
<1> USE DEF ResolutionInv
<1>0. /\ \A t \in Workers : answer[t] # NoAnswer => answer[t] \in Answers /\ Heard(answer[t], thread[answer[t].issue])
      /\ \A i \in Issues : cache[i] # NoEntry =>
            /\ cache[i] \in Entries /\ cache[i].value \in Answers /\ Heard(cache[i].value, thread[cache[i].value.issue])
      /\ \A t \in Workers : stage[t] = "put" => answer[t] \in Answers
  BY DEF AnswersHeard, RCTypeOK, Entries
\* A step that writes neither an answer nor an entry
<1>1. ASSUME \/ thread' = thread
             \/ \E i \in Issues, kind \in Kinds : thread' = [thread EXCEPT ![i] = Append(@, kind)],
             \A t \in Workers : answer'[t] \in {answer[t], NoAnswer},
             \A i \in Issues : cache'[i] \in {cache[i], NoEntry},
             \A t \in Workers : stage'[t] = "put" => stage[t] = "put" /\ answer'[t] = answer[t]
      PROVE  AnswersHeard'
  <2>1. \A a \in Answers : Heard(a, thread[a.issue]) => Heard(a, thread'[a.issue])
    BY <1>1, HeardStays
  <2> QED BY <1>0, <1>1, <2>1 DEF AnswersHeard
<1>2. CASE UNCHANGED RCVars \/ Tick
  BY <1>1, <1>2 DEF RCVars, Tick, github
<1>3. ASSUME NEW i \in Issues, NEW kind \in Kinds, Comment(i, kind) PROVE AnswersHeard'
  BY <1>1, <1>3 DEF Comment
<1>4. ASSUME NEW t \in Workers, CacheMiss(t) \/ NextRequest(t) \/ FetchComments(t) PROVE AnswersHeard'
  <2>1. CASE CacheMiss(t)
    BY <1>1, <2>1 DEF CacheMiss, To, RCTypeOK, github
  <2>2. CASE NextRequest(t)
    BY <1>1, <2>2 DEF NextRequest, To, RCTypeOK, github
  <2>3. CASE FetchComments(t)
    BY <1>1, <2>3 DEF FetchComments, FirstPage, LastPage, PrevPage, PageFails, To, RCTypeOK, github
  <2> QED BY <1>4, <2>1, <2>2, <2>3
<1>5. ASSUME NEW t \in Workers, CacheHit(t) \/ Assess(t) \/ Put(t) PROVE AnswersHeard'
  <2>1. thread' = thread
    BY <1>5 DEF CacheHit, Assess, Put, github
  <2>2. \A u \in Workers \ {t} : answer'[u] = answer[u] /\ stage'[u] = stage[u]
    BY <1>5 DEF CacheHit, Assess, Put, To, RCTypeOK
  <2>3. /\ \A u \in Workers \ {t} : answer'[u] # NoAnswer => Heard(answer'[u], thread'[answer'[u].issue])
        /\ \A u \in Workers \ {t} : stage'[u] = "put" => answer'[u] \in Answers
    BY <1>0, <2>1, <2>2
  <2>4. CASE CacheHit(t)
    <3>1. /\ answer'[t] = cache[asked[t]].value /\ stage'[t] = "answered" /\ cache' = cache
          /\ cache[asked[t]] # NoEntry /\ asked[t] \in Issues
      BY <2>4 DEF CacheHit, Fresh, To, RCTypeOK
    <3> QED BY <1>0, <2>1, <2>3, <3>1 DEF AnswersHeard
  <2>5. CASE Assess(t)
    <3>1. answer'[t] \in Answers /\ Heard(answer'[t], thread'[answer'[t].issue]) /\ cache' = cache
      BY <2>5, AssessHears DEF Assess
    <3> QED BY <1>0, <2>1, <2>3, <3>1 DEF AnswersHeard
  <2>6. CASE Put(t)
    <3>1. answer[t] \in Answers /\ answer[t] # NoAnswer /\ Heard(answer[t], thread[answer[t].issue])
      BY <1>0, <2>6, RecordsDiffer DEF Put
    <3>2. answer' = answer /\ stage'[t] = "answered" /\ asked[t] \in Issues
      BY <2>6 DEF Put, To, RCTypeOK
    <3>3. PICK c \in Room(cache) : cache' = [c EXCEPT ![asked[t]] = [at |-> now, value |-> answer[t]]]
      BY <2>6 DEF Put
    <3>4. c \in Caches /\ \A i \in Issues : c[i] = cache[i] \/ c[i] = NoEntry
      BY RoomForOne
    <3>5. \A i \in Issues : cache'[i] = IF i = asked[t] THEN [at |-> now, value |-> answer[t]] ELSE c[i]
      BY <3>3, <3>4 DEF Caches
    <3>6. \A i \in Issues : cache'[i] # NoEntry => Heard(cache'[i].value, thread'[cache'[i].value.issue])
      BY <1>0, <2>1, <3>1, <3>4, <3>5
    <3> QED BY <2>1, <2>3, <3>1, <3>2, <3>6 DEF AnswersHeard
  <2> QED BY <1>5, <2>4, <2>5, <2>6
<1> QED BY <1>2, <1>3, <1>4, <1>5 DEF RCNext, WorkerStep

LEMMA ResolutionInit == RCInit => ResolutionInv
<1> SUFFICES ASSUME RCInit PROVE ResolutionInv
  OBVIOUS
<1>1. Cached(cache) = {} /\ IsFiniteSet(Cached(cache)) /\ Cardinality(Cached(cache)) = 0
  <2>1. Cached(cache) = {}
    BY DEF RCInit, Cached
  <2> QED BY <2>1, FS_EmptySet
<1>2. thread \in [Issues -> Seq(Kinds)]
  BY CacheAssumption DEF RCInit
<1>3. RCTypeOK
  BY <1>1, <1>2, CacheAssumption DEF RCInit, RCTypeOK, Cached
<1>4. FetchInv
  BY <1>2 DEF RCInit, FetchInv, FetchOk, Thread
<1>5. AnswersHeard
  BY DEF RCInit, AnswersHeard
<1> QED BY <1>1, <1>3, <1>4, <1>5 DEF ResolutionInv

\* The invariant of the threads that serve /api/resolution
THEOREM ResolutionInvariant == RCSpec => []ResolutionInv
<1>1. ResolutionInv /\ [RCNext]_RCVars => ResolutionInv'
  BY ResolutionTypes, FetchStep, HeardStep DEF ResolutionInv
<1> QED BY <1>1, ResolutionInit, PTL DEF RCSpec

\* For any threads, issues, pages, limit and comments: a maintainer's signal that
\* was there when the fetch began, and that fewer than the limit follow, is heard,
\* also in an answer from the cache, and nothing else counts as one
\* (fetch_recent_comments, detect_resolution).
THEOREM MaintainersHeard == RCSpec => []MaintainerHeard
<1>1. ResolutionInv => MaintainerHeard
  BY DEF ResolutionInv, AnswersHeard, Heard, MaintainerHeard
<1> QED BY <1>1, ResolutionInvariant, PTL

-----------------------------------------------------------------------------
(* The age of an answer: a fetch is as old as MaxFetch at most when it is  *)
(* put, and the entry as old as the TTL when it is used                    *)

FetchesInTime ==
    /\ \A t \in Workers : Working(t) => began[t] <= now /\ now - began[t] <= MaxFetch
    /\ \A t \in Workers : stage[t] = "put" => answer[t].began = began[t]
    /\ \A i \in Issues : cache[i] # NoEntry =>
          cache[i].at <= now /\ cache[i].at - cache[i].value.began <= MaxFetch

LEMMA TimesInit == RCInit => FetchesInTime
  BY DEF RCInit, FetchesInTime, Working

LEMMA TimesStep ==
    ASSUME ResolutionInv, FetchesInTime, [RCNext]_RCVars
    PROVE  FetchesInTime'
<1>0. /\ now \in 0..MaxTime /\ MaxFetch \in Nat /\ MaxTime \in Nat
      /\ began \in [Workers -> 0..MaxTime] /\ asked \in [Workers -> Issues] /\ DOMAIN answer = Workers
      /\ stage \in [Workers -> {"idle", "first", "last", "prev", "body", "put", "answered"}]
      /\ cache \in Caches
  BY CacheAssumption DEF ResolutionInv, RCTypeOK, Caches, Entries
<1>1. CASE UNCHANGED RCVars
  BY <1>1 DEF RCVars, fetch, FetchesInTime, Working
<1>2. CASE Tick
  <2>1. now' = now + 1 /\ \A t \in Workers : Working(t) => now - began[t] < MaxFetch
    BY <1>2 DEF Tick
  <2>2. UNCHANGED <<stage, began, answer, cache>>
    BY <1>2 DEF Tick, fetch
  <2>3. \A i \in Issues : cache[i] # NoEntry => cache[i].at \in Nat
    BY <1>0 DEF Caches, Entries
  <2> QED BY <1>0, <2>1, <2>2, <2>3 DEF FetchesInTime, Working
<1>3. ASSUME NEW i \in Issues, NEW kind \in Kinds, Comment(i, kind) PROVE FetchesInTime'
  BY <1>3 DEF Comment, fetch, FetchesInTime, Working
<1>4. ASSUME NEW t \in Workers, WorkerStep(t) PROVE FetchesInTime'
  <2>0. now' = now
    BY <1>4 DEF WorkerStep, CacheHit, CacheMiss, FetchComments, FirstPage, LastPage, PrevPage, PageFails,
                Assess, Put, NextRequest
  <2>1. CASE CacheHit(t)
    BY <1>0, <2>1 DEF CacheHit, To, fetch, FetchesInTime, Working
  <2>2. CASE CacheMiss(t)
    <3>1. /\ \A u \in Workers \ {t} : stage'[u] = stage[u] /\ began'[u] = began[u]
          /\ stage'[t] = "first" /\ began'[t] = now /\ answer' = answer
          /\ \A i \in Issues : cache'[i] \in {cache[i], NoEntry}
      BY <1>0, <2>2 DEF CacheMiss, To, Caches
    <3> QED BY <1>0, <2>0, <3>1 DEF FetchesInTime, Working
  <2>3. CASE FetchComments(t)
    <3>1. /\ \A u \in Workers \ {t} : stage'[u] = stage[u]
          /\ Working(t) /\ stage'[t] # "put" /\ UNCHANGED <<began, answer, cache>>
      BY <1>0, <2>3 DEF FetchComments, FirstPage, LastPage, PrevPage, PageFails, To, Working
    <3> QED BY <1>0, <2>0, <3>1 DEF FetchesInTime, Working
  <2>4. CASE Assess(t)
    <3>1. /\ \A u \in Workers \ {t} : stage'[u] = stage[u] /\ answer'[u] = answer[u]
          /\ Working(t) /\ answer'[t].began = began[t] /\ UNCHANGED <<began, cache>>
      BY <1>0, <2>4 DEF Assess, To, Working, fetch
    <3> QED BY <1>0, <2>0, <3>1 DEF FetchesInTime, Working
  <2>5. CASE Put(t)
    <3>1. /\ \A u \in Workers \ {t} : stage'[u] = stage[u]
          /\ stage[t] = "put" /\ stage'[t] = "answered" /\ UNCHANGED <<began, answer>>
      BY <1>0, <2>5 DEF Put, To, fetch
    <3>2. PICK c \in Room(cache) : cache' = [c EXCEPT ![asked[t]] = [at |-> now, value |-> answer[t]]]
      BY <2>5 DEF Put
    <3>3. c \in Caches /\ \A i \in Issues : c[i] = cache[i] \/ c[i] = NoEntry
      BY RoomForOne DEF ResolutionInv
    <3>4. \A i \in Issues : cache'[i] \in {cache[i], NoEntry, [at |-> now, value |-> answer[t]]}
      BY <3>2, <3>3 DEF Caches
    <3>5. now - answer[t].began <= MaxFetch /\ now <= now
      BY <1>0, <3>1 DEF FetchesInTime, Working
    <3> QED BY <2>0, <3>1, <3>4, <3>5 DEF FetchesInTime, Working
  <2>6. CASE NextRequest(t)
    <3>1. /\ \A u \in Workers \ {t} : stage'[u] = stage[u] /\ began'[u] = began[u] /\ answer'[u] = answer[u]
          /\ stage'[t] = "idle" /\ cache' = cache
      BY <1>0, <2>6 DEF NextRequest, To
    <3> QED BY <2>0, <3>1 DEF FetchesInTime, Working
  <2> QED BY <1>4, <2>1, <2>2, <2>3, <2>4, <2>5, <2>6 DEF WorkerStep
<1> QED BY <1>1, <1>2, <1>3, <1>4 DEF RCNext

\* No answer is sent of a fetch begun TTL + MaxFetch ago or more, whichever
\* threads filled, purged or evicted the cache meanwhile, also with an older
\* assessment over a newer one (_cache_get, _cache_put).
THEOREM RecentAnswers == RCSpec => AnswersRecent
<1> DEFINE Sent == \A t \in Workers : stage[t] # "answered" /\ stage'[t] = "answered" =>
                      now - answer'[t].began < TTL + MaxFetch
<1>1. ResolutionInv /\ FetchesInTime /\ [RCNext]_RCVars => [Sent]_RCVars
  <2> SUFFICES ASSUME ResolutionInv, FetchesInTime, RCNext,
                      NEW t \in Workers, stage[t] # "answered", stage'[t] = "answered"
               PROVE  now - answer'[t].began < TTL + MaxFetch
    BY DEF Sent
  <2>1. stage # stage' /\ \E u \in Workers : WorkerStep(u)
    BY DEF RCNext, Tick, Comment
  <2>2. PICK u \in Workers : WorkerStep(u)
    BY <2>1
  <2>3. u = t
    <3>1. \A v \in Workers \ {u} : stage'[v] = stage[v]
      BY <2>2 DEF WorkerStep, FetchComments, CacheHit, CacheMiss, FirstPage, LastPage, PrevPage, PageFails, Assess, Put,
                  NextRequest, To, ResolutionInv, RCTypeOK
    <3> QED BY <3>1
  <2>4. CacheHit(t) \/ Put(t)
    BY <2>2, <2>3 DEF WorkerStep, FetchComments, CacheHit, CacheMiss, FirstPage, LastPage, PrevPage, PageFails, Assess, Put,
                  NextRequest, To, ResolutionInv, RCTypeOK
  <2>5. /\ now \in Nat /\ MaxFetch \in Nat /\ TTL \in Nat \ {0} /\ asked[t] \in Issues
        /\ \A i \in Issues : cache[i] # NoEntry => cache[i].at \in Nat /\ cache[i].value.began \in Nat
        /\ stage[t] = "put" => answer[t].began \in Nat
    BY CacheAssumption DEF ResolutionInv, RCTypeOK, Answers, AnswersHeard
  <2>6. CASE CacheHit(t)
    <3>1. /\ answer'[t] = cache[asked[t]].value
          /\ cache[asked[t]] # NoEntry /\ now - cache[asked[t]].at < TTL
      BY <2>6 DEF CacheHit, Fresh, ResolutionInv, RCTypeOK
    <3>2. cache[asked[t]].at - cache[asked[t]].value.began <= MaxFetch
      BY <2>5, <3>1 DEF FetchesInTime
    <3> QED BY <2>5, <3>1, <3>2
  <2>7. CASE Put(t)
    <3>1. stage[t] = "put" /\ answer' = answer /\ now - answer[t].began <= MaxFetch
      BY <2>7 DEF Put, FetchesInTime, Working
    <3> QED BY <2>5, <3>1
  <2> QED BY <2>4, <2>6, <2>7
<1>2. ResolutionInv /\ FetchesInTime /\ [RCNext]_RCVars => FetchesInTime'
  BY TimesStep
<1> QED BY <1>1, <1>2, TimesInit, ResolutionInvariant, PTL DEF RCSpec, AnswersRecent
=============================================================================
