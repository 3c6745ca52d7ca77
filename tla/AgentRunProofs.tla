--------------------------- MODULE AgentRunProofs ---------------------------
(***************************************************************************)
(* What the agent may propose and from which diagnosis, for any paths,     *)
(* contents, answers of the models and numbers of rounds and operations.   *)
(***************************************************************************)
EXTENDS AgentRun, FiniteSetTheorems, SequenceTheorems, WellFoundedInduction, TLAPS

-----------------------------------------------------------------------------
(* The diagnosis: it is settled when the gate is reached                   *)

Settled ==
    /\ pc \in Acting => conf = "high"
    /\ pc \in Acting \cup {"gate"} /\ conf = "high" => cause = "model" /\ unseen = {}

LEMMA SettledInit == Init => Settled
BY DEF Init, Settled, Acting

LEMMA SettledStep == Settled /\ [Next]_vars => Settled'
<1> USE DEF Settled, Acting
<1>1. Settled /\ Investigate => Settled'
  <2>1. Settled /\ SeedFromTraces => Settled'
      BY DEF SeedFromTraces
  <2>2. Settled /\ CallFails => Settled'
      BY DEF CallFails, NoConclusion, Conclude
  <2>3. Settled /\ Converge => Settled'
      BY DEF Converge, Answered, Conclude
  <2>4. Settled /\ GiveUp => Settled'
      BY DEF GiveUp, NoConclusion, Conclude
  <2>5. Settled /\ ProposeActions => Settled'
      BY DEF ProposeActions
  <2>6. Settled /\ SearchOrList => Settled'
      BY DEF SearchOrList
  <2>7. Settled /\ EndOfActions => Settled'
      BY DEF EndOfActions
  <2>8. \A p \in Paths : Settled /\ ReadFile(p) => Settled'
      BY DEF ReadFile
  <2>9. Settled /\ MalformedAnswer => Settled'
      BY DEF MalformedAnswer
  <2>10. QED  BY <2>1, <2>2, <2>3, <2>4, <2>5, <2>6, <2>7, <2>8, <2>9 DEF Investigate
<1>2. Settled /\ Act => Settled'
  <2>1. Settled /\ Gate => Settled'
      BY DEF Gate, search, verdict
  <2>2. Settled /\ (Ground \/ Generate) => Settled'
      BY DEF Ground, Generate, search, verdict
  <2>3. \A op \in Ops : Settled /\ Apply(op) => Settled'
      BY DEF Apply, search, verdict
  <2>4. Settled /\ (BuildChanges \/ Draft \/ OpenPr \/ Notify) => Settled'
      BY DEF BuildChanges, Draft, OpenPr, Notify, search, verdict
  <2>5. QED  BY <2>1, <2>2, <2>3, <2>4 DEF Act
<1>3. Settled /\ UNCHANGED vars => Settled'
    BY DEF vars, search, verdict
<1>4. QED  BY <1>1, <1>2, <1>3 DEF Next

\* The agent proposes a change only on a root cause that a model stated with
\* confidence after it was shown every file and result gathered
\* (_investigate, _final_synthesis, _confidence_gate).
THEOREM EvidenceHolds == Spec => []ActsOnSeenEvidence
<1>1. Settled => ActsOnSeenEvidence
    BY DEF Settled, ActsOnSeenEvidence, Acting
<1>2. QED  BY <1>1, SettledInit, SettledStep, PTL DEF Spec
-----------------------------------------------------------------------------
(* The operations: each changes one place of one file                      *)

Texts == Seq(Tokens \cup {Empty})

FixShape ==
    /\ work \in [Paths -> Texts] /\ applied \in Seq(Ops)
    /\ \A p \in Paths : DOMAIN work[p] = DOMAIN Original[p]

Differs(p) == {i \in DOMAIN Original[p] : work[p][i] # Original[p][i]}

OpsOn(p) == {k \in DOMAIN applied : applied[k].path = p}

Exact(p) ==
    /\ Cardinality(Differs(p)) <= Cardinality(OpsOn(p))
    /\ \A i \in Differs(p) : \E k \in OpsOn(p) : work[p][i] = applied[k].replace

HunksInv == FixShape /\ \A p \in Paths : Exact(p)

\* An operation keeps the number of tokens
LEMMA ReplacedText ==
    ASSUME NEW content \in Texts, NEW op \in Ops
    PROVE  Replaced(content, op) \in Texts /\ DOMAIN Replaced(content, op) = DOMAIN content
<1>1. DOMAIN content = 1..Len(content) /\ Len(content) \in Nat
    BY LenProperties DEF Texts
<1>2. \A i \in DOMAIN content : content[i] \in Tokens \cup {Empty}
    BY <1>1, ElementOfSeq DEF Texts
<1>3. op.replace \in Tokens \cup {Empty}
    BY DEF Ops
<1>4. Replaced(content, op) \in [1..Len(content) -> Tokens \cup {Empty}]
    BY <1>1, <1>2, <1>3 DEF Replaced
<1>5. QED  BY <1>1, <1>4, IsASeq DEF Texts

\* One place more and one operation more
LEMMA OneMore ==
    ASSUME NEW D, IsFiniteSet(D), NEW K, IsFiniteSet(K), Cardinality(D) <= Cardinality(K),
           NEW i, NEW k, k \notin K, NEW E, E \subseteq D \cup {i}
    PROVE  Cardinality(E) <= Cardinality(K \cup {k})
<1>1. /\ IsFiniteSet(D \cup {i}) /\ Cardinality(D \cup {i}) <= Cardinality(D) + 1
      /\ Cardinality(D) \in Nat
  <2>1. Cardinality(D) \in Nat
      BY FS_CardinalityType
  <2>2. /\ IsFiniteSet(D \cup {i})
        /\ Cardinality(D \cup {i}) = IF i \in D THEN Cardinality(D) ELSE Cardinality(D) + 1
      BY FS_AddElement
  <2>3. QED  BY <2>1, <2>2
<1>2. /\ Cardinality(K \cup {k}) = Cardinality(K) + 1 /\ Cardinality(K) \in Nat
    BY FS_AddElement, FS_CardinalityType
<1>3. Cardinality(E) <= Cardinality(D \cup {i}) /\ Cardinality(E) \in Nat
    BY <1>1, FS_Subset, FS_CardinalityType
<1>4. Cardinality(D \cup {i}) \in Nat
    BY <1>1, FS_CardinalityType
<1>5. QED  BY <1>1, <1>2, <1>3, <1>4

\* The places of a file and the operations are finitely many
LEMMA FiniteParts ==
    ASSUME FixShape, NEW p \in Paths
    PROVE  IsFiniteSet(Differs(p)) /\ IsFiniteSet(OpsOn(p))
<1>1. DOMAIN Original[p] = 1..Len(Original[p]) /\ Len(Original[p]) \in Nat
    BY AgentAssumption, LenProperties
<1>2. DOMAIN applied = 1..Len(applied) /\ Len(applied) \in Nat
    BY LenProperties DEF FixShape
<1>3. \A n \in Nat : IsFiniteSet(1..n)
    BY FS_Interval
<1>4. Differs(p) \subseteq 1..Len(Original[p]) /\ OpsOn(p) \subseteq 1..Len(applied)
    BY <1>1, <1>2 DEF Differs, OpsOn
<1>5. QED  BY <1>1, <1>2, <1>3, <1>4, FS_Subset

LEMMA HunksInit == Init => HunksInv
<1> SUFFICES ASSUME Init PROVE HunksInv
    OBVIOUS
<1>1. FixShape
  <2>1. Seq(Tokens) \subseteq Texts
      BY SeqMonotonic DEF Texts
  <2>2. work \in [Paths -> Texts]
      BY <2>1, AgentAssumption DEF Init
  <2>3. applied \in Seq(Ops)
      BY EmptySeq DEF Init
  <2>4. QED  BY <2>2, <2>3 DEF Init, FixShape
<1>2. ASSUME NEW p \in Paths PROVE Exact(p)
  <2>1. Differs(p) = {} /\ OpsOn(p) = {}
      BY DEF Init, Differs, OpsOn
  <2>2. QED  BY <2>1, FS_EmptySet DEF Exact
<1>3. QED  BY <1>1, <1>2 DEF HunksInv

\* An operation that is accepted has one place in the file it names
LEMMA OnePlace ==
    ASSUME FixShape, NEW op \in Ops, Accepts(op)
    PROVE  \E hit \in DOMAIN work[op.path] :
              \A i \in DOMAIN work[op.path] :
                 Replaced(work[op.path], op)[i] = IF i = hit THEN op.replace ELSE work[op.path][i]
<1>1. op.path \in Paths /\ work[op.path] \in Texts
    BY DEF Ops, FixShape
<1>2. DOMAIN work[op.path] = 1..Len(work[op.path]) /\ Len(work[op.path]) \in Nat
    BY <1>1, LenProperties DEF Texts
<1>3. IsFiniteSet(Places(work[op.path], op.search))
  <2>1. IsFiniteSet(1..Len(work[op.path]))
      BY <1>2, FS_Interval
  <2>2. Places(work[op.path], op.search) \subseteq 1..Len(work[op.path])
      BY <1>2 DEF Places
  <2>3. QED  BY <2>1, <2>2, FS_Subset
<1>4. PICK hit : Places(work[op.path], op.search) = {hit}
    BY <1>3, FS_Singleton DEF Accepts
<1>5. hit \in DOMAIN work[op.path]
    BY <1>4 DEF Places
<1>6. \A i \in DOMAIN work[op.path] : work[op.path][i] = op.search <=> i = hit
    BY <1>4 DEF Places
<1>7. QED  BY <1>5, <1>6 DEF Replaced

LEMMA ApplyStep ==
    ASSUME HunksInv, NEW op \in Ops, Accepts(op),
           work' = [work EXCEPT ![op.path] = Replaced(@, op)], applied' = Append(applied, op)
    PROVE  HunksInv'
<1>1. FixShape /\ op.path \in Paths
    BY DEF HunksInv, Ops
<1>2. /\ applied' \in Seq(Ops) /\ Len(applied') = Len(applied) + 1
      /\ Len(applied) \in Nat /\ DOMAIN applied = 1..Len(applied)
      /\ DOMAIN applied' = 1..(Len(applied) + 1)
      /\ applied'[Len(applied) + 1] = op
      /\ \A k \in DOMAIN applied : applied'[k] = applied[k]
    BY <1>1, AppendProperties, LenProperties DEF FixShape
<1>3. FixShape'
    BY <1>1, <1>2, ReplacedText DEF FixShape
<1>4. ASSUME NEW p \in Paths, p # op.path PROVE Exact(p)'
  <2>1. work'[p] = work[p] /\ Exact(p)
      BY <1>1, <1>4 DEF HunksInv, FixShape
  <2>2. OpsOn(p)' = OpsOn(p)
      BY <1>2, <1>4 DEF OpsOn
  <2>3. Differs(p)' = Differs(p)
      BY <2>1 DEF Differs
  <2>4. \A k \in OpsOn(p) : applied'[k] = applied[k]
      BY <1>2 DEF OpsOn
  <2>5. Cardinality(Differs(p)') <= Cardinality(OpsOn(p)')
      BY <2>1, <2>2, <2>3 DEF Exact
  <2>6. ASSUME NEW i \in Differs(p)'
        PROVE  \E k \in OpsOn(p)' : work'[p][i] = applied'[k].replace
    <3>1. PICK k \in OpsOn(p) : work[p][i] = applied[k].replace
        BY <2>1, <2>3, <2>6 DEF Exact
    <3>2. k \in OpsOn(p)' /\ applied'[k] = applied[k]
        BY <2>2, <2>4
    <3>3. QED  BY <2>1, <3>1, <3>2
  <2>7. QED  BY <2>5, <2>6 DEF Exact
<1>5. Exact(op.path)'
  <2> DEFINE p == op.path
             new == Len(applied) + 1
  <2>1. PICK hit \in DOMAIN work[p] :
           \A i \in DOMAIN work[p] :
              Replaced(work[p], op)[i] = IF i = hit THEN op.replace ELSE work[p][i]
      BY <1>1, OnePlace
  <2>2. work'[p] = Replaced(work[p], op)
      BY <1>1 DEF FixShape
  <2>3. DOMAIN work[p] = DOMAIN Original[p]
      BY <1>1 DEF FixShape
  <2>4. \A i \in DOMAIN Original[p] :
           work'[p][i] = IF i = hit THEN op.replace ELSE work[p][i]
      BY <2>1, <2>2, <2>3
  <2>5. Differs(p)' \subseteq Differs(p) \cup {hit}
      BY <2>4 DEF Differs
  <2>6. OpsOn(p)' = OpsOn(p) \cup {new} /\ new \notin OpsOn(p)
      BY <1>2 DEF OpsOn
  <2>7. Cardinality(Differs(p)') <= Cardinality(OpsOn(p)')
    <3>1. Cardinality(Differs(p)) <= Cardinality(OpsOn(p))
        BY <1>1 DEF HunksInv, Exact
    <3>2. IsFiniteSet(Differs(p)) /\ IsFiniteSet(OpsOn(p))
        BY <1>1, FiniteParts
    <3>3. QED  BY <2>5, <2>6, <3>1, <3>2, OneMore
  <2>8. ASSUME NEW i \in Differs(p)'
        PROVE  \E k \in OpsOn(p)' : work'[p][i] = applied'[k].replace
    <3>1. CASE i = hit
        BY <1>2, <2>4, <2>6, <2>8, <3>1 DEF Differs
    <3>2. CASE i # hit
      <4>1. i \in Differs(p) /\ work'[p][i] = work[p][i]
          BY <2>4, <2>5, <2>8, <3>2 DEF Differs
      <4>2. PICK k \in OpsOn(p) : work[p][i] = applied[k].replace
          BY <1>1, <4>1 DEF HunksInv, Exact
      <4>3. applied'[k] = applied[k]
          BY <1>2 DEF OpsOn
      <4>4. QED  BY <2>6, <4>1, <4>2, <4>3
    <3>3. QED  BY <3>1, <3>2
  <2>9. QED  BY <2>7, <2>8 DEF Exact
<1>6. QED  BY <1>3, <1>4, <1>5 DEF HunksInv

\* What leaves the edits alone
LEMMA HunksKept == HunksInv /\ UNCHANGED <<work, applied>> => HunksInv'
BY DEF HunksInv, FixShape, Exact, Differs, OpsOn

LEMMA HunksStep == HunksInv /\ [Next]_vars => HunksInv'
<1>1. ASSUME HunksInv, NEW op \in Ops, Apply(op) PROVE HunksInv'
  <2>1. CASE Accepts(op)
      BY <1>1, <2>1, ApplyStep DEF Apply
  <2>2. CASE ~Accepts(op)
      BY <1>1, <2>2, HunksKept DEF Apply
  <2>3. QED  BY <2>1, <2>2
<1>2. Investigate => UNCHANGED <<work, applied>>
    BY DEF Investigate, SeedFromTraces, CallFails, Converge, GiveUp, MalformedAnswer,
           ProposeActions, SearchOrList, EndOfActions, ReadFile, edit
<1>3. Gate \/ Ground \/ Generate \/ BuildChanges \/ Draft \/ OpenPr \/ Notify
         => UNCHANGED <<work, applied>>
    BY DEF Gate, Ground, Generate, BuildChanges, Draft, OpenPr, Notify, edit
<1>4. UNCHANGED vars => UNCHANGED <<work, applied>>
    BY DEF vars, edit
<1>5. QED  BY <1>1, <1>2, <1>3, <1>4, HunksKept DEF Next, Act

\* However many operations a proposal has and in whatever order they come, each
\* changes one place of one file (_build_real_changes, _apply_change).
THEOREM HunksHold == Spec => []HunksExact
<1>1. HunksInv => HunksExact
    BY DEF HunksInv, Exact, Differs, OpsOn, HunksExact
<1>2. QED  BY <1>1, HunksInit, HunksStep, PTL DEF Spec
-----------------------------------------------------------------------------
(* The proposal: what is changed may be edited                             *)

Before == {"seed", "ask", "act", "final", "gate", "ground", "generate"}

Confined(f) == f.paths \cap Docs # {} => RangeOf(files) \subseteq Docs

ProposalInv ==
    /\ files \in Seq(Paths) /\ work = [p \in Paths |-> work[p]]
    /\ pc \in Before => work = Original
    /\ pc \in Before \cup {"ops"} => fix = NoFix
    /\ \A p \in Paths : work[p] # Original[p] => p \in Editable
    /\ fix.kind = "edits" => \A p \in fix.paths : work[p] # Original[p]
    /\ Confined(fix)

\* Documentation is editable only when there is nothing else
LEMMA EditableDocs ==
    /\ Editable \subseteq RangeOf(files)
    /\ Editable \cap Docs # {} => RangeOf(files) \subseteq Docs
    /\ RangeOf(files) # {} => Editable # {}
BY DEF Editable

\* There is a first file that may be edited
LEMMA FirstExists ==
    ASSUME files \in Seq(Paths), files # <<>>
    PROVE  \E i \in DOMAIN files : FirstEditable(i)
<1> DEFINE Places0 == {i \in DOMAIN files : files[i] \in Editable}
<1>1. DOMAIN files = 1..Len(files) /\ Len(files) \in Nat
    BY LenProperties
<1>2. Places0 # {}
  <2>1. Len(files) # 0
      BY EmptySeq
  <2>2. 1 \in DOMAIN files
      BY <1>1, <2>1
  <2>3. RangeOf(files) # {}
      BY <2>2 DEF RangeOf
  <2>4. QED  BY <2>3, EditableDocs DEF RangeOf
<1>3. PICK i \in Places0 : \A j \in Places0 : ~(<<j, i>> \in OpToRel(<, Nat))
  <2>1. Places0 \subseteq Nat
      BY <1>1
  <2> HIDE DEF Places0
  <2>2. QED  BY <1>2, <2>1, NatLessThanWellFounded, WFMin
<1>4. \A j \in Places0 : i <= j
  <2> SUFFICES ASSUME NEW j \in Places0 PROVE i <= j
      OBVIOUS
  <2>1. i \in Nat /\ j \in Nat
      BY <1>1
  <2>2. ~(<<j, i>> \in OpToRel(<, Nat))
      BY <1>3
  <2>3. ~(j < i)
      BY <2>1, <2>2 DEF OpToRel
  <2>4. QED  BY <2>1, <2>3
<1>5. QED  BY <1>3, <1>4 DEF FirstEditable

LEMMA PlaceholderConfined ==
    ASSUME files \in Seq(Paths)
    PROVE  Confined(Placeholder) /\ Placeholder.kind # "edits"
<1>1. CASE files = <<>>
    BY <1>1 DEF Confined, Placeholder, RangeOf
<1>2. CASE files # <<>>
  <2>1. \E i \in DOMAIN files : FirstEditable(i)
      BY <1>2, FirstExists
  <2>2. Target \in Editable
      BY <1>2, <2>1 DEF Target, FirstEditable
  <2>3. QED  BY <2>2, EditableDocs DEF Confined, Placeholder
<1>3. QED  BY <1>1, <1>2

LEMMA ProposalInit == Init => ProposalInv
BY AgentAssumption, EmptySeq DEF Init, ProposalInv, Before, NoFix, Confined

\* The investigation comes before any edit
LEMMA InvestigateProposal == ProposalInv /\ Investigate => ProposalInv'
<1> SUFFICES ASSUME ProposalInv, Investigate PROVE ProposalInv'
    OBVIOUS
<1>1. files' \in Seq(Paths)
  <2>1. CASE SeedFromTraces
    <3>1. files' \in Seeds
        BY <2>1 DEF SeedFromTraces, Without
    <3>2. PICK n \in 0..Cardinality(Paths) : files' \in [1..n -> Paths]
        BY <3>1 DEF Seeds
    <3>3. n \in Nat
        BY <3>2, AgentAssumption, FS_CardinalityType
    <3>4. QED  BY <3>2, <3>3, IsASeq
  <2>2. CASE \E p \in Paths : ReadFile(p)
      BY <2>2, AppendProperties DEF ReadFile, ProposalInv
  <2>3. CASE \/ CallFails \/ Converge \/ GiveUp \/ MalformedAnswer \/ ProposeActions
             \/ SearchOrList \/ EndOfActions
      BY <2>3 DEF CallFails, Converge, GiveUp, MalformedAnswer, ProposeActions, SearchOrList,
                  EndOfActions, search, ProposalInv
  <2>4. QED  BY <2>1, <2>2, <2>3 DEF Investigate
<1>2. pc \in Before /\ work' = work /\ fix' = fix
    BY DEF Investigate, SeedFromTraces, CallFails, Converge, GiveUp, MalformedAnswer,
           ProposeActions, SearchOrList, EndOfActions, ReadFile, NoConclusion, Conclude, edit, Before
<1>3. QED  BY <1>1, <1>2 DEF ProposalInv, NoFix, Confined

LEMMA ApplyProposal ==
    ASSUME ProposalInv, NEW op \in Ops, Apply(op)
    PROVE  ProposalInv'
<1>1. /\ pc = "ops" /\ pc' \in {"ops", "raised"} /\ files' = files
      /\ fix' = fix /\ fix = NoFix
    BY DEF Apply, search, ProposalInv
<1>2. Editable' = Editable
    BY <1>1 DEF Editable
<1>3. CASE Accepts(op)
  <2>1. op.path \in Editable /\ work' = [work EXCEPT ![op.path] = Replaced(@, op)]
      BY <1>3 DEF Apply, Accepts
  <2>2. \A p \in Paths : p # op.path => work'[p] = work[p]
      BY <2>1 DEF ProposalInv
  <2>3. work' = [p \in Paths |-> work'[p]]
      BY <2>1 DEF ProposalInv
  <2>4. QED  BY <1>1, <1>2, <2>1, <2>2, <2>3 DEF ProposalInv, Before, NoFix, Confined
<1>4. CASE ~Accepts(op)
  <2>1. work' = work
      BY <1>4 DEF Apply
  <2>2. QED  BY <1>1, <1>2, <2>1 DEF ProposalInv, Before, NoFix, Confined
<1>5. QED  BY <1>3, <1>4

LEMMA ActProposal ==
    ASSUME ProposalInv, files' = files, work' = work, pc' \notin Before \cup {"ops"},
           fix' = fix \/ fix' = Placeholder \/ fix' = [kind |-> "edits", paths |-> Changed]
    PROVE  ProposalInv'
<1>1. Editable' = Editable /\ \A f : Confined(f)' <=> Confined(f)
    BY DEF Editable, Confined
<1>2. Changed \subseteq Editable /\ \A p \in Changed : work[p] # Original[p]
  <2>1. RangeOf(files) \subseteq Paths
      BY LenProperties, ElementOfSeq DEF RangeOf, ProposalInv
  <2>2. QED  BY <2>1 DEF Changed, ProposalInv
<1>3. Confined(fix') /\ (fix'.kind = "edits" => \A p \in fix'.paths : work[p] # Original[p])
  <2>1. CASE fix' = fix
      BY <2>1 DEF ProposalInv
  <2>2. CASE fix' = Placeholder
      BY <2>2, PlaceholderConfined DEF ProposalInv
  <2>3. CASE fix' = [kind |-> "edits", paths |-> Changed]
      BY <1>2, <2>3, EditableDocs DEF Confined
  <2>4. QED  BY <2>1, <2>2, <2>3
<1>4. QED  BY <1>1, <1>3 DEF ProposalInv, Confined

LEMMA ProposalStep == ProposalInv /\ [Next]_vars => ProposalInv'
<1> SUFFICES ASSUME ProposalInv, [Next]_vars PROVE ProposalInv'
    OBVIOUS
<1>1. CASE Investigate  BY <1>1, InvestigateProposal
<1>2. CASE \E op \in Ops : Apply(op)  BY <1>2, ApplyProposal
<1>3. CASE Gate \/ Ground \/ UNCHANGED vars
  <2>1. /\ files' = files /\ work' = work /\ fix' = fix
        /\ pc' \in Before \cup {"ops"} => pc \in Before \cup {"ops"}
        /\ pc' \in Before => pc \in Before
      BY <1>3 DEF Gate, Ground, vars, search, edit, Before
  <2>2. QED  BY <2>1 DEF ProposalInv, Editable, Confined
<1>4. CASE Generate
  <2>1. CASE pc' = "ops"
    <3>1. pc \in Before /\ files' = files /\ work' = work /\ fix' = fix
        BY <1>4, <2>1 DEF Generate, search, edit, Before
    <3>2. QED  BY <2>1, <3>1 DEF ProposalInv, Editable, Confined, Before
  <2>2. CASE pc' # "ops"
    <3>1. /\ files' = files /\ work' = work /\ (fix' = fix \/ fix' = Placeholder)
          /\ pc' \notin Before \cup {"ops"}
        BY <1>4, <2>2 DEF Generate, search, edit, Before
    <3>2. QED  BY <3>1, ActProposal
  <2>3. QED  BY <2>1, <2>2
<1>5. CASE BuildChanges \/ Draft \/ OpenPr \/ Notify
  <2>1. /\ files' = files /\ work' = work /\ pc' \notin Before \cup {"ops"}
        /\ fix' = fix \/ fix' = Placeholder \/ fix' = [kind |-> "edits", paths |-> Changed]
      BY <1>5 DEF BuildChanges, Draft, OpenPr, Notify, search, edit, Before
  <2>2. QED  BY <2>1, ActProposal
<1>6. QED  BY <1>1, <1>2, <1>3, <1>4, <1>5 DEF Next, Act

\* A proposal of edits changes every file it names, and documentation is left
\* alone unless nothing else was retrieved (_build_real_changes,
\* _editable_files, _fallback_changes).
THEOREM ProposalHolds == Spec => []ProposalConfined
<1>1. ProposalInv => ProposalConfined
    BY DEF ProposalInv, Confined, ProposalConfined
<1>2. QED  BY <1>1, ProposalInit, ProposalStep, PTL DEF Spec
-----------------------------------------------------------------------------
(* The types, and that the agent cannot go on for ever                     *)

Bounded ==
    /\ pc = "seed" => seen = {} /\ round = 0
    /\ pc = "ask" => round < Rounds
    /\ Len(applied) + rejected <= MaxOps

Typed == TypeOK /\ Bounded

LEMMA SeedsAreLists == Seeds \subseteq Seq(Paths)
<1> SUFFICES ASSUME NEW s \in Seeds PROVE s \in Seq(Paths)
    OBVIOUS
<1>1. PICK n \in 0..Cardinality(Paths) : s \in [1..n -> Paths]
    BY DEF Seeds
<1>2. n \in Nat
    BY AgentAssumption, FS_CardinalityType
<1>3. QED  BY <1>1, <1>2, IsASeq

LEMMA ListedPaths == \A s \in Seq(Paths) : RangeOf(s) \subseteq Paths
BY LenProperties, ElementOfSeq DEF RangeOf

\* The placeholder replaces a file that was retrieved, or none
LEMMA PlaceholderTyped == files \in Seq(Paths) => Placeholder \in Fixes
<1> SUFFICES ASSUME files \in Seq(Paths) PROVE Placeholder \in Fixes
    OBVIOUS
<1>1. Target \in Paths \cup {NoFile}
  <2>1. CASE files = <<>>
      BY <2>1 DEF Target
  <2>2. CASE files # <<>>
    <3>1. \E i \in DOMAIN files : FirstEditable(i)
        BY <2>2, FirstExists
    <3>2. Target \in RangeOf(files)
        BY <2>2, <3>1 DEF Target, RangeOf
    <3>3. QED  BY <3>2, ListedPaths
  <2>3. QED  BY <2>1, <2>2
<1>2. QED  BY <1>1 DEF Placeholder, Fixes

LEMMA TypedInit == Init => Typed
<1> SUFFICES ASSUME Init PROVE Typed
    OBVIOUS
<1>1. suspected \in Seq(Paths)
    BY SeedsAreLists DEF Init
<1>2. work \in [Paths -> Seq(Tokens \cup {Empty})]
  <2>1. Seq(Tokens) \subseteq Seq(Tokens \cup {Empty})
      BY SeqMonotonic
  <2>2. QED  BY <2>1, AgentAssumption DEF Init
<1>3. files \in Seq(Paths) /\ applied \in Seq(Ops) /\ Len(applied) = 0
    BY EmptySeq DEF Init
<1>4. QED  BY <1>1, <1>2, <1>3, AgentAssumption
              DEF Init, Typed, TypeOK, Bounded, Pc, Acting, Outcomes, Fixes

LEMMA InvestigateTyped ==
    ASSUME Typed, Investigate
    PROVE  Typed'
<1>1. /\ work' = work /\ applied' = applied /\ rejected' = rejected /\ fix' = fix
      /\ outcome' = outcome /\ suspected' = suspected
    BY DEF Investigate, SeedFromTraces, CallFails, Converge, GiveUp, MalformedAnswer,
           ProposeActions, SearchOrList, ReadFile, EndOfActions, search, edit
<1>2. /\ pc' \in Pc /\ round' \in 0..Rounds /\ pc' # "seed"
      /\ pc' = "ask" => round' < Rounds
  <2>1. pc' \in Pc /\ pc' # "seed"
      BY DEF Investigate, SeedFromTraces, CallFails, Converge, GiveUp, MalformedAnswer,
             ProposeActions, SearchOrList, ReadFile, EndOfActions, NoConclusion, Conclude, Pc, search
  <2>2. round \in 0..Rounds /\ Rounds \in Nat \ {0} /\ (pc = "ask" => round < Rounds)
      BY AgentAssumption DEF Typed, TypeOK, Bounded
  <2>3. CASE ProposeActions
      BY <2>1, <2>2, <2>3 DEF ProposeActions
  <2>4. CASE ~ProposeActions
    <3>1. round' = round /\ (pc' = "ask" => pc = "seed" \/ round < Rounds)
        BY <2>4 DEF Investigate, SeedFromTraces, CallFails, Converge, GiveUp, MalformedAnswer,
                    SearchOrList, ReadFile, EndOfActions, NoConclusion, Conclude, search
    <3>2. QED  BY <2>1, <2>2, <3>1 DEF Typed, Bounded
  <2>5. QED  BY <2>1, <2>3, <2>4
<1>3. cause' \in {"none", "model", "fallback"} /\ conf' \in {"zero", "low", "high"}
  <2>1. cause \in {"none", "model", "fallback"} /\ conf \in {"zero", "low", "high"}
      BY DEF Typed, TypeOK
  <2>2. QED  BY <2>1 DEF Investigate, SeedFromTraces, CallFails, Converge, GiveUp,
                         MalformedAnswer, ProposeActions, SearchOrList, ReadFile, EndOfActions,
                         NoConclusion, Conclude, verdict
<1>4. seen' \subseteq Paths /\ files' \in Seq(Paths) /\ unseen' \subseteq Paths \cup {"result"}
  <2>1. /\ suspected \in Seq(Paths) /\ seen \subseteq Paths /\ files \in Seq(Paths)
        /\ unseen \subseteq Paths \cup {"result"}
      BY DEF Typed, TypeOK
  <2>2. CASE SeedFromTraces
    <3>1. files' \in Seq(Paths)
        BY <2>2, SeedsAreLists DEF SeedFromTraces, Without
    <3>2. RangeOf(files') \subseteq Paths /\ RangeOf(suspected) \subseteq Paths
        BY <2>1, <3>1, ListedPaths
    <3>3. QED  BY <2>2, <3>1, <3>2 DEF SeedFromTraces
  <2>3. ASSUME NEW p \in Paths, ReadFile(p)
        PROVE  /\ seen' \subseteq Paths /\ files' \in Seq(Paths)
               /\ unseen' \subseteq Paths \cup {"result"}
    <3>1. Append(files, p) \in Seq(Paths)
        BY <2>1, AppendProperties
    <3>2. QED  BY <2>1, <2>3, <3>1 DEF ReadFile
  <2>4. CASE \/ CallFails \/ Converge \/ GiveUp \/ MalformedAnswer \/ ProposeActions
             \/ SearchOrList \/ EndOfActions
      BY <2>1, <2>4 DEF CallFails, Converge, GiveUp, MalformedAnswer, ProposeActions,
                        SearchOrList, EndOfActions, Answered, search
  <2>5. QED  BY <2>2, <2>3, <2>4 DEF Investigate
<1>5. QED  BY <1>1, <1>2, <1>3, <1>4 DEF Typed, TypeOK, Bounded

LEMMA ActTyped ==
    ASSUME Typed, Act
    PROVE  Typed'
<1>1. /\ pc' \in Pc /\ pc' # "seed" /\ pc' # "ask"
      /\ suspected' = suspected /\ seen' = seen /\ files' = files /\ round' = round
      /\ unseen' = unseen /\ cause' = cause /\ conf' = conf
    BY DEF Act, Gate, Ground, Generate, Apply, BuildChanges, Draft, OpenPr, Notify,
           search, verdict, Pc, Acting
<1>2. /\ work \in [Paths -> Seq(Tokens \cup {Empty})] /\ applied \in Seq(Ops)
      /\ rejected \in Nat /\ MaxOps \in Nat /\ Len(applied) \in Nat
      /\ Len(applied) + rejected <= MaxOps
    BY AgentAssumption, LenProperties DEF Typed, TypeOK, Bounded
<1>3. /\ work' \in [Paths -> Seq(Tokens \cup {Empty})] /\ applied' \in Seq(Ops)
      /\ rejected' \in Nat /\ Len(applied') + rejected' <= MaxOps
  <2>1. ASSUME NEW op \in Ops, Apply(op), Accepts(op) 
        PROVE  /\ work' \in [Paths -> Seq(Tokens \cup {Empty})] /\ applied' \in Seq(Ops)
               /\ rejected' \in Nat /\ Len(applied') + rejected' <= MaxOps
    <3>1. op.path \in Paths
        BY DEF Ops
    <3>2. Replaced(work[op.path], op) \in Seq(Tokens \cup {Empty})
        BY <1>2, <3>1, ReplacedText DEF Texts
    <3>3. work' \in [Paths -> Seq(Tokens \cup {Empty})]
        BY <1>2, <2>1, <3>2 DEF Apply
    <3>4. applied' \in Seq(Ops) /\ Len(applied') = Len(applied) + 1
        BY <1>2, <2>1, AppendProperties DEF Apply
    <3>5. QED  BY <1>2, <2>1, <3>3, <3>4 DEF Apply
  <2>2. ASSUME NEW op \in Ops, Apply(op), ~Accepts(op) 
        PROVE  /\ work' \in [Paths -> Seq(Tokens \cup {Empty})] /\ applied' \in Seq(Ops)
               /\ rejected' \in Nat /\ Len(applied') + rejected' <= MaxOps
      BY <1>2, <2>2 DEF Apply
  <2>3. CASE ~\E op \in Ops : Apply(op)
    <3>1. work' = work /\ applied' = applied /\ rejected' = rejected
        BY <2>3 DEF Act, Gate, Ground, Generate, BuildChanges, Draft, OpenPr, Notify, edit
    <3>2. QED  BY <1>2, <3>1
  <2>4. QED  BY <2>1, <2>2, <2>3
<1>4. fix' \in Fixes /\ outcome' \in Outcomes
  <2>1. fix \in Fixes /\ outcome \in Outcomes /\ files \in Seq(Paths)
      BY DEF Typed, TypeOK
  <2>2. Changed \subseteq Paths
      BY <2>1, ListedPaths DEF Changed
  <2>3. [kind |-> "edits", paths |-> Changed] \in Fixes /\ Placeholder \in Fixes
      BY <2>1, <2>2, PlaceholderTyped DEF Fixes
  <2>4. /\ fix' = fix \/ fix' = Placeholder \/ fix' = [kind |-> "edits", paths |-> Changed]
        /\ outcome' = outcome \/ outcome' \in {"dry_run", "pr_opened", "failed"}
      BY DEF Act, Gate, Ground, Generate, Apply, BuildChanges, Draft, OpenPr, Notify
  <2>5. QED  BY <2>1, <2>3, <2>4 DEF Outcomes
<1>5. QED  BY <1>1, <1>3, <1>4 DEF Typed, TypeOK, Bounded

LEMMA TypedStep == Typed /\ [Next]_vars => Typed'
<1>1. Typed /\ UNCHANGED vars => Typed'
    BY DEF Typed, TypeOK, Bounded, vars, search, verdict, edit
<1>2. QED  BY <1>1, InvestigateTyped, ActTyped DEF Next

\* The types of the agent's state (AgentState, InvestigationResult).
THEOREM TypesHold == Spec => []TypeOK
<1>1. Typed => TypeOK
    BY DEF Typed
<1>2. QED  BY <1>1, TypedInit, TypedStep, PTL DEF Spec

\* How much of the graph is ahead of a node; a round is an "ask" and an "act"
Ahead == [label \in Pc |->
    CASE label = "seed" -> 11  [] label = "act" -> 10    [] label = "ask" -> 9
      [] label = "final" -> 8  [] label = "gate" -> 7    [] label = "ground" -> 6
      [] label = "generate" -> 5 [] label = "ops" -> 4   [] label = "draft" -> 3
      [] label = "open" -> 2   [] label = "notify" -> 1  [] OTHER -> 0]

\* Listing and searching leave a trace once per round; a path is read once
ToList == IF pc = "act" /\ "result" \notin unseen THEN 1 ELSE 0
ToRead == Cardinality(Paths \ seen)
ToApply == MaxOps - (Len(applied) + rejected)

Rank == ToRead + 3 * (Rounds - round) + Ahead[pc] + ToList + ToApply

\* Marking paths as seen leaves no more to read, and a path that was not, fewer
LEMMA ReadingEnds ==
    ASSUME NEW S \in SUBSET Paths, NEW T \in SUBSET Paths, S \subseteq T
    PROVE  /\ Cardinality(Paths \ S) \in Nat /\ Cardinality(Paths \ T) \in Nat
           /\ Cardinality(Paths \ T) <= Cardinality(Paths \ S)
           /\ S # T => Cardinality(Paths \ T) < Cardinality(Paths \ S)
<1>1. /\ IsFiniteSet(Paths \ S) /\ IsFiniteSet(Paths \ T) /\ Paths \ T \subseteq Paths \ S
    BY AgentAssumption, FS_Subset
<1>2. Cardinality(Paths \ S) \in Nat /\ Cardinality(Paths \ T) \in Nat
    BY <1>1, FS_CardinalityType
<1>3. Cardinality(Paths \ T) <= Cardinality(Paths \ S)
    BY <1>1, FS_Subset
<1>4. S # T => Paths \ T # Paths \ S
    OBVIOUS
<1>5. Cardinality(Paths \ T) = Cardinality(Paths \ S) => Paths \ T = Paths \ S
    BY <1>1, FS_Subset
<1>6. QED  BY <1>2, <1>3, <1>4, <1>5

RankTyped ==
    /\ ToRead \in Nat /\ Rounds - round \in Nat /\ Ahead[pc] \in 0..11
    /\ ToList \in {0, 1} /\ ToApply \in Nat /\ Rank \in Nat

LEMMA RankParts == Typed => RankTyped
<1> SUFFICES ASSUME Typed PROVE RankTyped
    OBVIOUS
<1>1. ToRead \in Nat
    BY ReadingEnds DEF ToRead, Typed, TypeOK
<1>2. Rounds - round \in Nat
    BY AgentAssumption DEF Typed, TypeOK
<1>3. Ahead[pc] \in 0..11
    BY DEF Ahead, Typed, TypeOK
<1>4. ToList \in {0, 1}
    BY DEF ToList
<1>5. ToApply \in Nat
  <2>1. Len(applied) \in Nat
      BY LenProperties DEF Typed, TypeOK
  <2>2. QED  BY <2>1, AgentAssumption DEF ToApply, Typed, TypeOK, Bounded
<1>6. QED  BY <1>1, <1>2, <1>3, <1>4, <1>5 DEF Rank, RankTyped

LEMMA RankPartsNext == Typed' => RankTyped'
BY RankParts, PTL

\* Every step leaves less of an investigation
LEMMA InvestigateEnds ==
    ASSUME Typed, Typed', Investigate, vars' # vars
    PROVE  Rank' < Rank
<1>1. /\ ToRead \in Nat /\ Rounds - round \in Nat /\ Ahead[pc] \in 0..11
      /\ ToList \in {0, 1} /\ ToApply \in Nat
    BY RankParts DEF RankTyped
<1>2. /\ ToRead' \in Nat /\ Rounds - round' \in Nat /\ Ahead[pc'] \in 0..11
      /\ ToList' \in {0, 1} /\ ToApply' \in Nat
    BY RankPartsNext DEF RankTyped
<1>3. ToApply' = ToApply
    BY DEF Investigate, SeedFromTraces, CallFails, Converge, GiveUp, MalformedAnswer,
           ProposeActions, SearchOrList, ReadFile, EndOfActions, search, edit, ToApply
<1>4. seen \subseteq Paths /\ seen' \subseteq Paths
    BY DEF Typed, TypeOK
<1>5. CASE ProposeActions
  <2>1. ToRead' = ToRead /\ round' = round + 1 /\ Ahead[pc'] = 10 /\ Ahead[pc] = 9
      BY <1>5 DEF ProposeActions, ToRead, Ahead, Pc, Acting
  <2>2. round \in Nat /\ Rounds \in Nat
      BY AgentAssumption DEF Typed, TypeOK
  <2>3. 3 * (Rounds - round') + 3 = 3 * (Rounds - round) /\ 3 * (Rounds - round') \in Nat
      BY <1>2, <2>1, <2>2
  <2>4. QED  BY <1>1, <1>2, <1>3, <2>1, <2>3 DEF Rank
<1>6. CASE SeedFromTraces
  <2>1. seen = {} /\ Ahead[pc] = 11 /\ Ahead[pc'] = 9 /\ round' = round
      BY <1>6 DEF SeedFromTraces, Typed, Bounded, Ahead, Pc, Acting
  <2>2. ToRead' <= ToRead
      BY <1>4, <2>1, ReadingEnds DEF ToRead
  <2>3. QED  BY <1>1, <1>2, <1>3, <2>1, <2>2 DEF Rank
<1>7. CASE CallFails \/ Converge \/ GiveUp \/ MalformedAnswer \/ EndOfActions
  <2>1. /\ Ahead[pc'] < Ahead[pc] /\ round' = round /\ seen' = seen /\ ToList' = 0
      BY <1>7 DEF CallFails, Converge, GiveUp, MalformedAnswer, EndOfActions, NoConclusion,
                  Conclude, search, Ahead, Pc, Acting, ToList
  <2>2. ToRead' = ToRead
      BY <2>1 DEF ToRead
  <2>3. QED  BY <1>1, <1>2, <1>3, <2>1, <2>2 DEF Rank
<1>8. CASE SearchOrList
  <2>1. /\ pc' = pc /\ pc = "act" /\ round' = round /\ seen' = seen
        /\ unseen' = unseen \cup {"result"}
      BY <1>8 DEF SearchOrList
  <2>2. unseen' # unseen
      BY <1>8 DEF SearchOrList, vars, search
  <2>3. ToList = 1 /\ ToList' = 0 /\ ToRead' = ToRead
      BY <2>1, <2>2 DEF ToList, ToRead
  <2>4. QED  BY <1>1, <1>2, <1>3, <2>1, <2>3 DEF Rank
<1>9. ASSUME NEW p \in Paths, ReadFile(p) PROVE Rank' < Rank
  <2>1. /\ pc' = pc /\ round' = round /\ seen' = seen \cup {p} /\ p \notin seen
        /\ unseen \subseteq unseen'
      BY <1>9 DEF ReadFile
  <2>2. seen' # seen /\ seen \subseteq seen'
      BY <2>1
  <2>3. Cardinality(Paths \ seen') < Cardinality(Paths \ seen)
      BY <1>4, <2>2, ReadingEnds
  <2>4. ToRead' < ToRead
      BY <2>3 DEF ToRead
  <2>5. ToList' <= ToList
      BY <2>1 DEF ToList
  <2>6. QED  BY <1>1, <1>2, <1>3, <2>1, <2>4, <2>5 DEF Rank
<1>10. QED  BY <1>5, <1>6, <1>7, <1>8, <1>9 DEF Investigate

\* And of what comes after it
LEMMA ActEnds ==
    ASSUME Typed, Typed', Act
    PROVE  Rank' < Rank
<1>1. /\ ToRead \in Nat /\ Rounds - round \in Nat /\ Ahead[pc] \in 0..11
      /\ ToList \in {0, 1} /\ ToApply \in Nat
    BY RankParts DEF RankTyped
<1>2. /\ ToApply' \in Nat /\ Ahead[pc'] \in 0..11
    BY RankPartsNext DEF RankTyped
<1>3. ToRead' = ToRead /\ round' = round /\ ToList = 0 /\ ToList' = 0
    BY DEF Act, Gate, Ground, Generate, Apply, BuildChanges, Draft, OpenPr, Notify, search,
           ToRead, ToList
<1>4. ASSUME NEW op \in Ops, Apply(op) PROVE Rank' < Rank
  <2>1. applied \in Seq(Ops) /\ Len(applied) \in Nat /\ rejected \in Nat /\ MaxOps \in Nat
      BY AgentAssumption, LenProperties DEF Typed, TypeOK
  <2>2. Len(applied') + rejected' = Len(applied) + rejected + 1
    <3>1. CASE Accepts(op)
      <4>1. Len(applied') = Len(applied) + 1 /\ rejected' = rejected
          BY <1>4, <2>1, <3>1, AppendProperties DEF Apply
      <4>2. QED  BY <2>1, <4>1
    <3>2. CASE ~Accepts(op)
        BY <1>4, <2>1, <3>2 DEF Apply
    <3>3. QED  BY <3>1, <3>2
  <2>3. ToApply' = ToApply - 1
      BY <2>1, <2>2 DEF ToApply
  <2>4. Ahead[pc'] <= Ahead[pc]
      BY <1>4, <1>1 DEF Apply, Ahead, Pc, Acting
  <2>5. QED  BY <1>1, <1>2, <1>3, <2>3, <2>4 DEF Rank
<1>5. CASE ~\E op \in Ops : Apply(op)
  <2>1. applied' = applied /\ rejected' = rejected
      BY <1>5 DEF Act, Gate, Ground, Generate, BuildChanges, Draft, OpenPr, Notify, edit
  <2>2. ToApply' = ToApply
      BY <2>1 DEF ToApply
  <2>3. Ahead[pc'] < Ahead[pc]
      BY <1>5 DEF Act, Gate, Ground, Generate, BuildChanges, Draft, OpenPr, Notify,
                  Ahead, Pc, Acting
  <2>4. QED  BY <1>1, <1>2, <1>3, <2>2, <2>3 DEF Rank
<1>6. QED  BY <1>4, <1>5

Lessens == Rank \in Nat /\ Rank' \in Nat /\ Rank' < Rank

\* Whatever the models answer, search for and propose, each step of the agent
\* leaves less than there was, of a natural number: no execution has more steps
\* than the first value of Rank, and what AgentEnds adds is that the thread goes
\* on (_investigate, _build_real_changes).
THEOREM StepsBounded == Spec => [][Lessens]_vars
<1>1. Typed /\ Typed' /\ [Next]_vars => [Lessens]_vars
    BY InvestigateEnds, ActEnds, RankParts, RankPartsNext DEF Next, RankTyped, Lessens
<1>2. QED  BY <1>1, TypedInit, TypedStep, PTL DEF Spec
=============================================================================
