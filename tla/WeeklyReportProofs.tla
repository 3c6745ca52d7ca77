------------------------- MODULE WeeklyReportProofs -------------------------
(***************************************************************************)
(* What the self-heal loop counts is true, for any number of days, runs,   *)
(* failures and log writers.  A report is a sum over days of sums over     *)
(* runs: the first part says what SumFunctionOnSet, a recursive function,  *)
(* computes, by well-founded induction over the subsets of a finite set.   *)
(***************************************************************************)
EXTENDS WeeklyReport, FiniteSetTheorems, WellFoundedInduction, TLAPS

\* Among sets of subsets of a finite set there are minimal ones
LEMMA MinimalSubset ==
    ASSUME NEW S, IsFiniteSet(S), NEW F, F \subseteq SUBSET S, F # {}
    PROVE  \E T \in F : \A U \in F : U \subseteq T => U = T
<1> DEFINE less == StrictSubsetOrdering(S)
<1>1. F \subseteq FiniteSubsetsOf(S)
    BY FS_FiniteSubsetsOfFinite
<1>2. IsWellFoundedOn(less, FiniteSubsetsOf(S))
    BY FS_StrictSubsetOrderingWellFounded
<1> HIDE DEF less
<1>3. PICK T \in F : \A U \in F : ~(<<U, T>> \in less)
    BY <1>1, <1>2, WFMin
<1>4. ASSUME NEW U \in F, U \subseteq T PROVE U = T
  <2>1. U # T => <<U, T>> \in less
      BY <1>4 DEF less, StrictSubsetOrdering
  <2>2. QED  BY <1>3, <2>1
<1>5. QED  BY <1>4

\* Induction over a finite set, the statement being a set of its subsets
LEMMA SubsetInduction ==
    ASSUME NEW S, IsFiniteSet(S), NEW P, {} \in P,
           \A T \in SUBSET S : \A x \in S \ T : T \in P => T \cup {x} \in P
    PROVE  S \in P
<1> DEFINE Bad == {T \in SUBSET S : T \notin P}
<1>1. SUFFICES ASSUME Bad # {} PROVE FALSE
    OBVIOUS
<1>2. Bad \subseteq SUBSET S
    OBVIOUS
<1>3. PICK T \in Bad : \A U \in Bad : U \subseteq T => U = T
  <2> HIDE DEF Bad
  <2> QED  BY <1>1, <1>2, MinimalSubset
<1>4. PICK x \in T : TRUE
    BY <1>3
<1>5. T \ {x} \in SUBSET S /\ x \in S \ (T \ {x}) /\ T \ {x} # T
    BY <1>4
<1>6. T \ {x} \in P
    BY <1>3, <1>5
<1>7. (T \ {x}) \cup {x} \in P
    BY <1>5, <1>6
<1>8. T = (T \ {x}) \cup {x}
    BY <1>4
<1>9. QED  BY <1>7, <1>8

Element(s) == CHOOSE x \in s : TRUE

IsFold(it, g, S) ==
    it = [s \in SUBSET S |-> IF s = {} THEN 0 ELSE g[Element(s)] + it[s \ {Element(s)}]]

\* The function that SumFunctionOnSet chooses
Fold(g, S) == CHOOSE it : IsFold(it, g, S)

LEMMA SumIsFold ==
    ASSUME NEW g, NEW S
    PROVE  SumFunctionOnSet(g, S) = Fold(g, S)[S]
BY DEF SumFunctionOnSet, FoldFunctionOnSet, MapThenFoldSet, Fold, IsFold, Element

\* A fold of the subsets of at most n elements
FoldsTo(n, it, g, S) ==
    it = [s \in {t \in SUBSET S : Cardinality(t) <= n} |->
             IF s = {} THEN 0 ELSE g[Element(s)] + it[s \ {Element(s)}]]

LEMMA FoldExists ==
    ASSUME NEW g, NEW S, IsFiniteSet(S)
    PROVE  IsFold(Fold(g, S), g, S)
<1> DEFINE Small(n) == {t \in SUBSET S : Cardinality(t) <= n}
<1> DEFINE Bad == {n \in Nat : ~\E it : FoldsTo(n, it, g, S)}
<1>1. ASSUME NEW s \in SUBSET S
      PROVE  /\ IsFiniteSet(s) /\ Cardinality(s) \in Nat /\ Cardinality(s) <= Cardinality(S)
             /\ Cardinality(s) = 0 <=> s = {}
             /\ s # {} => Element(s) \in s /\ Cardinality(s \ {Element(s)}) = Cardinality(s) - 1
  <2>1. IsFiniteSet(s) /\ Cardinality(s) <= Cardinality(S)
      BY FS_Subset
  <2>2. Cardinality(s) \in Nat /\ (Cardinality(s) = 0 <=> s = {})
      BY <2>1, FS_CardinalityType, FS_EmptySet
  <2>3. s # {} => Element(s) \in s
      BY DEF Element
  <2>4. Element(s) \in s => Cardinality(s \ {Element(s)}) = Cardinality(s) - 1
      BY <2>1, FS_RemoveElement
  <2>5. QED  BY <2>1, <2>2, <2>3, <2>4
<1>2. Bad = {}
  <2> SUFFICES ASSUME Bad # {} PROVE FALSE
      OBVIOUS
  <2>1. PICK n \in Bad : \A m \in Bad : ~(<<m, n>> \in OpToRel(<, Nat))
      BY WFMin, NatLessThanWellFounded
  <2>2. n # 0
    <3>1. FoldsTo(0, [s \in Small(0) |-> 0], g, S)
        BY <1>1 DEF FoldsTo
    <3>2. QED  BY <2>1, <3>1
  <2>3. n - 1 \in Nat /\ n - 1 \notin Bad
    <3>0. n \in Nat
        OBVIOUS
    <3>1. n \in Nat /\ n - 1 \in Nat /\ n - 1 < n
      <4> HIDE DEF Bad
      <4> QED  BY <2>2, <3>0
    <3>2. <<n - 1, n>> \in OpToRel(<, Nat)
        BY <3>1 DEF OpToRel
    <3>3. \A m \in Bad : m # n - 1
        BY <2>1, <3>2
    <3>4. QED  BY <3>1, <3>3
  <2>4. PICK it : FoldsTo(n - 1, it, g, S)
      BY <2>3
  <2> DEFINE next == [s \in Small(n) |->
                        IF s = {} THEN 0 ELSE g[Element(s)] + it[s \ {Element(s)}]]
  <2>5. ASSUME NEW s \in Small(n), s # {}
        PROVE  next[s \ {Element(s)}] = it[s \ {Element(s)}]
    <3> DEFINE t == s \ {Element(s)}
    <3>1. t \in Small(n) /\ t \in Small(n - 1)
        BY <1>1, <2>3, <2>5
    <3>2. it[t] = IF t = {} THEN 0 ELSE g[Element(t)] + it[t \ {Element(t)}]
        BY <2>4, <3>1 DEF FoldsTo
    <3>3. next[t] = IF t = {} THEN 0 ELSE g[Element(t)] + it[t \ {Element(t)}]
        BY <3>1
    <3>4. QED  BY <3>2, <3>3
  <2>6. FoldsTo(n, next, g, S)
      BY <2>5 DEF FoldsTo
  <2>7. QED  BY <2>1, <2>6
<1>3. Cardinality(S) \in Nat /\ Small(Cardinality(S)) = SUBSET S
    BY <1>1, FS_CardinalityType
<1>4. PICK it : FoldsTo(Cardinality(S), it, g, S)
    BY <1>2, <1>3
<1>5. IsFold(it, g, S)
    BY <1>3, <1>4 DEF FoldsTo, IsFold
<1>6. QED  BY <1>5 DEF Fold

\* Folds of functions that agree agree
LEMMA FoldUnique ==
    ASSUME NEW g, NEW h, NEW S, NEW T, IsFiniteSet(S), T \subseteq S,
           \A x \in T : g[x] = h[x],
           NEW a, IsFold(a, g, S), NEW b, IsFold(b, h, T)
    PROVE  a[T] = b[T]
<1> DEFINE Bad == {s \in SUBSET T : a[s] # b[s]}
<1>0. SUFFICES ASSUME Bad # {} PROVE FALSE
    BY Zenon
<1>1. IsFiniteSet(T) /\ Bad \subseteq SUBSET T
    BY FS_Subset
<1>2. PICK s \in Bad : \A u \in Bad : u \subseteq s => u = s
  <2> HIDE DEF Bad
  <2> QED  BY <1>0, <1>1, MinimalSubset
<1>3. s # {}
    BY DEF IsFold
<1>4. Element(s) \in s
    BY <1>3 DEF Element
<1>5. a[s \ {Element(s)}] = b[s \ {Element(s)}]
    BY <1>2, <1>4
<1>6. a[s] = g[Element(s)] + a[s \ {Element(s)}] /\ b[s] = h[Element(s)] + b[s \ {Element(s)}]
    BY <1>3 DEF IsFold
<1>7. QED  BY <1>4, <1>5, <1>6

LEMMA SumEmpty == ASSUME NEW g PROVE SumFunctionOnSet(g, {}) = 0
<1>1. IsFold(Fold(g, {}), g, {})
    BY FoldExists, FS_EmptySet
<1>2. QED  BY <1>1, SumIsFold DEF IsFold

\* A sum is that of the others and an element
LEMMA SumUnfold ==
    ASSUME NEW g, NEW S, IsFiniteSet(S), S # {}
    PROVE  \E x \in S : SumFunctionOnSet(g, S) = g[x] + SumFunctionOnSet(g, S \ {x})
<1> DEFINE x == Element(S)
<1>1. x \in S /\ IsFiniteSet(S \ {x})
    BY FS_RemoveElement DEF Element
<1>2. IsFold(Fold(g, S), g, S) /\ S \in SUBSET S
    BY FoldExists
<1>5. Fold(g, S)[S] = g[x] + Fold(g, S)[S \ {x}]
    BY <1>2 DEF IsFold
<1>3. Fold(g, S)[S \ {x}] = Fold(g, S \ {x})[S \ {x}]
    BY <1>1, FoldExists, FoldUnique
<1>4. QED  BY <1>1, <1>5, <1>3, SumIsFold

\* Equal terms, equal sums
LEMMA SumAgrees ==
    ASSUME NEW g, NEW h, NEW S, IsFiniteSet(S), \A x \in S : g[x] = h[x]
    PROVE  SumFunctionOnSet(g, S) = SumFunctionOnSet(h, S)
<1>1. IsFold(Fold(g, S), g, S) /\ IsFold(Fold(h, S), h, S)
    BY FoldExists
<1>2. QED  BY <1>1, FoldUnique, SumIsFold

LEMMA SumNat ==
    ASSUME NEW S, IsFiniteSet(S), NEW g, \A x \in S : g[x] \in Nat
    PROVE  SumFunctionOnSet(g, S) \in Nat
<1> DEFINE Bad == {T \in SUBSET S : SumFunctionOnSet(g, T) \notin Nat}
<1>0. SUFFICES ASSUME Bad # {} PROVE FALSE
    OBVIOUS
<1>1. PICK T \in Bad : \A U \in Bad : U \subseteq T => U = T
  <2>1. Bad \subseteq SUBSET S
      OBVIOUS
  <2> HIDE DEF Bad
  <2> QED  BY <1>0, <2>1, MinimalSubset
<1>2. T # {} /\ T \in SUBSET S /\ IsFiniteSet(T)
  <2>1. T \in SUBSET S /\ SumFunctionOnSet(g, T) \notin Nat
      OBVIOUS
  <2>2. IsFiniteSet(T)
      BY <2>1, FS_Subset
  <2>3. T # {}
      BY <2>1, SumEmpty
  <2>4. QED  BY <2>1, <2>2, <2>3
<1>3. PICK x \in T : SumFunctionOnSet(g, T) = g[x] + SumFunctionOnSet(g, T \ {x})
    BY <1>2, SumUnfold
<1>4. SumFunctionOnSet(g, T \ {x}) \in Nat
    BY <1>1
<1>5. QED  BY <1>3, <1>4

LEMMA SumRemove ==
    ASSUME NEW S, IsFiniteSet(S), NEW g, \A x \in S : g[x] \in Nat, NEW y \in S
    PROVE  SumFunctionOnSet(g, S) = g[y] + SumFunctionOnSet(g, S \ {y})
<1> DEFINE Holds(T) == \A z \in T : SumFunctionOnSet(g, T) = g[z] + SumFunctionOnSet(g, T \ {z})
<1> DEFINE Bad == {T \in SUBSET S : ~Holds(T)}
<1>0. SUFFICES ASSUME Bad # {} PROVE FALSE
    OBVIOUS
<1>1. PICK T \in Bad : \A U \in Bad : U \subseteq T => U = T
  <2>1. Bad \subseteq SUBSET S
      OBVIOUS
  <2> HIDE DEF Bad
  <2> QED  BY <1>0, <2>1, MinimalSubset
<1>2. T \in SUBSET S /\ ~Holds(T)
    OBVIOUS
<1>3. PICK z \in T : SumFunctionOnSet(g, T) # g[z] + SumFunctionOnSet(g, T \ {z})
    BY <1>2
<1>4. IsFiniteSet(T) /\ T # {}
    BY <1>2, <1>3, FS_Subset
<1>5. PICK x \in T : SumFunctionOnSet(g, T) = g[x] + SumFunctionOnSet(g, T \ {x})
    BY <1>4, SumUnfold
<1>6. x # z
    BY <1>3, <1>5
<1>7. Holds(T \ {x}) /\ Holds(T \ {z})
  <2>1. T \ {x} \in SUBSET S /\ T \ {x} # T /\ T \ {z} \in SUBSET S /\ T \ {z} # T
      BY <1>2
  <2>2. T \ {x} \notin Bad /\ T \ {z} \notin Bad
    <3> HIDE DEF Bad
    <3> QED  BY <1>1, <2>1
  <2>3. QED  BY <2>1, <2>2
<1>8. /\ SumFunctionOnSet(g, T \ {x}) = g[z] + SumFunctionOnSet(g, (T \ {x}) \ {z})
      /\ SumFunctionOnSet(g, T \ {z}) = g[x] + SumFunctionOnSet(g, (T \ {z}) \ {x})
    BY <1>6, <1>7
<1>9. (T \ {x}) \ {z} = (T \ {z}) \ {x}
    OBVIOUS
<1>10. /\ g[x] \in Nat /\ g[z] \in Nat
       /\ SumFunctionOnSet(g, (T \ {x}) \ {z}) \in Nat
  <2>1. (T \ {x}) \ {z} \in SUBSET S
      BY <1>2
  <2>2. QED  BY <1>2, <2>1, FS_Subset, SumNat
<1>11. QED
  <2> HIDE DEF Bad, Holds
  <2> QED  BY <1>3, <1>5, <1>8, <1>9, <1>10

LEMMA SumAdd ==
    ASSUME NEW S, IsFiniteSet(S), NEW y, y \notin S, NEW g, \A x \in S \cup {y} : g[x] \in Nat
    PROVE  SumFunctionOnSet(g, S \cup {y}) = SumFunctionOnSet(g, S) + g[y]
<1>1. IsFiniteSet(S \cup {y}) /\ (S \cup {y}) \ {y} = S
    BY FS_AddElement
<1>2. SumFunctionOnSet(g, S \cup {y}) = g[y] + SumFunctionOnSet(g, (S \cup {y}) \ {y})
    BY <1>1, SumRemove
<1>3. SumFunctionOnSet(g, S) \in Nat /\ g[y] \in Nat
    BY SumNat
<1>4. SumFunctionOnSet(g, (S \cup {y}) \ {y}) = SumFunctionOnSet(g, S)
    BY <1>1
<1>5. QED  BY <1>2, <1>3, <1>4

LEMMA SumUnion ==
    ASSUME NEW S, IsFiniteSet(S), NEW T, IsFiniteSet(T), S \cap T = {},
           NEW g, \A x \in S \cup T : g[x] \in Nat
    PROVE  SumFunctionOnSet(g, S \cup T) = SumFunctionOnSet(g, S) + SumFunctionOnSet(g, T)
<1> DEFINE P == {U \in SUBSET T : SumFunctionOnSet(g, S \cup U)
                                    = SumFunctionOnSet(g, S) + SumFunctionOnSet(g, U)}
<1>1. {} \in P
    BY SumEmpty, SumNat
<1>2. ASSUME NEW U \in SUBSET T, NEW x \in T \ U, U \in P PROVE U \cup {x} \in P
  <2>1. IsFiniteSet(U) /\ IsFiniteSet(S \cup U) /\ x \notin S \cup U
      BY FS_Subset, FS_Union
  <2>2. SumFunctionOnSet(g, (S \cup U) \cup {x}) = SumFunctionOnSet(g, S \cup U) + g[x]
      BY <2>1, SumAdd
  <2>3. SumFunctionOnSet(g, U \cup {x}) = SumFunctionOnSet(g, U) + g[x]
      BY <2>1, SumAdd
  <2>4. SumFunctionOnSet(g, S) \in Nat /\ SumFunctionOnSet(g, U) \in Nat /\ g[x] \in Nat
      BY <2>1, SumNat
  <2>5. (S \cup U) \cup {x} = S \cup (U \cup {x})
      OBVIOUS
  <2>6. SumFunctionOnSet(g, (S \cup U) \cup {x}) = SumFunctionOnSet(g, S \cup (U \cup {x}))
      BY <2>5
  <2>7. SumFunctionOnSet(g, S \cup U) = SumFunctionOnSet(g, S) + SumFunctionOnSet(g, U)
      BY <1>2
  <2>8. SumFunctionOnSet(g, S \cup (U \cup {x}))
          = SumFunctionOnSet(g, S) + SumFunctionOnSet(g, U \cup {x})
      BY <2>2, <2>3, <2>4, <2>6, <2>7
  <2>9. QED  BY <2>8
<1>3. T \in P
  <2> HIDE DEF P
  <2> QED  BY <1>1, <1>2, SubsetInduction
<1>4. QED  BY <1>3

LEMMA SumZero ==
    ASSUME NEW S, IsFiniteSet(S), NEW g, \A x \in S : g[x] = 0
    PROVE  SumFunctionOnSet(g, S) = 0
<1> DEFINE P == {U \in SUBSET S : SumFunctionOnSet(g, U) = 0}
<1>1. {} \in P
    BY SumEmpty
<1>2. ASSUME NEW U \in SUBSET S, NEW x \in S \ U, U \in P PROVE U \cup {x} \in P
  <2>1. IsFiniteSet(U)
      BY FS_Subset
  <2>2. x \notin U /\ \A y \in U \cup {x} : g[y] \in Nat
      OBVIOUS
  <2>3. SumFunctionOnSet(g, U \cup {x}) = SumFunctionOnSet(g, U) + g[x]
      BY <2>1, <2>2, SumAdd
  <2>4. QED  BY <1>2, <2>3
<1>3. S \in P
  <2> HIDE DEF P
  <2> QED  BY <1>1, <1>2, SubsetInduction
<1>4. QED  BY <1>3

LEMMA SumLe ==
    ASSUME NEW S, IsFiniteSet(S), NEW g, NEW h,
           \A x \in S : g[x] \in Nat /\ h[x] \in Nat /\ g[x] <= h[x]
    PROVE  SumFunctionOnSet(g, S) <= SumFunctionOnSet(h, S)
<1> DEFINE P == {U \in SUBSET S : SumFunctionOnSet(g, U) <= SumFunctionOnSet(h, U)}
<1>1. {} \in P
    BY SumEmpty
<1>2. ASSUME NEW U \in SUBSET S, NEW x \in S \ U, U \in P PROVE U \cup {x} \in P
  <2>1. IsFiniteSet(U)
      BY FS_Subset
  <2>2. /\ SumFunctionOnSet(g, U \cup {x}) = SumFunctionOnSet(g, U) + g[x]
        /\ SumFunctionOnSet(h, U \cup {x}) = SumFunctionOnSet(h, U) + h[x]
      BY <2>1, SumAdd
  <2>3. SumFunctionOnSet(g, U) \in Nat /\ SumFunctionOnSet(h, U) \in Nat
      BY <2>1, SumNat
  <2>4. QED  BY <1>2, <2>2, <2>3
<1>3. S \in P
  <2> HIDE DEF P
  <2> QED  BY <1>1, <1>2, SubsetInduction
<1>4. QED  BY <1>3

\* Terms that are zero may be left out
LEMMA SumExtend ==
    ASSUME NEW T, IsFiniteSet(T), NEW S \in SUBSET T, NEW g,
           \A x \in S : g[x] \in Nat, \A x \in T \ S : g[x] = 0
    PROVE  SumFunctionOnSet(g, S) = SumFunctionOnSet(g, T)
<1>1. IsFiniteSet(S) /\ IsFiniteSet(T \ S)
    BY FS_Subset
<1>2. T = S \cup (T \ S) /\ S \cap (T \ S) = {}
    OBVIOUS
<1>3. SumFunctionOnSet(g, S \cup (T \ S)) = SumFunctionOnSet(g, S) + SumFunctionOnSet(g, T \ S)
    BY <1>1, <1>2, SumUnion
<1>4. SumFunctionOnSet(g, S) \in Nat /\ SumFunctionOnSet(g, T \ S) = 0
    BY <1>1, SumNat, SumZero
<1>5. SumFunctionOnSet(g, S \cup (T \ S)) = SumFunctionOnSet(g, T)
    BY <1>2
<1>6. QED  BY <1>3, <1>4, <1>5

\* What is summed group by group is summed once
LEMMA SumOfSums ==
    ASSUME NEW W, IsFiniteSet(W), NEW R, IsFiniteSet(R), NEW group \in [W -> SUBSET R],
           \A d, e \in W : d # e => group[d] \cap group[e] = {},
           NEW a \in [W -> Nat], NEW g \in [R -> Nat],
           NEW total, \A d \in W : total[d] = a[d] + SumFunctionOnSet(g, group[d])
    PROVE  SumFunctionOnSet(total, W)
              = SumFunctionOnSet(a, W) + SumFunctionOnSet(g, UNION {group[d] : d \in W})
<1> DEFINE All(V) == UNION {group[d] : d \in V}
<1> DEFINE P == {V \in SUBSET W : SumFunctionOnSet(total, V)
                                    = SumFunctionOnSet(a, V) + SumFunctionOnSet(g, All(V))}
<1>1. {} \in P
  <2>1. All({}) = {}
      OBVIOUS
  <2>2. SumFunctionOnSet(g, All({})) = 0
    <3> HIDE DEF All
    <3> QED  BY <2>1, SumEmpty
  <2>3. SumFunctionOnSet(total, {}) = 0 /\ SumFunctionOnSet(a, {}) = 0
      BY SumEmpty
  <2>4. QED
    <3> HIDE DEF All
    <3> QED  BY <2>2, <2>3
<1>2. ASSUME NEW V \in SUBSET W, NEW x \in W \ V, V \in P PROVE V \cup {x} \in P
  <2>1. IsFiniteSet(V) /\ All(V) \in SUBSET R /\ group[x] \in SUBSET R
      BY FS_Subset
  <2>2. IsFiniteSet(All(V)) /\ IsFiniteSet(group[x])
      BY <2>1, FS_Subset
  <2>3. All(V \cup {x}) = All(V) \cup group[x] /\ All(V) \cap group[x] = {}
      OBVIOUS
  <2>4. SumFunctionOnSet(g, All(V) \cup group[x])
          = SumFunctionOnSet(g, All(V)) + SumFunctionOnSet(g, group[x])
    <3> HIDE DEF All
    <3> QED  BY <2>1, <2>2, <2>3, SumUnion
  <2>5. \A d \in W : total[d] \in Nat
    <3> SUFFICES ASSUME NEW d \in W PROVE total[d] \in Nat
        OBVIOUS
    <3>1. IsFiniteSet(group[d])
        BY FS_Subset
    <3>2. SumFunctionOnSet(g, group[d]) \in Nat
        BY <3>1, SumNat
    <3>3. QED  BY <3>2
  <2>6. /\ SumFunctionOnSet(total, V \cup {x}) = SumFunctionOnSet(total, V) + total[x]
        /\ SumFunctionOnSet(a, V \cup {x}) = SumFunctionOnSet(a, V) + a[x]
      BY <2>1, <2>5, SumAdd
  <2>7. /\ SumFunctionOnSet(a, V) \in Nat /\ a[x] \in Nat
        /\ SumFunctionOnSet(g, All(V)) \in Nat /\ SumFunctionOnSet(g, group[x]) \in Nat
      BY <2>1, <2>2, SumNat
  <2>8. total[x] = a[x] + SumFunctionOnSet(g, group[x])
      OBVIOUS
  <2>9. SumFunctionOnSet(total, V) = SumFunctionOnSet(a, V) + SumFunctionOnSet(g, All(V))
      BY <1>2
  <2>12. SumFunctionOnSet(g, All(V \cup {x})) = SumFunctionOnSet(g, All(V) \cup group[x])
    <3> HIDE DEF All
    <3> QED  BY <2>3
  <2>10. SumFunctionOnSet(total, V \cup {x})
           = SumFunctionOnSet(a, V \cup {x}) + SumFunctionOnSet(g, All(V \cup {x}))
    <3> HIDE DEF All
    <3> QED  BY <2>4, <2>6, <2>7, <2>8, <2>9, <2>12
  <2>11. QED  BY <2>10
<1>3. W \in P
  <2> HIDE DEF P
  <2> QED  BY <1>1, <1>2, SubsetInduction
<1>4. QED  BY <1>3
-----------------------------------------------------------------------------
(* Types                                                                   *)

LEMMA RecordsDiffer ==
    /\ \A c : [scanned |-> TRUE, count |-> c] # NoDigest
    /\ \A r \in Reports : r # NoReport
    /\ \A r \in RunFiles : r # NoRun
    /\ \A d \in Days : \A f : [day |-> d, failure |-> f] # Idle
<1>1. \A c : [scanned |-> TRUE, count |-> c].scanned # NoDigest.scanned
    BY DEF NoDigest
<1>2. \A r \in Reports : r.written # NoReport.written
    BY DEF Reports, NoReport
<1>3. \A r \in RunFiles : r.day # NoRun.day
    BY ReportAssumption DEF RunFiles, NoRun, Days
<1>4. \A d \in Days : \A f : [day |-> d, failure |-> f].day # Idle.day
    BY ReportAssumption DEF Idle, Days
<1>5. QED  BY <1>1, <1>2, <1>3, <1>4

LEMMA DaysFinite ==
    /\ IsFiniteSet(Days) /\ Days \subseteq Nat /\ IsFiniteSet(Runs) /\ IsFiniteSet(Failures)
    /\ \A w : WeekDays(w) \subseteq Days /\ IsFiniteSet(WeekDays(w))
    /\ \A d : IsFiniteSet(Mined(d)) /\ Mined(d) \subseteq Runs
<1>1. IsFiniteSet(Days) /\ Days \subseteq Nat
    BY ReportAssumption, FS_Interval DEF Days
<1>2. \A w : WeekDays(w) \in SUBSET Days
    BY DEF WeekDays
<1>3. \A d : Mined(d) \in SUBSET Runs
    BY DEF Mined
<1>4. QED  BY <1>1, <1>2, <1>3, ReportAssumption, FS_Subset

\* What a run adds to the count of a failure
Events(f) == [r \in Runs |-> IF runs[r] = NoRun THEN 0 ELSE runs[r].events[f]]

LEMMA EventsNat ==
    ASSUME TypeOK, NEW f \in Failures
    PROVE  Events(f) \in [Runs -> Nat]
BY DEF TypeOK, Events, RunFiles, Counts

LEMMA MinedSum ==
    ASSUME TypeOK, NEW f \in Failures, NEW d \in Days
    PROVE  /\ SumFunctionOnSet(Events(f), Mined(d)) \in Nat
           /\ \A files \in [Days -> Counts] :
                 Clusters(d, files)[f] = files[d][f] + SumFunctionOnSet(Events(f), Mined(d))
<1>1. SumFunctionOnSet(Events(f), Mined(d)) \in Nat
    BY EventsNat, DaysFinite, SumNat
<1> DEFINE mined == [r \in Mined(d) |-> runs[r].events[f]]
<1>2. SumFunction(mined) = SumFunctionOnSet(mined, Mined(d))
    BY DEF SumFunction
<1>3. \A r \in Mined(d) : mined[r] = Events(f)[r]
    BY DEF Mined, Events
<1>4. SumFunctionOnSet(mined, Mined(d)) = SumFunctionOnSet(Events(f), Mined(d))
  <2> HIDE DEF mined
  <2> QED  BY <1>3, DaysFinite, SumAgrees
<1>5. QED  BY <1>1, <1>2, <1>4 DEF Clusters

LEMMA ClustersTyped ==
    ASSUME TypeOK, NEW d \in Days
    PROVE  Clusters(d, selflog) \in Counts
<1>1. ASSUME NEW f \in Failures
      PROVE  selflog[d][f] + SumFunction([r \in Mined(d) |-> runs[r].events[f]]) \in Nat
  <2>1. selflog \in [Days -> Counts] /\ selflog[d][f] \in Nat
      BY DEF TypeOK, Counts
  <2>2. Clusters(d, selflog)[f] \in Nat
      BY <2>1, MinedSum
  <2>3. QED  BY <2>2 DEF Clusters
<1>2. QED  BY <1>1 DEF Clusters, Counts

\* A week is the sum of its days
Counted(d, f)  == IF digest[d] = NoDigest THEN 0 ELSE digest[d].count[f]
DayTruth(d, f) == written[d][f] + SumFunctionOnSet(Events(f), Mined(d))

LEMMA DayNat ==
    ASSUME TypeOK, NEW f \in Failures, NEW d \in Days
    PROVE  Counted(d, f) \in Nat /\ written[d][f] \in Nat /\ DayTruth(d, f) \in Nat
<1>1. Counted(d, f) \in Nat
    BY DEF TypeOK, Counted, Counts
<1>2. written[d][f] \in Nat
    BY DEF TypeOK, Counts
<1>3. QED  BY <1>1, <1>2, MinedSum DEF DayTruth

LEMMA MergedSum ==
    ASSUME TypeOK, NEW f \in Failures, NEW w \in Weeks
    PROVE  Merged(w)[f] = SumFunctionOnSet([d \in Days |-> Counted(d, f)], WeekDays(w))
<1> DEFINE loaded == [d \in Loaded(w) |-> digest[d].count[f]]
           counted == [d \in Days |-> Counted(d, f)]
<1>1. Merged(w)[f] = SumFunctionOnSet(loaded, Loaded(w))
    BY DEF Merged, SumFunction
<1>2. Loaded(w) \in SUBSET WeekDays(w) /\ WeekDays(w) \subseteq Days
    BY DaysFinite DEF Loaded
<1>3. \A d \in Loaded(w) : loaded[d] = counted[d] /\ counted[d] \in Nat
    BY <1>2, DayNat DEF Loaded, Counted
<1>4. \A d \in WeekDays(w) \ Loaded(w) : counted[d] = 0
    BY <1>2 DEF Loaded, Counted
<1>5. IsFiniteSet(WeekDays(w)) /\ IsFiniteSet(Loaded(w))
    BY <1>2, DaysFinite, FS_Subset
<1> HIDE DEF loaded, counted
<1>6. SumFunctionOnSet(loaded, Loaded(w)) = SumFunctionOnSet(counted, Loaded(w))
    BY <1>3, <1>5, SumAgrees
<1>7. SumFunctionOnSet(counted, Loaded(w)) = SumFunctionOnSet(counted, WeekDays(w))
    BY <1>2, <1>3, <1>4, <1>5, SumExtend
<1>8. QED  BY <1>1, <1>6, <1>7 DEF counted

LEMMA TruthSum ==
    ASSUME TypeOK, NEW f \in Failures, NEW w \in Weeks
    PROVE  Truth(w)[f] = SumFunctionOnSet([d \in Days |-> DayTruth(d, f)], WeekDays(w))
<1> DEFINE W == WeekDays(w)
           group == [d \in W |-> Mined(d)]
           wrote == [d \in W |-> written[d][f]]
           events == [r \in WeekRuns(w) |-> runs[r].events[f]]
           total == [d \in Days |-> DayTruth(d, f)]
<1>1. Truth(w)[f] = SumFunctionOnSet(wrote, W) + SumFunctionOnSet(events, WeekRuns(w))
    BY DEF Truth, SumFunction
<1>2. W \subseteq Days /\ IsFiniteSet(W) /\ IsFiniteSet(Runs)
    BY DaysFinite
<1>3. group \in [W -> SUBSET Runs] /\ wrote \in [W -> Nat] /\ Events(f) \in [Runs -> Nat]
    BY <1>2, DaysFinite, DayNat, EventsNat
<1>4. \A d, e \in W : d # e => group[d] \cap group[e] = {}
    BY DEF Mined
<1>5. \A d \in W : total[d] = wrote[d] + SumFunctionOnSet(Events(f), group[d])
    BY <1>2 DEF DayTruth
<1>6. UNION {group[d] : d \in W} = WeekRuns(w)
    BY DEF WeekRuns, Mined
<1>7. \A r \in WeekRuns(w) : events[r] = Events(f)[r]
    BY DEF WeekRuns, Events
<1>8. IsFiniteSet(WeekRuns(w))
    BY <1>2, FS_Subset DEF WeekRuns
<1> HIDE DEF W, group, wrote, events, total
<1>9. SumFunctionOnSet(events, WeekRuns(w)) = SumFunctionOnSet(Events(f), WeekRuns(w))
    BY <1>7, <1>8, SumAgrees
<1>10. SumFunctionOnSet(total, W)
         = SumFunctionOnSet(wrote, W) + SumFunctionOnSet(Events(f), UNION {group[d] : d \in W})
    BY <1>2, <1>3, <1>4, <1>5, SumOfSums
<1>11. SumFunctionOnSet(Events(f), UNION {group[d] : d \in W})
         = SumFunctionOnSet(Events(f), WeekRuns(w))
    BY <1>6
<1>12. SumFunctionOnSet(total, W) = Truth(w)[f]
    BY <1>1, <1>9, <1>10, <1>11
<1>13. QED  BY <1>12 DEF total, W

LEMMA ReportTyped ==
    ASSUME TypeOK, NEW w \in Weeks
    PROVE  Merged(w) \in Counts /\ Truth(w) \in Counts
<1>1. ASSUME NEW f \in Failures PROVE Merged(w)[f] \in Nat /\ Truth(w)[f] \in Nat
  <2> DEFINE counted == [d \in Days |-> Counted(d, f)]
             total == [d \in Days |-> DayTruth(d, f)]
  <2>1. WeekDays(w) \subseteq Days /\ IsFiniteSet(WeekDays(w))
      BY DaysFinite
  <2>2. \A d \in WeekDays(w) : counted[d] \in Nat /\ total[d] \in Nat
      BY <2>1, DayNat
  <2> HIDE DEF counted, total
  <2>3. SumFunctionOnSet(counted, WeekDays(w)) \in Nat /\ SumFunctionOnSet(total, WeekDays(w)) \in Nat
      BY <2>1, <2>2, SumNat
  <2>4. QED  BY <2>3, MergedSum, TruthSum DEF counted, total
<1>2. \E m : Merged(w) = [f \in Failures |-> m[f]]
  <2> DEFINE m == [f \in Failures |-> SumFunction([d \in Loaded(w) |-> digest[d].count[f]])]
  <2>1. Merged(w) = [f \in Failures |-> m[f]]
      BY DEF Merged
  <2>2. QED  BY <2>1
<1>3. \E m : Truth(w) = [f \in Failures |-> m[f]]
  <2> DEFINE m == [f \in Failures |-> SumFunction([d \in WeekDays(w) |-> written[d][f]])
                        + SumFunction([r \in WeekRuns(w) |-> runs[r].events[f]])]
  <2>1. Truth(w) = [f \in Failures |-> m[f]]
      BY DEF Truth
  <2>2. QED  BY <2>1
<1>4. QED  BY <1>1, <1>2, <1>3 DEF Counts

LEMMA TypeInit == Init => TypeOK
<1> SUFFICES ASSUME Init PROVE TypeOK
    OBVIOUS
<1>1. None \in Counts
    BY DEF None, Counts
<1>2. 1 \in Days
    BY ReportAssumption DEF Days
<1>3. 0 \in 0..MaxEvents
    BY ReportAssumption
<1>4. QED  BY <1>1, <1>2, <1>3 DEF Init, TypeOK

\* The records that runs and reports become
LEMMA RunFailsTo ==
    ASSUME TypeOK, NEW r \in Runs, NEW f \in RunFailures, RunFails(r, f)
    PROVE  /\ runs[r] \in RunFiles /\ runs' \in [Runs -> {NoRun} \cup RunFiles] /\ runs'[r] \in RunFiles
           /\ \A q \in Runs \ {r} : runs'[q] = runs[q]
           /\ runs'[r].day = runs[r].day /\ runs'[r].self = runs[r].self
           /\ runs[r].ended => runs'[r].ended
           /\ \A g \in Failures : runs[r].events[g] <= runs'[r].events[g]
<1>1. runs \in [Runs -> {NoRun} \cup RunFiles] /\ runs[r] \in RunFiles
    BY DEF RunFails, TypeOK
<1>2. PICK n \in Bursts :
         runs' = [runs EXCEPT ![r].events[f] = @ + n, ![r].ended = @ \/ f \in Errors,
                               ![r].endsLast = f \in Errors]
    BY DEF RunFails
<1>3. n \in Nat /\ f \in Failures
    BY ReportAssumption DEF Failures
<1>4. /\ runs' = [q \in Runs |-> runs'[q]]
      /\ \A q \in Runs \ {r} : runs'[q] = runs[q]
    BY <1>1, <1>2
<1>5. runs'[r] = [runs[r] EXCEPT !.events[f] = @ + n, !.ended = @ \/ f \in Errors,
                                !.endsLast = f \in Errors]
    BY <1>1, <1>2
<1>6. /\ [runs[r].events EXCEPT ![f] = @ + n] \in Counts
      /\ \A g \in Failures : runs[r].events[g] <= [runs[r].events EXCEPT ![f] = @ + n][g]
  <2>1. runs[r].events \in Counts
      BY <1>1 DEF RunFiles
  <2>2. QED  BY <1>3, <2>1 DEF Counts
<1>7. (runs[r].ended \/ f \in Errors) \in BOOLEAN /\ (f \in Errors) \in BOOLEAN
    OBVIOUS
<1>8. runs'[r] \in RunFiles
    BY <1>1, <1>5, <1>6, <1>7 DEF RunFiles
<1>9. /\ runs'[r].day = runs[r].day /\ runs'[r].self = runs[r].self
      /\ runs'[r].ended = (runs[r].ended \/ f \in Errors)
      /\ runs'[r].events = [runs[r].events EXCEPT ![f] = @ + n]
    BY <1>1, <1>5 DEF RunFiles
<1>10. runs' \in [Runs -> {NoRun} \cup RunFiles]
    BY <1>1, <1>4, <1>8
<1>11. QED  BY <1>1, <1>4, <1>6, <1>8, <1>9, <1>10

LEMMA EndRunTo ==
    ASSUME TypeOK, NEW r \in Runs, EndRun(r)
    PROVE  /\ runs[r] \in RunFiles /\ runs' \in [Runs -> {NoRun} \cup RunFiles] /\ runs'[r] \in RunFiles
           /\ \A q \in Runs \ {r} : runs'[q] = runs[q]
           /\ runs'[r].day = runs[r].day /\ runs'[r].self = runs[r].self /\ runs'[r].ended
           /\ runs'[r].events = runs[r].events
<1>1. runs \in [Runs -> {NoRun} \cup RunFiles] /\ runs[r] \in RunFiles
    BY DEF EndRun, TypeOK
<1>2. /\ runs' = [q \in Runs |-> runs'[q]]
      /\ \A q \in Runs \ {r} : runs'[q] = runs[q]
    BY <1>1 DEF EndRun
<1>3. runs'[r] = [runs[r] EXCEPT !.ended = TRUE, !.endsLast = TRUE]
    BY <1>1 DEF EndRun
<1>4. /\ runs'[r] \in RunFiles
      /\ runs'[r].day = runs[r].day /\ runs'[r].self = runs[r].self
      /\ runs'[r].ended /\ runs'[r].events = runs[r].events
    BY <1>1, <1>3 DEF RunFiles
<1>5. runs' \in [Runs -> {NoRun} \cup RunFiles]
    BY <1>1, <1>2, <1>4
<1>6. QED  BY <1>1, <1>2, <1>4, <1>5

LEMMA StartRunTo ==
    ASSUME TypeOK, NEW r \in Runs, StartRun(r)
    PROVE  /\ runs[r] = NoRun /\ runs' \in [Runs -> {NoRun} \cup RunFiles] /\ runs'[r] \in RunFiles
           /\ \A q \in Runs \ {r} : runs'[q] = runs[q]
           /\ ~runs'[r].ended
<1>1. PICK self \in BOOLEAN :
         runs' = [runs EXCEPT ![r] = [day |-> today, self |-> self, ended |-> FALSE,
                                       endsLast |-> FALSE, events |-> None]]
    BY DEF StartRun
<1>2. [day |-> today, self |-> self, ended |-> FALSE, endsLast |-> FALSE, events |-> None] \in RunFiles
  <2>1. None \in Counts /\ today \in Days
      BY DEF TypeOK, None, Counts
  <2>2. QED  BY <2>1 DEF RunFiles
<1>3. QED  BY <1>1, <1>2 DEF TypeOK, StartRun

\* What a write leaves in the files
LEMMA AppendLogTo ==
    ASSUME TypeOK, NEW t \in Loggers, AppendLog(t)
    PROVE  \/ UNCHANGED <<selflog, written, lastDay, unseen>>
           \/ \E day \in Days, f \in LogFailures :
                /\ writer[t] = [day |-> day, failure |-> f]
                /\ LET appended == [selflog EXCEPT ![day] = Add(f, @)]
                   IN  selflog' = IF day = lastDay THEN appended ELSE Pruned(appended, day)
                /\ written' = [written EXCEPT ![day] = Add(f, @)]
                /\ lastDay' = day /\ unseen' = unseen \cup {day}
<1>1. PICK day \in Days, f \in LogFailures : writer[t] = [day |-> day, failure |-> f]
    BY DEF TypeOK, AppendLog
<1>2. writer[t].day = day /\ writer[t].failure = f
    BY <1>1
<1>3. QED  BY <1>1, <1>2 DEF AppendLog

LEMMA FilesTyped ==
    ASSUME NEW files \in [Days -> Counts], NEW day \in Days, NEW f \in Failures
    PROVE  /\ [files EXCEPT ![day] = Add(f, @)] \in [Days -> Counts]
           /\ Pruned(files, day) \in [Days -> Counts]
<1>1. \A c \in Counts : Add(f, c) \in Counts
    BY DEF Counts, Add
<1>2. None \in Counts
    BY DEF Counts, None
<1>3. QED  BY <1>1, <1>2 DEF Pruned

LEMMA TypeStep == TypeOK /\ [Next]_vars => TypeOK'
<1> SUFFICES ASSUME TypeOK, [Next]_vars PROVE TypeOK'
    OBVIOUS
<1>1. ASSUME NEW t \in Loggers, NEW f \in LogFailures, LogError(t, f) PROVE TypeOK'
  <2>1. happened + 1 \in 0..MaxEvents
      BY <1>1, ReportAssumption DEF LogError, TypeOK
  <2>2. [day |-> today, failure |-> f] \in [day : Days, failure : LogFailures]
      BY DEF TypeOK
  <2>3. QED  BY <1>1, <2>1, <2>2 DEF LogError, TypeOK
<1>2. ASSUME NEW t \in Loggers, AppendLog(t) PROVE TypeOK'
  <2>1. selflog' \in [Days -> Counts] /\ written' \in [Days -> Counts]
        /\ lastDay' \in {0} \cup Days /\ unseen' \subseteq Days
    <3>1. CASE UNCHANGED <<selflog, written, lastDay, unseen>>
        BY <3>1 DEF TypeOK
    <3>2. ASSUME NEW day \in Days, NEW f \in LogFailures,
                 LET appended == [selflog EXCEPT ![day] = Add(f, @)]
                 IN  selflog' = IF day = lastDay THEN appended ELSE Pruned(appended, day),
                 written' = [written EXCEPT ![day] = Add(f, @)],
                 lastDay' = day /\ unseen' = unseen \cup {day}
          PROVE  /\ selflog' \in [Days -> Counts] /\ written' \in [Days -> Counts]
                 /\ lastDay' \in {0} \cup Days /\ unseen' \subseteq Days
      <4>1. selflog \in [Days -> Counts] /\ written \in [Days -> Counts] /\ f \in Failures
          BY DEF TypeOK, Failures
      <4>2. [selflog EXCEPT ![day] = Add(f, @)] \in [Days -> Counts]
            /\ [written EXCEPT ![day] = Add(f, @)] \in [Days -> Counts]
          BY <4>1, FilesTyped
      <4> DEFINE appended == [selflog EXCEPT ![day] = Add(f, @)]
      <4>3. selflog' = IF day = lastDay THEN appended ELSE Pruned(appended, day)
          BY <3>2
      <4>4. Pruned(appended, day) \in [Days -> Counts]
        <5>1. appended \in [Days -> Counts]
            BY <4>2
        <5> HIDE DEF appended
        <5>2. QED  BY <4>1, <5>1, FilesTyped
      <4>5. QED  BY <3>2, <4>2, <4>3, <4>4 DEF TypeOK
    <3>3. QED  BY <1>2, <3>1, <3>2, AppendLogTo
  <2>2. QED  BY <1>2, <2>1 DEF AppendLog, TypeOK
<1>3. CASE Restart
    BY <1>3 DEF Restart, TypeOK
<1>4. ASSUME NEW r \in Runs, StartRun(r) PROVE TypeOK'
    BY <1>4, StartRunTo DEF StartRun, TypeOK
<1>5. ASSUME NEW r \in Runs, EndRun(r) PROVE TypeOK'
  <2>1. runs[r].day \in Days
      BY <1>5, EndRunTo DEF RunFiles
  <2>2. QED  BY <1>5, <2>1, EndRunTo DEF EndRun, TypeOK
<1>6. ASSUME NEW r \in Runs, NEW f \in RunFailures, RunFails(r, f) PROVE TypeOK'
  <2>1. runs[r].day \in Days
      BY <1>6, RunFailsTo DEF RunFiles
  <2>2. happened + 1 \in 0..MaxEvents
      BY <1>6, ReportAssumption DEF RunFails, TypeOK
  <2>3. QED  BY <1>6, <2>1, <2>2, RunFailsTo DEF RunFails, TypeOK
<1>7. CASE NextDay
  <2>1. today + 1 \in Days
      BY <1>7, ReportAssumption DEF NextDay, TypeOK, Days
  <2>2. QED  BY <1>7, <2>1 DEF NextDay, TypeOK
<1>8. ASSUME NEW d \in Days, Scan(d) PROVE TypeOK'
  <2>1. [scanned |-> TRUE, count |-> Clusters(d, selflog)] \in [scanned : {TRUE}, count : Counts]
      BY ClustersTyped
  <2>2. QED  BY <1>8, <2>1 DEF Scan, TypeOK
<1>9. ASSUME NEW w \in Weeks, Consolidate(w) PROVE TypeOK'
  <2>1. ToFix(Merged(w)) \subseteq Failures /\ Top(Merged(w)) \subseteq Failures
      BY DEF ToFix, Top, First
  <2>2. [written |-> TRUE, toFix |-> ToFix(Merged(w)),
         reportOnly |-> Top(Merged(w)) \ ToFix(Merged(w)), count |-> Merged(w),
         truth |-> Truth(w), complete |-> WeekDays(w) \cap unseen = {}] \in Reports
      BY <2>1, ReportTyped DEF Reports
  <2>3. QED  BY <1>9, <2>2 DEF Consolidate, TypeOK
<1>10. CASE UNCHANGED vars
    BY <1>10 DEF vars, TypeOK
<1>11. QED
    BY <1>1, <1>2, <1>3, <1>4, <1>5, <1>6, <1>7, <1>8, <1>9, <1>10 DEF Next

\* The state of the loop's files and reports is always of its types (selflog.py,
\* scan.py, report.py).
THEOREM TypesHold == Spec => []TypeOK
BY TypeInit, TypeStep, PTL DEF Spec
-----------------------------------------------------------------------------
(* The log of a day                                                        *)

\* A writer never takes a day that is still to come
WritersPast == \A t \in Loggers : writer[t] # Idle => writer[t].day <= today

Kept == RecentLogsKept /\ WritersPast

\* A file never holds what was not written to it
NothingInvented == \A d \in Days, f \in Failures : selflog[d][f] <= written[d][f]

LEMMA KeptStep == TypeOK /\ Kept /\ [Next]_vars => Kept'
<1> SUFFICES ASSUME TypeOK, Kept, [Next]_vars PROVE Kept'
    OBVIOUS
<1>0. today \in Nat /\ Retention \in Nat /\ writer \in [Loggers -> {Idle} \cup [day : Days, failure : LogFailures]]
    BY ReportAssumption DEF TypeOK, Days
<1>1. ASSUME NEW t \in Loggers, NEW f \in LogFailures, LogError(t, f) PROVE Kept'
    BY <1>0, <1>1 DEF LogError, Kept, RecentLogsKept, WritersPast
<1>2. ASSUME NEW t \in Loggers, AppendLog(t) PROVE Kept'
  <2>1. UNCHANGED today /\ WritersPast'
      BY <1>0, <1>2 DEF AppendLog, Kept, WritersPast
  <2>2. CASE UNCHANGED <<selflog, written, lastDay, unseen>>
      BY <2>1, <2>2 DEF Kept, RecentLogsKept
  <2>3. ASSUME NEW day \in Days, NEW f \in LogFailures, writer[t] = [day |-> day, failure |-> f],
               LET appended == [selflog EXCEPT ![day] = Add(f, @)]
               IN  selflog' = IF day = lastDay THEN appended ELSE Pruned(appended, day),
               written' = [written EXCEPT ![day] = Add(f, @)]
        PROVE  Kept'
    <3> DEFINE appended == [selflog EXCEPT ![day] = Add(f, @)]
    <3>1. day <= today /\ day \in Nat
        BY <1>2, <2>3, ReportAssumption DEF Kept, WritersPast, AppendLog, Days
    <3>2. \A d \in Days : d >= today - Retention => appended[d] = written'[d]
        BY <2>3 DEF Kept, RecentLogsKept, TypeOK
    <3>3. \A d \in Days : d >= today - Retention => Pruned(appended, day)[d] = appended[d]
      <4> SUFFICES ASSUME NEW d \in Days, d >= today - Retention PROVE ~(d < day - Retention)
          BY DEF Pruned
      <4>1. d \in Nat
          BY DEF Days
      <4>2. QED  BY <1>0, <3>1, <4>1
    <3>4. selflog' = IF day = lastDay THEN appended ELSE Pruned(appended, day)
        BY <2>3
    <3> HIDE DEF appended
    <3>5. \A d \in Days : d >= today - Retention => selflog'[d] = written'[d]
        BY <3>2, <3>3, <3>4
    <3>6. QED  BY <2>1, <3>5 DEF Kept, RecentLogsKept
  <2>4. CASE ~UNCHANGED <<selflog, written, lastDay, unseen>>
    <3>1. PICK day \in Days, f \in LogFailures :
             /\ writer[t] = [day |-> day, failure |-> f]
             /\ LET appended == [selflog EXCEPT ![day] = Add(f, @)]
                IN  selflog' = IF day = lastDay THEN appended ELSE Pruned(appended, day)
             /\ written' = [written EXCEPT ![day] = Add(f, @)]
        BY <1>2, <2>4, AppendLogTo
    <3>2. QED  BY <2>3, <3>1
  <2>5. QED  BY <2>2, <2>4
<1>3. CASE Restart
    BY <1>3 DEF Restart, Kept, RecentLogsKept, WritersPast
<1>4. ASSUME NEW r \in Runs, StartRun(r) \/ EndRun(r) \/ \E f \in RunFailures : RunFails(r, f)
      PROVE  Kept'
    BY <1>4 DEF StartRun, EndRun, RunFails, Kept, RecentLogsKept, WritersPast
<1>5. CASE NextDay
  <2>1. today' = today + 1 /\ UNCHANGED <<selflog, written, writer>>
      BY <1>5 DEF NextDay
  <2>2. \A d \in Days : d >= today' - Retention => d >= today - Retention
      BY <1>0, <2>1 DEF Days
  <2>3. \A t \in Loggers : writer[t] # Idle => writer[t].day \in Nat
      BY <1>0 DEF Days
  <2>4. QED  BY <1>0, <2>1, <2>2, <2>3 DEF Kept, RecentLogsKept, WritersPast
<1>6. ASSUME NEW d \in Days, Scan(d) PROVE Kept'
    BY <1>6 DEF Scan, Kept, RecentLogsKept, WritersPast
<1>7. ASSUME NEW w \in Weeks, Consolidate(w) PROVE Kept'
    BY <1>7 DEF Consolidate, Kept, RecentLogsKept, WritersPast
<1>8. CASE UNCHANGED vars
    BY <1>8 DEF vars, Kept, RecentLogsKept, WritersPast
<1>9. QED  BY <1>1, <1>2, <1>3, <1>4, <1>5, <1>6, <1>7, <1>8 DEF Next

\* No file younger than the retention loses a record, for any retention, any
\* number of days, writers that took their day before midnight and restarts
\* (_write, _prune).
THEOREM LogsKept == Spec => []RecentLogsKept
<1>1. Init => Kept
    BY DEF Init, Kept, RecentLogsKept, WritersPast
<1>2. Kept => RecentLogsKept
    BY DEF Kept
<1>3. QED  BY <1>1, <1>2, KeptStep, TypesHold, PTL DEF Spec

LEMMA InventedStep == TypeOK /\ NothingInvented /\ [Next]_vars => NothingInvented'
<1> SUFFICES ASSUME TypeOK, NothingInvented, [Next]_vars PROVE NothingInvented'
    OBVIOUS
<1>1. ASSUME NEW t \in Loggers, AppendLog(t) PROVE NothingInvented'
  <2>1. CASE UNCHANGED <<selflog, written, lastDay, unseen>>
      BY <2>1 DEF NothingInvented
  <2>2. ASSUME NEW day \in Days, NEW f \in LogFailures,
               LET appended == [selflog EXCEPT ![day] = Add(f, @)]
               IN  selflog' = IF day = lastDay THEN appended ELSE Pruned(appended, day),
               written' = [written EXCEPT ![day] = Add(f, @)]
        PROVE  NothingInvented'
    <3> DEFINE appended == [selflog EXCEPT ![day] = Add(f, @)]
    <3>1. ASSUME NEW d \in Days, NEW g \in Failures
          PROVE  appended[d][g] <= written'[d][g] /\ 0 <= written'[d][g]
      <4>1. selflog[d] \in Counts /\ written[d] \in Counts /\ selflog[d][g] <= written[d][g]
          BY DEF TypeOK, NothingInvented
      <4>2. appended[d] = (IF d = day THEN Add(f, selflog[d]) ELSE selflog[d])
            /\ written'[d] = (IF d = day THEN Add(f, written[d]) ELSE written[d])
          BY <2>2 DEF TypeOK
      <4>3. \A c \in Counts : Add(f, c)[g] = IF g = f THEN c[g] + 1 ELSE c[g]
          BY DEF Counts, Add
      <4> HIDE DEF appended
      <4>4. selflog[d][g] \in Nat /\ written[d][g] \in Nat
          BY <4>1 DEF Counts
      <4>5. QED  BY <4>1, <4>2, <4>3, <4>4
    <3>2. selflog' = IF day = lastDay THEN appended ELSE Pruned(appended, day)
        BY <2>2
    <3> HIDE DEF appended
    <3>3. QED  BY <3>1, <3>2 DEF NothingInvented, Pruned, None
  <2>3. QED  BY <1>1, <2>1, <2>2, AppendLogTo
<1>2. CASE UNCHANGED <<selflog, written>>
    BY <1>2 DEF NothingInvented
<1>3. (\E t \in Loggers : AppendLog(t)) \/ UNCHANGED <<selflog, written>>
    BY DEF Next, vars, LogError, Restart, StartRun, EndRun, RunFails, NextDay, Scan, Consolidate
<1>4. QED  BY <1>1, <1>2, <1>3
-----------------------------------------------------------------------------
(* The digest of a day                                                     *)

\* A digest counts at most what there is, and, of a day whose files have not
\* changed since, all of it
DigestsTrue ==
    \A d \in Days, f \in Failures :
        /\ Counted(d, f) <= DayTruth(d, f)
        /\ d \notin unseen => Counted(d, f) = DayTruth(d, f)

\* What there is of a day grows with its files
LEMMA DayGrows ==
    ASSUME TypeOK, TypeOK', NEW d \in Days, NEW f \in Failures,
           written[d][f] <= written'[d][f], Mined(d) \subseteq Mined(d)',
           \A r \in Mined(d) : runs[r].events[f] <= runs'[r].events[f]
    PROVE  DayTruth(d, f) <= DayTruth(d, f)'
<1> DEFINE before == Events(f)
           after == Events(f)'
           old == Mined(d)
           new == Mined(d)'
<1>1. before \in [Runs -> Nat] /\ after \in [Runs -> Nat]
  <2>1. Events(f) \in [Runs -> Nat]
      BY EventsNat
  <2>2. (Events(f) \in [Runs -> Nat])'
      BY DEF TypeOK, Events, RunFiles, Counts
  <2>3. QED  BY <2>1, <2>2
<1>2. IsFiniteSet(new) /\ new \subseteq Runs
  <2>1. new \in SUBSET Runs
      BY DEF Mined
  <2>2. QED  BY <2>1, ReportAssumption, FS_Subset
<1>3. IsFiniteSet(old) /\ IsFiniteSet(new \ old) /\ old \subseteq new
    BY <1>2, DaysFinite, FS_Subset
<1>4. \A r \in old : before[r] <= after[r]
  <2>1. \A r \in old : runs[r] # NoRun /\ runs'[r] # NoRun /\ r \in Runs
      BY <1>3 DEF Mined
  <2>2. QED  BY <2>1 DEF Events
<1>5. written[d][f] \in Nat /\ written'[d][f] \in Nat
    BY DEF TypeOK, Counts
<1>6. DayTruth(d, f) = written[d][f] + SumFunctionOnSet(before, old)
      /\ DayTruth(d, f)' = written'[d][f] + SumFunctionOnSet(after, new)
    BY DEF DayTruth
<1> HIDE DEF before, after, old, new
<1>7. SumFunctionOnSet(before, old) <= SumFunctionOnSet(after, old)
  <2>1. \A r \in old : before[r] \in Nat /\ after[r] \in Nat
      BY <1>1, <1>2, <1>3
  <2>2. QED  BY <1>3, <1>4, <2>1, SumLe
<1>8. SumFunctionOnSet(after, old \cup (new \ old))
        = SumFunctionOnSet(after, old) + SumFunctionOnSet(after, new \ old)
    BY <1>1, <1>2, <1>3, SumUnion
<1>9. /\ SumFunctionOnSet(before, old) \in Nat /\ SumFunctionOnSet(after, old) \in Nat
      /\ SumFunctionOnSet(after, new \ old) \in Nat
    BY <1>1, <1>2, <1>3, SumNat
<1>10. SumFunctionOnSet(after, old \cup (new \ old)) = SumFunctionOnSet(after, new)
  <2>1. old \cup (new \ old) = new
      BY <1>3
  <2>2. QED  BY <2>1
<1>11. QED  BY <1>5, <1>6, <1>7, <1>8, <1>9, <1>10

\* ... and stays while they do
LEMMA DayStays ==
    ASSUME NEW d \in Days, NEW f \in Failures,
           written'[d] = written[d], Mined(d)' = Mined(d),
           \A r \in Mined(d) : runs'[r].events[f] = runs[r].events[f]
    PROVE  DayTruth(d, f)' = DayTruth(d, f)
<1> DEFINE before == Events(f)
           after == Events(f)'
           old == Mined(d)
<1>1. \A r \in old : before[r] = after[r]
  <2>1. \A r \in old : runs[r] # NoRun /\ runs'[r] # NoRun /\ r \in Runs
      BY DEF Mined
  <2>2. QED  BY <2>1 DEF Events
<1>2. IsFiniteSet(old)
    BY DaysFinite
<1>3. DayTruth(d, f) = written[d][f] + SumFunctionOnSet(before, old)
      /\ DayTruth(d, f)' = written'[d][f] + SumFunctionOnSet(after, Mined(d)')
    BY DEF DayTruth
<1> HIDE DEF before, after, old
<1>4. SumFunctionOnSet(before, old) = SumFunctionOnSet(after, old)
    BY <1>1, <1>2, SumAgrees
<1>5. SumFunctionOnSet(after, Mined(d)') = SumFunctionOnSet(after, old)
    BY DEF old
<1>6. QED  BY <1>3, <1>4, <1>5
LEMMA DigestsStay ==
    ASSUME DigestsTrue, UNCHANGED <<written, digest, unseen>>,
           \A d \in Days : Mined(d)' = Mined(d),
           \A d \in Days : \A r \in Mined(d) : runs'[r] = runs[r]
    PROVE  DigestsTrue'
<1>1. \A d \in Days, f \in Failures : DayTruth(d, f)' = DayTruth(d, f)
    BY DayStays
<1>2. \A d \in Days, f \in Failures : Counted(d, f)' = Counted(d, f)
    BY DEF Counted
<1>3. QED  BY <1>1, <1>2 DEF DigestsTrue

\* A step that changes the files of one day, which is unseen from then on
LEMMA DigestsOneDay ==
    ASSUME TypeOK, TypeOK', DigestsTrue, NEW day \in Days,
           UNCHANGED digest, unseen' = unseen \cup {day},
           \A f \in Failures : written[day][f] <= written'[day][f],
           Mined(day) \subseteq Mined(day)',
           \A r \in Mined(day), f \in Failures : runs[r].events[f] <= runs'[r].events[f],
           \A d \in Days \ {day} :
              /\ written'[d] = written[d] /\ Mined(d)' = Mined(d)
              /\ \A r \in Mined(d) : runs'[r] = runs[r]
    PROVE  DigestsTrue'
<1> SUFFICES ASSUME NEW d \in Days, NEW f \in Failures
             PROVE  /\ Counted(d, f)' <= DayTruth(d, f)'
                    /\ d \notin unseen' => Counted(d, f)' = DayTruth(d, f)'
    BY DEF DigestsTrue
<1>1. Counted(d, f)' = Counted(d, f)
    BY DEF Counted
<1>2. /\ Counted(d, f) <= DayTruth(d, f)
      /\ d \notin unseen => Counted(d, f) = DayTruth(d, f)
    BY DEF DigestsTrue
<1>3. CASE d = day
  <2>1. DayTruth(d, f) <= DayTruth(d, f)'
      BY <1>3, DayGrows
  <2>2. Counted(d, f) \in Nat /\ DayTruth(d, f) \in Nat
      BY DayNat
  <2>3. DayTruth(d, f)' \in Nat
    <3>1. IsFiniteSet(Mined(d)') /\ Mined(d)' \in SUBSET Runs
        BY ReportAssumption, FS_Subset DEF Mined
    <3>2. Events(f)' \in [Runs -> Nat]
        BY DEF TypeOK, Events, RunFiles, Counts
    <3>3. SumFunctionOnSet(Events(f)', Mined(d)') \in Nat
        BY <3>1, <3>2, SumNat
    <3>4. written'[d][f] \in Nat
        BY DEF TypeOK, Counts
    <3>5. QED  BY <3>3, <3>4 DEF DayTruth
  <2>4. QED  BY <1>1, <1>2, <1>3, <2>1, <2>2, <2>3
<1>4. CASE d # day
  <2>1. DayTruth(d, f)' = DayTruth(d, f)
      BY <1>4, DayStays
  <2>2. QED  BY <1>1, <1>2, <1>4, <2>1
<1>5. QED  BY <1>3, <1>4

LEMMA DigestsStep ==
    TypeOK /\ TypeOK' /\ NothingInvented /\ DigestsTrue /\ [Next]_vars => DigestsTrue'
<1> SUFFICES ASSUME TypeOK, TypeOK', NothingInvented, DigestsTrue, [Next]_vars PROVE DigestsTrue'
    OBVIOUS
<1>1. ASSUME UNCHANGED <<written, runs, digest, unseen>> PROVE DigestsTrue'
  <2>1. \A d \in Days : Mined(d)' = Mined(d)
      BY <1>1 DEF Mined
  <2>2. QED  BY <1>1, <2>1, DigestsStay
<1>2. ASSUME NEW t \in Loggers, AppendLog(t) PROVE DigestsTrue'
  <2>1. UNCHANGED <<runs, digest>> /\ \A d \in Days : Mined(d)' = Mined(d)
      BY <1>2 DEF AppendLog, Mined
  <2>2. CASE UNCHANGED <<written, unseen>>
      BY <1>1, <2>1, <2>2
  <2>3. ASSUME NEW day \in Days, NEW f \in LogFailures,
               written' = [written EXCEPT ![day] = Add(f, @)], unseen' = unseen \cup {day}
        PROVE  DigestsTrue'
    <3>1. ASSUME NEW g \in Failures PROVE written[day][g] <= written'[day][g]
      <4>1. written[day] \in Counts /\ written'[day] = Add(f, written[day])
          BY <2>3 DEF TypeOK
      <4>2. QED  BY <4>1 DEF Add, Counts
    <3>2. \A d \in Days \ {day} : written'[d] = written[d]
        BY <2>3 DEF TypeOK
    <3>3. \A r \in Mined(day), g \in Failures : runs[r].events[g] <= runs'[r].events[g]
      <4>1. \A r \in Mined(day) : runs[r] \in RunFiles
          BY DEF Mined, TypeOK
      <4>2. QED  BY <2>1, <4>1 DEF RunFiles, Counts
    <3>4. QED  BY <2>1, <2>3, <3>1, <3>2, <3>3, DigestsOneDay
  <2>4. CASE ~UNCHANGED <<selflog, written, lastDay, unseen>>
    <3>1. PICK day \in Days, f \in LogFailures :
             written' = [written EXCEPT ![day] = Add(f, @)] /\ unseen' = unseen \cup {day}
        BY <1>2, <2>4, AppendLogTo
    <3>2. QED  BY <2>3, <3>1
  <2>5. QED  BY <2>2, <2>4
<1>3. ASSUME NEW r \in Runs, StartRun(r) PROVE DigestsTrue'
  <2>1. /\ runs[r] = NoRun /\ ~runs'[r].ended
        /\ \A q \in Runs \ {r} : runs'[q] = runs[q]
      BY <1>3, StartRunTo
  <2>2. \A d \in Days : Mined(d)' = Mined(d)
      BY <2>1 DEF Mined
  <2>3. \A d \in Days : \A q \in Mined(d) : runs'[q] = runs[q]
      BY <2>1 DEF Mined
  <2>4. UNCHANGED <<written, digest, unseen>>
      BY <1>3 DEF StartRun
  <2>5. QED  BY <2>2, <2>3, <2>4, DigestsStay
<1>4. ASSUME NEW r \in Runs, EndRun(r) \/ \E f \in RunFailures : RunFails(r, f) PROVE DigestsTrue'
  <2>1. /\ runs[r] \in RunFiles /\ runs'[r] \in RunFiles
        /\ \A q \in Runs \ {r} : runs'[q] = runs[q]
        /\ runs'[r].day = runs[r].day /\ runs'[r].self = runs[r].self
        /\ runs[r].ended => runs'[r].ended
        /\ \A g \in Failures : runs[r].events[g] <= runs'[r].events[g]
    <3>1. CASE EndRun(r)
      <4>1. runs[r] \in RunFiles => \A g \in Failures : runs[r].events[g] <= runs[r].events[g]
          BY DEF RunFiles, Counts
      <4>2. QED  BY <3>1, <4>1, EndRunTo
    <3>2. QED  BY <1>4, <3>1, RunFailsTo
  <2>2. PICK day \in Days : day = runs[r].day
      BY <2>1 DEF RunFiles
  <2>3. /\ day \in Days /\ UNCHANGED <<written, digest>> /\ unseen' = unseen \cup {day}
      BY <1>4, <2>2 DEF EndRun, RunFails
  <2>4. Mined(day) \subseteq Mined(day)'
      BY <2>1, <2>2, RecordsDiffer DEF Mined
  <2>5. \A d \in Days \ {day} : Mined(d)' = Mined(d) /\ r \notin Mined(d)
      BY <2>1, <2>2, RecordsDiffer DEF Mined
  <2>6. \A d \in Days : Mined(d) \subseteq Runs
      BY DEF Mined
  <2>7. \A q \in Mined(day), g \in Failures : runs[q].events[g] <= runs'[q].events[g]
    <3>1. ASSUME NEW q \in Mined(day), NEW g \in Failures
          PROVE  runs[q].events[g] <= runs[q].events[g]
      <4>1. runs[q] \in RunFiles
          BY DEF Mined, TypeOK
      <4>2. QED  BY <4>1 DEF RunFiles, Counts
    <3>2. ASSUME NEW q \in Mined(day) PROVE \A g \in Failures : runs[q].events[g] <= runs'[q].events[g]
      <4>1. CASE q = r  BY <2>1, <4>1
      <4>2. CASE q # r
        <5>1. runs'[q] = runs[q]  BY <2>1, <2>6, <4>2
        <5>2. QED  BY <3>1, <5>1
      <4>3. QED  BY <4>1, <4>2
    <3>3. QED  BY <3>2
  <2>8. \A f \in Failures : written[day][f] <= written'[day][f]
      BY <2>3 DEF TypeOK, Counts
  <2>9. \A d \in Days \ {day} : \A q \in Mined(d) : runs'[q] = runs[q]
      BY <2>1, <2>5, <2>6
  <2>10. \A d \in Days \ {day} : written'[d] = written[d]
      BY <2>3
  <2>11. QED  BY <2>3, <2>4, <2>5, <2>6, <2>7, <2>8, <2>9, <2>10, DigestsOneDay
<1>5. ASSUME NEW day \in Days, Scan(day) PROVE DigestsTrue'
  <2> SUFFICES ASSUME NEW d \in Days, NEW f \in Failures
               PROVE  /\ Counted(d, f)' <= DayTruth(d, f)'
                      /\ d \notin unseen' => Counted(d, f)' = DayTruth(d, f)'
      BY DEF DigestsTrue
  <2>1. UNCHANGED <<selflog, written, runs>>
        /\ digest' = [digest EXCEPT ![day] = [scanned |-> TRUE, count |-> Clusters(day, selflog)]]
        /\ unseen' = IF selflog[day] = written[day] THEN unseen \ {day} ELSE unseen \cup {day}
      BY <1>5 DEF Scan
  <2>2. Mined(d)' = Mined(d)
      BY <2>1 DEF Mined
  <2>3. DayTruth(d, f)' = DayTruth(d, f)
      BY <2>1, <2>2, DayStays
  <2>4. CASE d # day
    <3>1. Counted(d, f)' = Counted(d, f)
        BY <2>1, <2>4 DEF Counted, TypeOK
    <3>2. QED  BY <2>1, <2>3, <2>4, <3>1 DEF DigestsTrue
  <2>5. CASE d = day
    <3>1. Counted(d, f)' = Clusters(d, selflog)[f]
      <4>1. digest'[d] = [scanned |-> TRUE, count |-> Clusters(d, selflog)]
          BY <2>1, <2>5 DEF TypeOK
      <4>2. digest'[d] # NoDigest
          BY <4>1, RecordsDiffer
      <4>3. QED  BY <4>1, <4>2 DEF Counted
    <3>2. /\ Clusters(d, selflog)[f] = selflog[d][f] + SumFunctionOnSet(Events(f), Mined(d))
          /\ SumFunctionOnSet(Events(f), Mined(d)) \in Nat
        BY MinedSum DEF TypeOK
    <3>3. selflog[d][f] <= written[d][f] /\ selflog[d][f] \in Nat /\ written[d][f] \in Nat
        BY DEF NothingInvented, TypeOK, Counts
    <3>4. d \notin unseen' => selflog[d] = written[d]
        BY <2>1, <2>5
    <3>5. QED  BY <2>3, <3>1, <3>2, <3>3, <3>4 DEF DayTruth
  <2>6. QED  BY <2>4, <2>5
<1>6. ASSUME NEW t \in Loggers, NEW f \in LogFailures, LogError(t, f) PROVE DigestsTrue'
    BY <1>1, <1>6 DEF LogError
<1>7. CASE Restart \/ NextDay \/ UNCHANGED vars
    BY <1>1, <1>7 DEF Restart, NextDay, vars
<1>8. ASSUME NEW w \in Weeks, Consolidate(w) PROVE DigestsTrue'
    BY <1>1, <1>8 DEF Consolidate
<1>9. QED  BY <1>2, <1>3, <1>4, <1>5, <1>6, <1>7, <1>8 DEF Next

LEMMA DigestsInit == Init => NothingInvented /\ DigestsTrue
<1> SUFFICES ASSUME Init PROVE NothingInvented /\ DigestsTrue
    OBVIOUS
<1>1. NothingInvented
    BY DEF Init, NothingInvented, None
<1>2. ASSUME NEW d \in Days, NEW f \in Failures PROVE Counted(d, f) = DayTruth(d, f) /\ Counted(d, f) = 0
  <2>1. Counted(d, f) = 0 /\ written[d][f] = 0
      BY DEF Init, Counted, None
  <2>2. Mined(d) = {}
      BY DEF Init, Mined
  <2>3. SumFunctionOnSet(Events(f), Mined(d)) = SumFunctionOnSet(Events(f), {})
      BY <2>2
  <2>4. QED  BY <2>1, <2>3, SumEmpty DEF DayTruth
<1>3. QED  BY <1>1, <1>2 DEF DigestsTrue
-----------------------------------------------------------------------------
(* A report                                                                *)

LEMMA CountsHonest ==
    ASSUME TypeOK, DigestsTrue, NEW w \in Weeks, NEW f \in Failures
    PROVE  /\ Merged(w)[f] <= Truth(w)[f]
           /\ WeekDays(w) \cap unseen = {} => Merged(w)[f] = Truth(w)[f]
<1> DEFINE W == WeekDays(w)
           c == [d \in Days |-> Counted(d, f)]
           t == [d \in Days |-> DayTruth(d, f)]
<1>1. W \subseteq Days /\ IsFiniteSet(W)
    BY DaysFinite
<1>2. \A d \in W : /\ c[d] \in Nat /\ t[d] \in Nat /\ c[d] <= t[d]
                   /\ d \notin unseen => c[d] = t[d]
    BY <1>1, DayNat DEF DigestsTrue
<1>3. Merged(w)[f] = SumFunctionOnSet(c, W) /\ Truth(w)[f] = SumFunctionOnSet(t, W)
    BY MergedSum, TruthSum
<1> HIDE DEF W, c, t
<1>4. SumFunctionOnSet(c, W) <= SumFunctionOnSet(t, W)
    BY <1>1, <1>2, SumLe
<1>5. ASSUME W \cap unseen = {} PROVE SumFunctionOnSet(c, W) = SumFunctionOnSet(t, W)
  <2>1. \A d \in W : c[d] = t[d]
      BY <1>2, <1>5
  <2>2. QED  BY <1>1, <2>1, SumAgrees
<1>6. QED  BY <1>3, <1>4, <1>5 DEF W

LEMMA WeightNat == \A h \in Failures : Weight[Class[h]] \in Nat
<1>1. \A c \in Classes : Weight[c] \in Nat
    BY DEF Classes, Weight
<1>2. QED  BY <1>1, ReportAssumption

\* The order of _rank is a strict total order, whatever the counts
LEMMA OutranksOrder ==
    ASSUME NEW count \in Counts
    PROVE  /\ \A f \in Failures : ~Outranks(count, f, f)
           /\ \A f, g, h \in Failures :
                 Outranks(count, f, g) /\ Outranks(count, g, h) => Outranks(count, f, h)
           /\ \A f, g \in Failures : f # g => Outranks(count, f, g) \/ Outranks(count, g, f)
<1> DEFINE score(h) == count[h] * Weight[Class[h]]
<1>1. \A h \in Failures : h \in Nat /\ count[h] \in Nat
    BY ReportAssumption DEF Counts
<1>2. \A h \in Failures : score(h) \in Nat
    BY <1>1, WeightNat
<1>3. \A f, g : Outranks(count, f, g) <=>
          \/ score(f) > score(g)
          \/ score(f) = score(g) /\ count[f] > count[g]
          \/ score(f) = score(g) /\ count[f] = count[g] /\ f > g
    BY DEF Outranks
<1> HIDE DEF score
<1>4. QED  BY <1>1, <1>2, <1>3

\* The first n of a set in that order outrank the rest of it, and there are n of
\* them unless that is all
LEMMA FirstOutrank ==
    ASSUME NEW count \in Counts, NEW n \in Nat, NEW S \in SUBSET Failures
    PROVE  /\ First(n, count, S) \subseteq S
           /\ \A f \in First(n, count, S), g \in S \ First(n, count, S) : Outranks(count, f, g)
           /\ Cardinality(First(n, count, S)) = n \/ First(n, count, S) = S
<1> DEFINE F == First(n, count, S)
           above(f) == {g \in S : Outranks(count, g, f)}
           below(f) == {g \in F : Outranks(count, f, g)}
<1>1. F = {f \in S : Cardinality(above(f)) < n} /\ F \subseteq S
    BY DEF First
<1>2. IsFiniteSet(S) /\ IsFiniteSet(F) /\ Cardinality(F) \in Nat
    BY <1>1, ReportAssumption, FS_Subset, FS_CardinalityType
<1>3. \A f : /\ above(f) \subseteq S /\ IsFiniteSet(above(f))
             /\ Cardinality(above(f)) \in Nat
    BY <1>2, FS_Subset, FS_CardinalityType
<1>4. /\ \A f \in S : f \notin above(f)
      /\ \A f, g \in S : f \in above(g) => above(f) \subseteq above(g)
    BY OutranksOrder
<1>5. /\ \A f \in F : f \notin below(f)
      /\ \A f, g \in F : f \in below(g) => below(f) \subseteq below(g)
      /\ \A f \in F : below(f) \subseteq F
    BY <1>1, OutranksOrder
<1>6. \A f, g \in S : f # g => Outranks(count, f, g) \/ g \in above(f)
    BY OutranksOrder
<1>7. ASSUME NEW f \in F, NEW g \in S \ F PROVE Outranks(count, f, g)
  <2>1. SUFFICES ASSUME g \in above(f) PROVE FALSE
      BY <1>1, <1>6, <1>7
  <2>2. above(g) \subseteq above(f)
      BY <1>1, <1>4, <1>7, <2>1
  <2> HIDE DEF above
  <2>3. Cardinality(above(g)) <= Cardinality(above(f))
      BY <1>3, <2>2, FS_Subset
  <2>4. Cardinality(above(f)) < n /\ ~(Cardinality(above(g)) < n)
      BY <1>1, <1>7
  <2>5. QED  BY <1>3, <2>3, <2>4
<1>8. ASSUME F # S PROVE Cardinality(F) >= n
  <2> DEFINE Aboves == {above(g) : g \in S \ F}
  <2>1. Aboves \subseteq SUBSET S /\ Aboves # {}
    <3>1. \E g \in S : g \notin F
      <4> HIDE DEF F
      <4> QED  BY <1>1, <1>8
    <3>2. Aboves \subseteq SUBSET S
        OBVIOUS
    <3>3. QED  BY <3>1, <3>2
  <2>2. PICK T \in Aboves : \A U \in Aboves : U \subseteq T => U = T
    <3> HIDE DEF Aboves
    <3> QED  BY <1>2, <2>1, MinimalSubset
  <2>3. PICK g \in S \ F : T = above(g)
      OBVIOUS
  <2>4. \A h \in above(g) : h \in F
    <3>1. SUFFICES ASSUME NEW h \in above(g), h \notin F PROVE FALSE
        OBVIOUS
    <3>2. h \in S /\ above(h) \in Aboves /\ above(h) \subseteq above(g)
        BY <1>4, <3>1
    <3>3. above(h) = above(g)
        BY <2>2, <2>3, <3>2
    <3>4. QED  BY <1>4, <3>1, <3>2, <3>3
  <2>5. F \subseteq above(g)
      BY <1>1, <1>7, <2>3
  <2>6. F = above(g)
      BY <2>4, <2>5
  <2>7. ~(Cardinality(above(g)) < n)
      BY <1>1
  <2> HIDE DEF above
  <2>8. QED  BY <1>2, <2>6, <2>7
<1>9. ASSUME F # {} PROVE Cardinality(F) <= n
  <2> DEFINE Belows == {below(f) : f \in F}
  <2>1. Belows \subseteq SUBSET F /\ Belows # {}
      BY <1>9
  <2>2. PICK T \in Belows : \A U \in Belows : U \subseteq T => U = T
    <3> HIDE DEF Belows
    <3> QED  BY <1>2, <2>1, MinimalSubset
  <2>3. PICK f \in F : T = below(f)
      OBVIOUS
  <2>4. below(f) = {}
    <3>1. SUFFICES ASSUME NEW h \in below(f) PROVE FALSE
        OBVIOUS
    <3>2. h \in F /\ below(h) \in Belows /\ below(h) \subseteq below(f)
        BY <1>5, <3>1
    <3>3. below(h) = below(f)
        BY <2>2, <2>3, <3>2
    <3>4. QED  BY <1>5, <3>1, <3>2, <3>3
  <2>5. F \ {f} \subseteq above(f)
      BY <1>1, <1>6, <2>3, <2>4
  <2> HIDE DEF above, F
  <2>6. Cardinality(F \ {f}) = Cardinality(F) - 1
      BY <1>2, FS_RemoveElement
  <2>7. Cardinality(F \ {f}) <= Cardinality(above(f))
      BY <1>3, <2>5, FS_Subset
  <2>8. Cardinality(above(f)) < n
      BY <1>1, <2>3
  <2>9. QED  BY <1>2, <1>3, <2>6, <2>7, <2>8
<1>10. F = {} => Cardinality(F) = 0
    BY FS_EmptySet
<1> HIDE DEF F
<1>11. Cardinality(F) = n \/ F = S
    BY <1>2, <1>8, <1>9, <1>10
<1>12. QED  BY <1>1, <1>7, <1>11 DEF F

LEMMA ReportStep ==
    TypeOK /\ DigestsTrue /\ ReportHonest /\ [Next]_vars => ReportHonest'
<1> SUFFICES ASSUME TypeOK, DigestsTrue, ReportHonest, [Next]_vars PROVE ReportHonest'
    OBVIOUS
<1>1. CASE UNCHANGED report
    BY <1>1 DEF ReportHonest
<1>2. ASSUME NEW w \in Weeks, Consolidate(w) PROVE ReportHonest'
  <2> DEFINE count == Merged(w)
             new == [written |-> TRUE, toFix |-> ToFix(count),
                     reportOnly |-> Top(count) \ ToFix(count), count |-> count,
                     truth |-> Truth(w), complete |-> WeekDays(w) \cap unseen = {}]
  <2>1. report' = [report EXCEPT ![w] = new]
      BY <1>2 DEF Consolidate
  <2>2. report'[w] = new /\ \A v \in Weeks \ {w} : report'[v] = report[v]
      BY <2>1 DEF TypeOK
  <2>3. CountsTrue(new)
      BY CountsHonest DEF CountsTrue
  <2>4. FixesOutrank(new)
    <3> DEFINE S == Top(count) \cap Fixable
               F == First(FixN, count, S)
    <3>1. count \in Counts
        BY ReportTyped DEF Reports
    <3>2. FixN \in Nat /\ S \in SUBSET Failures
        BY ReportAssumption DEF Fixable
    <3>3. new.toFix = F /\ new.reportOnly = Top(count) \ F /\ new.count = count
        BY DEF ToFix
    <3> HIDE DEF count, new
    <3>4. /\ F \subseteq S
          /\ \A f \in F, g \in S \ F : Outranks(count, f, g)
          /\ Cardinality(F) = FixN \/ F = S
        BY <3>1, <3>2, FirstOutrank
    <3>5. new.reportOnly \cap Fixable = S \ F
        BY <3>3
    <3> HIDE DEF F
    <3>6. QED  BY <3>3, <3>4, <3>5 DEF FixesOutrank
  <2> HIDE DEF new, count
  <2>5. QED  BY <2>2, <2>3, <2>4 DEF ReportHonest
<1>3. QED
    BY <1>1, <1>2 DEF Next, AppendLog, LogError, Restart, StartRun, EndRun, RunFails,
       NextDay, Scan, vars

\* Every report is honest: it counts nothing twice and nothing that did not
\* happen, misses nothing when all its days were mined in time, and hands the
\* wave the failures that outrank what else could be fixed (consolidate_week,
\* _rank), for any number of days, runs and loggers, any classes and any cuts.
THEOREM ReportsHonest == Spec => []ReportHonest
<1> DEFINE Inv == TypeOK /\ NothingInvented /\ DigestsTrue /\ ReportHonest
<1>1. Init => Inv
  <2>1. Init => ReportHonest
      BY DEF Init, ReportHonest
  <2>2. QED  BY <2>1, TypeInit, DigestsInit
<1>2. Inv /\ [Next]_vars => Inv'
    BY TypeStep, InventedStep, DigestsStep, ReportStep
<1>3. QED  BY <1>1, <1>2, PTL DEF Spec
=============================================================================
