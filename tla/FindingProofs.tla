---------------------------- MODULE FindingProofs ----------------------------
(***************************************************************************)
(* What scanners reported and what a gate sees of it, for every set of     *)
(* documents, facts, stored nodes and policies and every number of steps:  *)
(* the safety properties of FindingImport and GraphGate.                   *)
(***************************************************************************)
EXTENDS GraphGate, FiniteSetTheorems, WellFoundedInduction, TLAPS

-----------------------------------------------------------------------------
(***************************************************************************)
(* Evidence: the parts of a summary, and of two that are merged.           *)
(***************************************************************************)

\* A summary has the parts the type says.
LEMMA SummaryParts ==
  ASSUME NEW s \in Summaries
  PROVE  /\ s.level \in Ranks /\ s.count \in Nat /\ s.sources \in SUBSET Sources
         /\ s.traces \in SUBSET Nat /\ s.first \in Nat /\ s.last \in Nat
BY DEF Summaries

LEMMA NoSummaryType == NoSummary \in Summaries
BY DEF NoSummary, Summaries, Ranks, Verified

LEMMA MergeType ==
  ASSUME NEW a \in Summaries, NEW b \in Summaries
  PROVE  MergeEvidenceSummary(a, b) \in Summaries
<1>1. StrongerLevel(a.level, b.level) \in Ranks
  BY SummaryParts DEF StrongerLevel
<1>2. a.count + b.count \in Nat  BY SummaryParts
<1>3. /\ a.sources \cup b.sources \in SUBSET Sources
      /\ a.traces \cup b.traces \in SUBSET Nat
  BY SummaryParts
<1>4. Earlier(a.first, b.first) \in Nat  BY SummaryParts DEF Earlier
<1>5. Later(a.last, b.last) \in Nat  BY SummaryParts DEF Later
<1>6. QED
  BY <1>1, <1>2, <1>3, <1>4, <1>5 DEF MergeEvidenceSummary, Summaries

LEMMA SummaryNumbers ==
  ASSUME NEW s \in Summaries
  PROVE  s.level \in 0..4 /\ s.count \in Nat /\ s.first \in Nat /\ s.last \in Nat
BY SummaryParts DEF Ranks, Verified

LEMMA NothingSaid ==
  /\ NoSummary.level = 0 /\ NoSummary.count = 0 /\ NoSummary.sources = {}
  /\ NoSummary.first = 0 /\ NoSummary.last = 0
BY DEF NoSummary

LEMMA MergeParts ==
  ASSUME NEW a, NEW b
  PROVE  LET c == MergeEvidenceSummary(a, b) IN
           /\ c.level = StrongerLevel(a.level, b.level) /\ c.count = a.count + b.count
           /\ c.sources = a.sources \cup b.sources
           /\ c.first = Earlier(a.first, b.first) /\ c.last = Later(a.last, b.last)
BY DEF MergeEvidenceSummary

-----------------------------------------------------------------------------
(***************************************************************************)
(* Of several values one is preferred.                                     *)
(***************************************************************************)

\* Of two values one is preferred, never both, and preference is transitive: the
\* order in which a scan meets the candidates does not matter.
LEMMA PreferenceIsTotalOrder ==
  ASSUME NEW claims \in AllClaims,
         NEW u \in Values, NEW v \in Values, NEW w \in Values
  PROVE  /\ u # v => \/ FieldValuePreferred(claims, u, v)
                     \/ FieldValuePreferred(claims, v, u)
         /\ ~ (/\ FieldValuePreferred(claims, u, v)
               /\ FieldValuePreferred(claims, v, u))
         /\ FieldValuePreferred(claims, u, v) /\ FieldValuePreferred(claims, v, w)
              => FieldValuePreferred(claims, u, w)
<1>1. \A x \in Values : /\ claims[x].level \in Int /\ claims[x].last \in Int
                        /\ x \in Int
  BY SummaryParts, EvidenceAssumption DEF AllClaims, Ranks, Verified
<1>2. QED  BY <1>1 DEF FieldValuePreferred

LEMMA LeastElement ==
  ASSUME NEW T, T \subseteq Nat, T # {}
  PROVE  \E m \in T : \A n \in T : m <= n
<1> DEFINE less == {p \in Nat \X Nat : p[1] < p[2]}
<1>1. IsWellFoundedOn(less, Nat)
  BY NatLessThanWellFounded DEF OpToRel
<1>2. PICK m \in T : \A n \in T : <<n, m>> \notin less
  <2> HIDE DEF less
  <2> QED  BY <1>1, WFMin
<1>3. \A n \in T : ~(n < m)  BY <1>2
<1>4. QED  BY <1>3

\* A finite set of values has a preferred one.
LEMMA PreferredExists ==
  ASSUME NEW claims \in AllClaims, NEW S \in SUBSET Values, S # {}
  PROVE  \E v \in S : \A w \in S \ {v} : FieldValuePreferred(claims, v, w)
<1> DEFINE Best(T, v) == \A w \in T \ {v} : FieldValuePreferred(claims, v, w)
           Bad == {n \in Nat : \E T \in SUBSET S :
                     /\ T # {} /\ Cardinality(T) = n
                     /\ \A v \in T : ~Best(T, v)}
<1>1. ASSUME NEW T \in SUBSET S
      PROVE  IsFiniteSet(T) /\ Cardinality(T) \in Nat
  <2>1. IsFiniteSet(Values) /\ T \in SUBSET Values  BY EvidenceAssumption
  <2>2. IsFiniteSet(T)  BY <2>1, FS_Subset
  <2>3. Cardinality(T) \in Nat  BY <2>2, FS_CardinalityType
  <2> QED  BY <2>2, <2>3
<1>2. SUFFICES ASSUME \A v \in S : ~Best(S, v) PROVE FALSE
  OBVIOUS
<1>3. Cardinality(S) \in Bad  BY <1>1, <1>2
<1>4. PICK m \in Bad : \A n \in Bad : m <= n
  <2> HIDE DEF Bad
  <2>1. Bad \subseteq Nat  BY DEF Bad
  <2> QED  BY <1>3, <2>1, LeastElement
<1>5. PICK T \in SUBSET S : /\ T # {} /\ Cardinality(T) = m
                            /\ \A v \in T : ~Best(T, v)
  BY <1>4
<1>6. PICK x \in T : TRUE  BY <1>5
<1>7. Cardinality(T \ {x}) = m - 1 /\ m - 1 \in Nat
  <2>1. IsFiniteSet(T) /\ IsFiniteSet(T \ {x})  BY <1>1
  <2>2. Cardinality(T \ {x}) = Cardinality(T) - 1
    BY <2>1, FS_RemoveElement
  <2>3. Cardinality(T \ {x}) \in Nat  BY <1>1
  <2> QED  BY <1>5, <2>2, <2>3
<1>8. m - 1 \notin Bad  BY <1>4, <1>7
<1>9. T \ {x} # {}  BY <1>5, <1>6
<1>10. PICK y \in T \ {x} : Best(T \ {x}, y)
  BY <1>7, <1>8, <1>9
<1>11. x \in Values /\ y \in Values /\ x # y  OBVIOUS
<1>12. CASE FieldValuePreferred(claims, y, x)
  <2>1. Best(T, y)  BY <1>10, <1>12
  <2> QED  BY <2>1, <1>5
<1>13. CASE FieldValuePreferred(claims, x, y)
  <2>1. ASSUME NEW w \in T \ {x}, w # y
        PROVE  FieldValuePreferred(claims, x, w)
    <3>1. FieldValuePreferred(claims, y, w)  BY <1>10, <2>1
    <3>2. w \in Values  OBVIOUS
    <3> QED  BY <1>11, <1>13, <3>1, <3>2, PreferenceIsTotalOrder
  <2>2. Best(T, x)  BY <2>1, <1>13
  <2> QED  BY <2>2, <1>5, <1>6
<1>14. QED  BY <1>11, <1>12, <1>13, PreferenceIsTotalOrder

\* The selected value is a candidate, preferred to every other.
LEMMA SelectedIsPreferred ==
  ASSUME NEW claims \in AllClaims, Candidates(claims) # {}
  PROVE  /\ Selected(claims) \in Candidates(claims)
         /\ Selected(claims) \in Values
         /\ \A w \in Candidates(claims) \ {Selected(claims)} :
              FieldValuePreferred(claims, Selected(claims), w)
<1>1. Candidates(claims) \in SUBSET Values  BY DEF Candidates
<1>2. \E v \in Candidates(claims) :
        \A w \in Candidates(claims) \ {v} : FieldValuePreferred(claims, v, w)
  BY <1>1, PreferredExists
<1>3. QED  BY <1>1, <1>2 DEF Selected

-----------------------------------------------------------------------------
(***************************************************************************)
(* Folds over a finite set.                                                *)
(***************************************************************************)

\* What holds of a set when it holds of the set without any one element, holds of
\* every subset of a finite set.
LEMMA SubsetInduction ==
  ASSUME NEW D, IsFiniteSet(D), NEW Good,
         \A s \in SUBSET D : (\A x \in s : s \ {x} \in Good) => s \in Good
  PROVE  SUBSET D \subseteq Good
<1> DEFINE Bad == {n \in Nat : \E s \in SUBSET D : s \notin Good /\ Cardinality(s) = n}
<1>1. SUFFICES ASSUME NEW s \in SUBSET D, s \notin Good PROVE FALSE
  OBVIOUS
<1>2. \A r \in SUBSET D : IsFiniteSet(r) /\ Cardinality(r) \in Nat
  BY FS_Subset, FS_CardinalityType
<1>3. Cardinality(s) \in Bad  BY <1>1, <1>2
<1>4. PICK m \in Bad : \A n \in Bad : m <= n
  <2>1. Bad \subseteq Nat /\ Bad # {}  BY <1>3
  <2> HIDE DEF Bad
  <2> QED  BY <2>1, LeastElement
<1>5. PICK r \in SUBSET D : r \notin Good /\ Cardinality(r) = m  BY <1>4
<1>6. ASSUME NEW x \in r
      PROVE  r \ {x} \in Good
  <2>1. Cardinality(r \ {x}) = m - 1  BY <1>2, <1>5, FS_RemoveElement
  <2>2. r \ {x} \in SUBSET D /\ m - 1 \in Nat /\ m - 1 < m
    BY <1>2, <2>1
  <2>3. m - 1 \notin Bad  BY <1>4, <2>2
  <2> QED  BY <2>1, <2>2, <2>3
<1>7. QED  BY <1>5, <1>6

\* The values of a function on a finite set are finitely many.
LEMMA ImageIsFinite ==
  ASSUME NEW S, IsFiniteSet(S), NEW h
  PROVE  IsFiniteSet({h[x] : x \in S})
<1> DEFINE g == [x \in S |-> h[x]]
           T == {h[x] : x \in S}
<1>1. g \in Surjection(S, T)  BY DEF Surjection
<1> HIDE DEF g, T
<1>2. IsFiniteSet(T)  BY <1>1, FS_Surjection
<1>3. QED  BY <1>2 DEF T

\* One step of a fold over a set.
FoldStep(f, base, step, s) ==
  IF s = {} THEN base
  ELSE step[CHOOSE x \in s : TRUE][f[s \ {CHOOSE x \in s : TRUE}]]

\* A function that folds the subsets of D.
FoldsOver(f, D, V, base, step) ==
  /\ f \in [SUBSET D -> V]
  /\ \A s \in SUBSET D : f[s] = FoldStep(f, base, step, s)

\* There is one for every finite set.
LEMMA FoldExists ==
  ASSUME NEW D, IsFiniteSet(D), NEW V, NEW base \in V, NEW step \in [D -> [V -> V]]
  PROVE  \E f : FoldsOver(f, D, V, base, step)
<1> DEFINE Small(n) == {s \in SUBSET D : Cardinality(s) <= n}
           Folds(f, n) == /\ f \in [Small(n) -> V]
                          /\ \A s \in Small(n) : f[s] = FoldStep(f, base, step, s)
           Bad == {n \in Nat : \A f : ~Folds(f, n)}
           one(s) == CHOOSE x \in s : TRUE
<1>1. \A s \in SUBSET D : IsFiniteSet(s) /\ Cardinality(s) \in Nat
  BY FS_Subset, FS_CardinalityType
<1>2. 0 \notin Bad
  <2> DEFINE f == [s \in Small(0) |-> base]
  <2>1. \A s \in Small(0) : s = {}  BY <1>1, FS_EmptySet
  <2>2. Folds(f, 0)  BY <2>1 DEF FoldStep
  <2> QED  BY <2>2
<1>3. ASSUME NEW n \in Nat, n \notin Bad
      PROVE  n + 1 \notin Bad
  <2>1. PICK g : Folds(g, n)  BY <1>3
  <2> DEFINE f == [s \in Small(n + 1) |-> FoldStep(g, base, step, s)]
  <2>2. ASSUME NEW s \in Small(n + 1), s # {}
        PROVE  one(s) \in s /\ one(s) \in D /\ s \ {one(s)} \in Small(n)
    <3>1. one(s) \in s  BY <2>2
    <3>2. Cardinality(s \ {one(s)}) = Cardinality(s) - 1
      BY <1>1, <3>1, FS_RemoveElement
    <3>3. Cardinality(s) <= n + 1 /\ Cardinality(s) \in Nat  BY <1>1
    <3> HIDE DEF one
    <3> QED  BY <3>1, <3>2, <3>3
  <2>3. \A s \in Small(n) : s \in Small(n + 1)  BY <1>1
  <2>4. \A s \in Small(n) : f[s] = g[s]  BY <2>1, <2>3
  <2>5. ASSUME NEW s \in Small(n + 1)
        PROVE  FoldStep(g, base, step, s) \in V
    <3>1. CASE s = {}  BY <3>1 DEF FoldStep
    <3>2. CASE s # {}
      <4>1. g[s \ {one(s)}] \in V  BY <2>1, <2>2, <3>2
      <4>2. step[one(s)][g[s \ {one(s)}]] \in V  BY <2>2, <3>2, <4>1
      <4> QED  BY <3>2, <4>2 DEF FoldStep
    <3> QED  BY <3>1, <3>2
  <2>6. ASSUME NEW s \in Small(n + 1)
        PROVE  f[s] = FoldStep(f, base, step, s)
    <3>1. f[s] = FoldStep(g, base, step, s)  OBVIOUS
    <3>2. CASE s = {}  BY <3>1, <3>2 DEF FoldStep
    <3>3. CASE s # {}
      <4>1. f[s \ {one(s)}] = g[s \ {one(s)}]  BY <2>2, <2>4, <3>3
      <4> HIDE DEF f
      <4> QED  BY <3>1, <3>3, <4>1 DEF FoldStep
    <3> QED  BY <3>2, <3>3
  <2>7. f \in [Small(n + 1) -> V]  BY <2>5
  <2>8. Folds(f, n + 1)
    <3> HIDE DEF f, Small
    <3> QED  BY <2>6, <2>7
  <2> QED  BY <2>8
<1>4. Bad = {}
  <2>1. SUFFICES ASSUME Bad # {} PROVE FALSE
    OBVIOUS
  <2>2. PICK m \in Bad : \A n \in Bad : m <= n
    <3>1. Bad \subseteq Nat  OBVIOUS
    <3> HIDE DEF Bad
    <3> QED  BY <2>1, <3>1, LeastElement
  <2>3. m \in Nat /\ m # 0  BY <1>2, <2>2
  <2> HIDE DEF Bad
  <2>4. m - 1 \in Nat /\ m - 1 \notin Bad /\ (m - 1) + 1 = m  BY <2>2, <2>3
  <2> QED  BY <1>3, <2>2, <2>4
<1>5. Small(Cardinality(D)) = SUBSET D  BY FS_Subset, <1>1
<1>6. Cardinality(D) \in Nat  BY <1>1
<1>7. PICK f : Folds(f, Cardinality(D))  BY <1>4, <1>6
<1>8. f \in [SUBSET D -> V] /\ \A s \in SUBSET D : f[s] = FoldStep(f, base, step, s)
  <2> HIDE DEF Small
  <2> QED  BY <1>5, <1>7
<1>9. QED  BY <1>8 DEF FoldsOver

-----------------------------------------------------------------------------
(***************************************************************************)
(* Nodes.                                                                  *)
(***************************************************************************)

LEMMA FieldNames ==
  /\ "uri" \in Fields /\ "digest" \in Fields /\ "level" \in Fields
BY DEF Fields

LEMMA NoValueIsZero == 0 \notin Values /\ \A v \in Values : v \in Nat /\ v # 0
BY EvidenceAssumption

LEMMA NodeParts ==
  ASSUME NEW n \in AllNodes
  PROVE  /\ n.shown \in [Fields -> Values \cup {0}]
         /\ n.claims \in [Fields -> AllClaims]
         /\ n.evidence \in Summaries
         /\ n = [shown |-> n.shown, claims |-> n.claims, evidence |-> n.evidence]
BY DEF AllNodes

LEMMA FieldParts ==
  ASSUME NEW n \in AllNodes, NEW f \in Fields
  PROVE  /\ n.shown[f] \in Values \cup {0}
         /\ n.claims[f] \in AllClaims
         /\ \A v \in Values : n.claims[f][v] \in Summaries /\ n.claims[f][v].count \in Nat
         /\ Candidates(n.claims[f]) \subseteq Values
<1>1. n.shown \in [Fields -> Values \cup {0}] /\ n.claims \in [Fields -> AllClaims]
  BY NodeParts
<1>2. n.claims[f] \in [Values -> Summaries]  BY <1>1 DEF AllClaims
<1>3. \A v \in Values : n.claims[f][v] \in Summaries  BY <1>2
<1>4. \A v \in Values : n.claims[f][v].count \in Nat  BY <1>3, SummaryParts
<1>5. QED  BY <1>1, <1>3, <1>4 DEF Candidates

\* A node shows what its claims resolve to, where it has claims.
Tidy(n) ==
  \A f \in Fields : Candidates(n.claims[f]) # {} => n.shown[f] = Selected(n.claims[f])

\* Resolving changes what is shown and nothing else.
LEMMA ResolveParts ==
  ASSUME NEW n \in AllNodes
  PROVE  LET r == ResolveFieldEvidence(n) IN
           /\ r \in AllNodes /\ r.claims = n.claims /\ r.evidence = n.evidence
           /\ \A f \in Fields : r.shown[f] =
                IF Candidates(n.claims[f]) = {} THEN n.shown[f] ELSE Selected(n.claims[f])
           /\ Tidy(r)
<1> DEFINE shown == [f \in Fields |->
             IF Candidates(n.claims[f]) = {} THEN n.shown[f] ELSE Selected(n.claims[f])]
           r == ResolveFieldEvidence(n)
<1>1. ASSUME NEW f \in Fields
      PROVE  shown[f] \in Values \cup {0}
  <2>1. n.shown[f] \in Values \cup {0} /\ n.claims[f] \in AllClaims
    BY FieldParts
  <2>2. Candidates(n.claims[f]) # {} => Selected(n.claims[f]) \in Values
    BY <2>1, SelectedIsPreferred
  <2> QED  BY <2>1, <2>2
<1>2. shown \in [Fields -> Values \cup {0}]  BY <1>1
<1> HIDE DEF shown
<1>3. r = [shown |-> shown, claims |-> n.claims, evidence |-> n.evidence]
  <2>1. r = [n EXCEPT !.shown = shown]  BY DEF ResolveFieldEvidence, shown
  <2> HIDE DEF r
  <2> QED  BY <2>1 DEF AllNodes
<1>4. r \in AllNodes  BY <1>2, <1>3, NodeParts DEF AllNodes
<1>5. \A f \in Fields : r.shown[f] =
        IF Candidates(n.claims[f]) = {} THEN n.shown[f] ELSE Selected(n.claims[f])
  BY <1>3 DEF shown
<1>6. r.claims = n.claims /\ r.evidence = n.evidence  BY <1>3
<1> HIDE DEF r
<1>7. Tidy(r)  BY <1>5, <1>6 DEF Tidy
<1>8. QED  BY <1>4, <1>5, <1>6, <1>7 DEF r

LEMMA OnlyCandidate ==
  ASSUME NEW claims \in AllClaims, NEW v, Candidates(claims) = {v}
  PROVE  Selected(claims) = v
BY SelectedIsPreferred

\* A value that is shown without a claim becomes one.
LEMMA EnsureParts ==
  ASSUME NEW n \in AllNodes
  PROVE  LET e == EnsureFieldEvidence(n) IN
           /\ e \in AllNodes /\ e.shown = n.shown /\ e.evidence = n.evidence
           /\ \A f \in Fields :
                Candidates(e.claims[f]) = Candidates(n.claims[f]) \cup ({n.shown[f]} \ {0})
           /\ \A f \in Fields :
                n.shown[f] \in Candidates(n.claims[f]) => e.claims[f] = n.claims[f]
<1> DEFINE legacy == [n.evidence EXCEPT !.level = Inferred, !.count = 1]
           new(f, v) == v = n.shown[f] /\ v \notin Candidates(n.claims[f])
           claims == [f \in Fields |-> [v \in Values |->
                        IF new(f, v) THEN legacy ELSE n.claims[f][v]]]
           e == EnsureFieldEvidence(n)
<1>1. legacy \in Summaries /\ legacy.count = 1
  <2>1. n.evidence \in Summaries  BY NodeParts
  <2>2. Inferred \in Ranks /\ 1 \in Nat  BY DEF Inferred, Ranks, Verified
  <2> QED  BY <2>1, <2>2 DEF Summaries
<1>2. \A f \in Fields : /\ n.shown[f] \in Values \cup {0}
                        /\ n.claims[f] \in [Values -> Summaries]
                        /\ \A v \in Values : n.claims[f][v] \in Summaries
  BY FieldParts DEF AllClaims
<1>3. e = [shown |-> n.shown, claims |-> claims, evidence |-> n.evidence]
  <2>1. e = [n EXCEPT !.claims = claims]  BY DEF EnsureFieldEvidence
  <2> HIDE DEF e, claims
  <2> QED  BY <2>1 DEF AllNodes
<1> HIDE DEF legacy, e
<1>4. claims \in [Fields -> AllClaims]  BY <1>1, <1>2 DEF AllClaims
<1>5. ASSUME NEW f \in Fields
      PROVE  Candidates(claims[f]) = Candidates(n.claims[f]) \cup ({n.shown[f]} \ {0})
  <2>1. \A v \in Values : claims[f][v] = IF new(f, v) THEN legacy ELSE n.claims[f][v]
    OBVIOUS
  <2> HIDE DEF claims
  <2>2. \A v \in Values : claims[f][v].count > 0
                           <=> n.claims[f][v].count > 0 \/ v = n.shown[f]
    BY <1>1, <2>1 DEF Candidates
  <2> QED  BY <1>2, <2>2, NoValueIsZero DEF Candidates
<1>6. ASSUME NEW f \in Fields, n.shown[f] \in Candidates(n.claims[f])
      PROVE  claims[f] = n.claims[f]
  <2>1. \A v \in Values : ~new(f, v)  BY <1>6
  <2>2. claims[f] = [v \in Values |-> n.claims[f][v]]  BY <2>1
  <2> QED  BY <1>2, <2>2
<1> HIDE DEF claims
<1>7. e \in AllNodes  BY <1>3, <1>4, NodeParts DEF AllNodes
<1>8. QED  BY <1>3, <1>5, <1>6, <1>7 DEF e

\* What reading a node into a merge makes of it.
LEMMA UpgradedParts ==
  ASSUME NEW n \in AllNodes
  PROVE  LET u == Upgraded(n) IN
           /\ u \in AllNodes /\ Tidy(u) /\ u.evidence = n.evidence
           /\ u.claims = EnsureFieldEvidence(n).claims
           /\ \A f \in Fields :
                Candidates(u.claims[f]) = Candidates(n.claims[f]) \cup ({n.shown[f]} \ {0})
           /\ \A f \in Fields :
                n.shown[f] \in Candidates(n.claims[f]) => u.claims[f] = n.claims[f]
<1> DEFINE e == EnsureFieldEvidence(n)
<1>1. /\ e \in AllNodes /\ e.evidence = n.evidence
      /\ \A f \in Fields :
           Candidates(e.claims[f]) = Candidates(n.claims[f]) \cup ({n.shown[f]} \ {0})
      /\ \A f \in Fields : n.shown[f] \in Candidates(n.claims[f]) => e.claims[f] = n.claims[f]
  BY EnsureParts
<1> HIDE DEF e
<1>2. LET r == ResolveFieldEvidence(e) IN
        r \in AllNodes /\ r.claims = e.claims /\ r.evidence = e.evidence /\ Tidy(r)
  BY <1>1, ResolveParts
<1>3. QED  BY <1>1, <1>2 DEF e, Upgraded

\* It shows what it showed, when that is what its claims resolved to.
LEMMA UpgradedShows ==
  ASSUME NEW n \in AllNodes, Tidy(n)
  PROVE  Upgraded(n).shown = n.shown
<1> DEFINE e == EnsureFieldEvidence(n)
           u == ResolveFieldEvidence(e)
<1>1. /\ e \in AllNodes /\ e.shown = n.shown
      /\ \A f \in Fields :
           Candidates(e.claims[f]) = Candidates(n.claims[f]) \cup ({n.shown[f]} \ {0})
      /\ \A f \in Fields : n.shown[f] \in Candidates(n.claims[f]) => e.claims[f] = n.claims[f]
  BY EnsureParts
<1> HIDE DEF e
<1>2. /\ u \in AllNodes
      /\ \A f \in Fields : u.shown[f] =
           IF Candidates(e.claims[f]) = {} THEN e.shown[f] ELSE Selected(e.claims[f])
  BY <1>1, ResolveParts
<1> HIDE DEF u
<1>3. ASSUME NEW f \in Fields
      PROVE  u.shown[f] = n.shown[f]
  <2>0. n.claims[f] \in AllClaims /\ e.claims[f] \in AllClaims  BY <1>1, FieldParts
  <2>1. CASE Candidates(n.claims[f]) # {}
    <3>1. n.shown[f] = Selected(n.claims[f])  BY <2>1 DEF Tidy
    <3>2. n.shown[f] \in Candidates(n.claims[f])
      BY <2>0, <2>1, <3>1, SelectedIsPreferred
    <3>3. e.claims[f] = n.claims[f]  BY <1>1, <3>2
    <3> QED  BY <1>2, <2>1, <3>1, <3>3
  <2>2. CASE Candidates(n.claims[f]) = {} /\ n.shown[f] # 0
    <3>1. Candidates(e.claims[f]) = {n.shown[f]}  BY <1>1, <2>2
    <3>2. Selected(e.claims[f]) = n.shown[f]  BY <2>0, <3>1, OnlyCandidate
    <3> QED  BY <1>2, <3>1, <3>2
  <2>3. CASE Candidates(n.claims[f]) = {} /\ n.shown[f] = 0
    BY <1>1, <1>2, <2>3
  <2> QED  BY <2>1, <2>2, <2>3
<1>4. u.shown \in [Fields -> Values \cup {0}] /\ n.shown \in [Fields -> Values \cup {0}]
  BY <1>2, NodeParts
<1>5. u.shown = n.shown  BY <1>3, <1>4
<1>6. QED  BY <1>5 DEF u, e, Upgraded

\* Merging two nodes merges their evidence and every claim.
LEMMA MergeNodeParts ==
  ASSUME NEW a \in AllNodes, NEW b \in AllNodes
  PROVE  LET m == MergeNode(a, b) IN
           /\ m \in AllNodes /\ Tidy(m)
           /\ m.evidence = MergeEvidenceSummary(a.evidence, b.evidence)
           /\ \A f \in Fields, v \in Values :
                m.claims[f][v] = MergeEvidenceSummary(a.claims[f][v], b.claims[f][v])
           /\ \A f \in Fields : Candidates(m.claims[f])
                = Candidates(a.claims[f]) \cup Candidates(b.claims[f])
<1> DEFINE claims == [f \in Fields |-> MergeClaims(a.claims[f], b.claims[f])]
           c == [shown |-> a.shown, claims |-> claims,
                 evidence |-> MergeEvidenceSummary(a.evidence, b.evidence)]
           m == MergeNode(a, b)
<1>1. ASSUME NEW f \in Fields, NEW v \in Values
      PROVE  /\ claims[f][v] = MergeEvidenceSummary(a.claims[f][v], b.claims[f][v])
             /\ claims[f][v] \in Summaries
             /\ claims[f][v].count > 0
                  <=> a.claims[f][v].count > 0 \/ b.claims[f][v].count > 0
  <2>1. claims[f][v] = MergeEvidenceSummary(a.claims[f][v], b.claims[f][v])
    BY DEF MergeClaims
  <2> HIDE DEF claims
  <2>2. /\ a.claims[f][v] \in Summaries /\ a.claims[f][v].count \in Nat
        /\ b.claims[f][v] \in Summaries /\ b.claims[f][v].count \in Nat
    BY FieldParts
  <2>3. claims[f][v] \in Summaries  BY <2>1, <2>2, MergeType
  <2>4. claims[f][v].count = a.claims[f][v].count + b.claims[f][v].count
    BY <2>1, MergeParts
  <2> QED  BY <2>1, <2>2, <2>3, <2>4
<1>2. claims \in [Fields -> AllClaims]
  <2>1. \A f \in Fields : claims[f] \in [Values -> Summaries]
    <3>1. \A f \in Fields : claims[f] = [v \in Values |-> claims[f][v]]
      BY DEF MergeClaims
    <3>2. \A f \in Fields, v \in Values : claims[f][v] \in Summaries  BY <1>1
    <3> HIDE DEF claims
    <3> QED  BY <3>1, <3>2
  <2> QED  BY <2>1 DEF AllClaims
<1> HIDE DEF claims
<1>3. MergeEvidenceSummary(a.evidence, b.evidence) \in Summaries
  BY NodeParts, MergeType
<1>4. c \in AllNodes  BY <1>2, <1>3, NodeParts DEF AllNodes
<1>5. c.claims = claims /\ c.evidence = MergeEvidenceSummary(a.evidence, b.evidence)
  OBVIOUS
<1>6. m = ResolveFieldEvidence(c)  BY DEF MergeNode, claims
<1> HIDE DEF c, m
<1>7. m \in AllNodes /\ m.claims = c.claims /\ m.evidence = c.evidence /\ Tidy(m)
  BY <1>4, <1>6, ResolveParts
<1>8. \A f \in Fields : Candidates(claims[f])
        = Candidates(a.claims[f]) \cup Candidates(b.claims[f])
  BY <1>1 DEF Candidates
<1>9. QED  BY <1>1, <1>5, <1>7, <1>8 DEF m

\* A node that evidence says values of has claims of just those.
LEMMA NodeSayingParts ==
  ASSUME NEW value \in [Fields -> Values \cup {0}], NEW evidence \in Summaries
  PROVE  LET n == NodeSaying(value, evidence) IN
           /\ n \in AllNodes /\ Tidy(n) /\ n.evidence = evidence
           /\ \A f \in Fields, v \in Values :
                n.claims[f][v] = IF v = value[f] THEN evidence ELSE NoSummary
<1> DEFINE claims == [f \in Fields |-> [v \in Values |->
                        IF v = value[f] THEN evidence ELSE NoSummary]]
           c == [shown |-> NothingShown, claims |-> claims, evidence |-> evidence]
           n == NodeSaying(value, evidence)
<1>1. claims \in [Fields -> AllClaims]  BY NoSummaryType DEF AllClaims
<1>2. \A f \in Fields, v \in Values :
        claims[f][v] = IF v = value[f] THEN evidence ELSE NoSummary
  OBVIOUS
<1> HIDE DEF claims
<1>3. NothingShown \in [Fields -> Values \cup {0}]  BY DEF NothingShown
<1>4. c \in AllNodes  BY <1>1, <1>3 DEF AllNodes
<1>5. c.claims = claims /\ c.evidence = evidence  OBVIOUS
<1>6. n = ResolveFieldEvidence(c)  BY DEF NodeSaying, claims
<1> HIDE DEF c, n
<1>7. n \in AllNodes /\ n.claims = c.claims /\ n.evidence = c.evidence /\ Tidy(n)
  BY <1>4, <1>6, ResolveParts
<1>8. QED  BY <1>2, <1>5, <1>7 DEF n

LEMMA SaidParts ==
  ASSUME NEW s \in Sources, NEW l \in Ranks, NEW t \in Nat, NEW count \in Nat
  PROVE  /\ Said(s, l, t, count) \in Summaries
         /\ Said(s, l, t, count).count = count
         /\ Said(s, l, t, count).level = l
BY DEF Said, NoSummary, Summaries

-----------------------------------------------------------------------------
(***************************************************************************)
(* Graphs.                                                                 *)
(***************************************************************************)

Graphs(S) == UNION {[D -> AllNodes] : D \in SUBSET S}

LEMMA GraphParts ==
  ASSUME NEW S, NEW g \in Graphs(S)
  PROVE  DOMAIN g \subseteq S /\ g \in [DOMAIN g -> AllNodes]
BY DEF Graphs

LEMMA NothingParts ==
  ASSUME NEW S
  PROVE  DOMAIN Nothing = {} /\ Nothing \in Graphs(S)
<1>1. Nothing \in [{} -> AllNodes]  BY DEF Nothing
<1>2. {} \in SUBSET S  OBVIOUS
<1>3. QED  BY <1>1, <1>2 DEF Graphs

LEMMA GraphMerge ==
  ASSUME NEW g, NEW h, g \in [DOMAIN g -> AllNodes], h \in [DOMAIN h -> AllNodes]
  PROVE  LET m == Merge(g, h) IN
           /\ DOMAIN m = DOMAIN g \cup DOMAIN h
           /\ m \in [DOMAIN m -> AllNodes]
           /\ \A id \in DOMAIN m : Tidy(m[id])
           /\ \A id \in DOMAIN g \ DOMAIN h : m[id] = Upgraded(g[id])
           /\ \A id \in DOMAIN h \ DOMAIN g : m[id] = Upgraded(h[id])
           /\ \A id \in DOMAIN g \cap DOMAIN h :
                m[id] = MergeNode(Upgraded(g[id]), Upgraded(h[id]))
<1> DEFINE m == Merge(g, h)
<1>1. DOMAIN m = DOMAIN g \cup DOMAIN h  BY DEF Merge
<1>2. /\ \A id \in DOMAIN g \ DOMAIN h : m[id] = Upgraded(g[id])
      /\ \A id \in DOMAIN h \ DOMAIN g : m[id] = Upgraded(h[id])
      /\ \A id \in DOMAIN g \cap DOMAIN h :
           m[id] = MergeNode(Upgraded(g[id]), Upgraded(h[id]))
  BY DEF Merge
<1>3. m = [id \in DOMAIN m |-> m[id]]  BY DEF Merge
<1> HIDE DEF m
<1>4. ASSUME NEW id \in DOMAIN m
      PROVE  m[id] \in AllNodes /\ Tidy(m[id])
  <2>1. CASE id \in DOMAIN g \ DOMAIN h
    <3>1. g[id] \in AllNodes  BY <2>1
    <3> QED  BY <2>1, <1>2, <3>1, UpgradedParts
  <2>2. CASE id \in DOMAIN h \ DOMAIN g
    <3>1. h[id] \in AllNodes  BY <2>2
    <3> QED  BY <2>2, <1>2, <3>1, UpgradedParts
  <2>3. CASE id \in DOMAIN g \cap DOMAIN h
    <3>1. g[id] \in AllNodes /\ h[id] \in AllNodes  BY <2>3
    <3>2. Upgraded(g[id]) \in AllNodes /\ Upgraded(h[id]) \in AllNodes
      BY <3>1, UpgradedParts
    <3>3. MergeNode(Upgraded(g[id]), Upgraded(h[id])) \in AllNodes
          /\ Tidy(MergeNode(Upgraded(g[id]), Upgraded(h[id])))
      BY <3>2, MergeNodeParts
    <3> QED  BY <2>3, <1>2, <3>3
  <2> QED  BY <1>1, <2>1, <2>2, <2>3
<1>5. m \in [DOMAIN m -> AllNodes]  BY <1>3, <1>4
<1>6. QED  BY <1>1, <1>2, <1>4, <1>5 DEF m

LEMMA MergedGraphs ==
  ASSUME NEW S, NEW g \in Graphs(S), NEW h \in Graphs(S)
  PROVE  Merge(g, h) \in Graphs(S)
<1>1. /\ DOMAIN g \subseteq S /\ g \in [DOMAIN g -> AllNodes]
      /\ DOMAIN h \subseteq S /\ h \in [DOMAIN h -> AllNodes]
  BY GraphParts
<1>2. /\ DOMAIN Merge(g, h) = DOMAIN g \cup DOMAIN h
      /\ Merge(g, h) \in [DOMAIN Merge(g, h) -> AllNodes]
  BY <1>1, GraphMerge
<1>3. DOMAIN Merge(g, h) \in SUBSET S  BY <1>1, <1>2
<1>4. QED  BY <1>2, <1>3 DEF Graphs

\* No node, no claim, no value shown and no strength is lost in a merge.
LEMMA MergeGrows ==
  ASSUME NEW g, NEW h, g \in [DOMAIN g -> AllNodes], h \in [DOMAIN h -> AllNodes],
         NEW id \in DOMAIN g
  PROVE  LET m == Merge(g, h) IN
           /\ id \in DOMAIN m
           /\ \A f \in Fields :
                Candidates(g[id].claims[f]) \cup ({g[id].shown[f]} \ {0})
                  \subseteq Candidates(m[id].claims[f])
           /\ m[id].evidence.level >= g[id].evidence.level
<1> DEFINE m == Merge(g, h)
           u == Upgraded(g[id])
           i == Upgraded(h[id])
<1>1. g[id] \in AllNodes  OBVIOUS
<1>2. /\ u \in AllNodes /\ u.evidence = g[id].evidence
      /\ \A f \in Fields : Candidates(u.claims[f])
                             = Candidates(g[id].claims[f]) \cup ({g[id].shown[f]} \ {0})
  BY <1>1, UpgradedParts
<1>3. /\ DOMAIN m = DOMAIN g \cup DOMAIN h
      /\ id \notin DOMAIN h => m[id] = u
      /\ id \in DOMAIN h => m[id] = MergeNode(u, i)
  BY DEF Merge
<1>4. u.evidence.level \in 0..4  BY <1>2, NodeParts, SummaryNumbers
<1> HIDE DEF m, u
<1>5. CASE id \notin DOMAIN h  BY <1>2, <1>3, <1>4, <1>5 DEF m
<1>6. CASE id \in DOMAIN h
  <2>1. i \in AllNodes
    <3>1. h[id] \in AllNodes  BY <1>6
    <3> QED  BY <3>1, UpgradedParts
  <2>2. i.evidence.level \in 0..4  BY <2>1, NodeParts, SummaryNumbers
  <2> HIDE DEF i
  <2>3. /\ m[id].evidence = MergeEvidenceSummary(u.evidence, i.evidence)
        /\ \A f \in Fields : Candidates(m[id].claims[f])
                               = Candidates(u.claims[f]) \cup Candidates(i.claims[f])
    BY <1>2, <1>3, <1>6, <2>1, MergeNodeParts
  <2>4. m[id].evidence.level = StrongerLevel(u.evidence.level, i.evidence.level)
    BY <2>3, MergeParts
  <2>5. m[id].evidence.level >= u.evidence.level
    BY <1>4, <2>2, <2>4 DEF StrongerLevel
  <2> QED  BY <1>2, <1>3, <2>3, <2>5 DEF m
<1>7. QED  BY <1>5, <1>6

-----------------------------------------------------------------------------
(***************************************************************************)
(* What the findings of a graph tell of a set of reports.                  *)
(***************************************************************************)

FindingsIn(R) == {r.finding : r \in R}
Of(R, f) == {r \in R : r.finding = f}
OfLevel(R, f, l) == {r \in R : r.finding = f /\ r.level = l}

\* A finding n stands for just the reports of f: it counts them, and its claims
\* count them level by level.
Counts(n, R, f) ==
  /\ n.evidence.count = Cardinality(Of(R, f))
  /\ \A l \in Values : n.claims["level"][l].count = Cardinality(OfLevel(R, f, l))
  /\ n.shown["level"] \in Candidates(n.claims["level"])

Tells(g, R) ==
  /\ DOMAIN g \cap Findings = FindingsIn(R)
  /\ \A f \in FindingsIn(R) : Counts(g[f], R, f)

LEMMA DisjointCounts ==
  ASSUME NEW Q, NEW R, IsFiniteSet(Q), IsFiniteSet(R), Q \cap R = {}, NEW f
  PROVE  /\ Cardinality(Of(Q \cup R, f)) = Cardinality(Of(Q, f)) + Cardinality(Of(R, f))
         /\ \A l : Cardinality(OfLevel(Q \cup R, f, l))
                     = Cardinality(OfLevel(Q, f, l)) + Cardinality(OfLevel(R, f, l))
<1>1. ASSUME NEW A, A \in SUBSET Q, NEW B, B \in SUBSET R
      PROVE  Cardinality(A \cup B) = Cardinality(A) + Cardinality(B)
  <2>1. IsFiniteSet(A) /\ IsFiniteSet(B)  BY <1>1, FS_Subset
  <2>2. A \cap B = {}  BY <1>1
  <2>3. Cardinality(A \cup B) = Cardinality(A) + Cardinality(B) - Cardinality(A \cap B)
    BY <2>1, FS_Union
  <2>4. Cardinality(A \cap B) = 0  BY <2>2, FS_EmptySet
  <2>5. Cardinality(A) \in Nat /\ Cardinality(B) \in Nat  BY <2>1, FS_CardinalityType
  <2> QED  BY <2>3, <2>4, <2>5
<1>2. Of(Q \cup R, f) = Of(Q, f) \cup Of(R, f)  BY DEF Of
<1>3. Of(Q, f) \in SUBSET Q /\ Of(R, f) \in SUBSET R  BY DEF Of
<1>4. ASSUME NEW l
      PROVE  Cardinality(OfLevel(Q \cup R, f, l))
               = Cardinality(OfLevel(Q, f, l)) + Cardinality(OfLevel(R, f, l))
  <2>1. OfLevel(Q \cup R, f, l) = OfLevel(Q, f, l) \cup OfLevel(R, f, l)
    BY DEF OfLevel
  <2>2. OfLevel(Q, f, l) \in SUBSET Q /\ OfLevel(R, f, l) \in SUBSET R
    BY DEF OfLevel
  <2> QED  BY <1>1, <2>1, <2>2
<1>5. QED  BY <1>1, <1>2, <1>3, <1>4

\* An upgrade leaves the counts of a finding alone.
LEMMA UpgradedCounts ==
  ASSUME NEW n \in AllNodes, NEW R, NEW f, Counts(n, R, f)
  PROVE  Counts(Upgraded(n), R, f)
<1>1. LET u == Upgraded(n) IN
        /\ u \in AllNodes /\ Tidy(u) /\ u.evidence = n.evidence
        /\ n.shown["level"] \in Candidates(n.claims["level"])
             => u.claims["level"] = n.claims["level"]
  BY UpgradedParts, FieldNames
<1> DEFINE u == Upgraded(n)
<1>2. u.claims["level"] = n.claims["level"]  BY <1>1 DEF Counts
<1>3. u.claims["level"] \in AllClaims  BY <1>1, FieldParts, FieldNames
<1>4. Candidates(u.claims["level"]) # {}  BY <1>2 DEF Counts
<1>5. u.shown["level"] = Selected(u.claims["level"])
  BY <1>1, <1>4, FieldNames DEF Tidy
<1>6. u.shown["level"] \in Candidates(u.claims["level"])
  BY <1>3, <1>4, <1>5, SelectedIsPreferred
<1>7. QED  BY <1>1, <1>2, <1>6 DEF Counts

LEMMA MergedCounts ==
  ASSUME NEW a \in AllNodes, NEW b \in AllNodes, NEW Q, NEW R, NEW f,
         IsFiniteSet(Q), IsFiniteSet(R), Q \cap R = {},
         Counts(a, Q, f), Counts(b, R, f)
  PROVE  Counts(MergeNode(a, b), Q \cup R, f)
<1> DEFINE m == MergeNode(a, b)
<1>1. /\ m \in AllNodes /\ Tidy(m)
      /\ m.evidence = MergeEvidenceSummary(a.evidence, b.evidence)
      /\ \A l \in Values : m.claims["level"][l]
           = MergeEvidenceSummary(a.claims["level"][l], b.claims["level"][l])
      /\ Candidates(m.claims["level"])
           = Candidates(a.claims["level"]) \cup Candidates(b.claims["level"])
  BY MergeNodeParts, FieldNames
<1> HIDE DEF m
<1>0. /\ Cardinality(Of(Q \cup R, f)) = Cardinality(Of(Q, f)) + Cardinality(Of(R, f))
      /\ \A l : Cardinality(OfLevel(Q \cup R, f, l))
                  = Cardinality(OfLevel(Q, f, l)) + Cardinality(OfLevel(R, f, l))
  BY DisjointCounts
<1>2. m.evidence.count = Cardinality(Of(Q \cup R, f))
  <2>1. m.evidence.count = a.evidence.count + b.evidence.count  BY <1>1, MergeParts
  <2> QED  BY <1>0, <2>1 DEF Counts
<1>3. ASSUME NEW l \in Values
      PROVE  m.claims["level"][l].count = Cardinality(OfLevel(Q \cup R, f, l))
  <2>1. m.claims["level"][l].count
          = a.claims["level"][l].count + b.claims["level"][l].count
    BY <1>1, MergeParts
  <2> QED  BY <1>0, <2>1 DEF Counts
<1>4. m.shown["level"] \in Candidates(m.claims["level"])
  <2>1. Candidates(m.claims["level"]) # {}  BY <1>1 DEF Counts
  <2>2. m.claims["level"] \in AllClaims  BY <1>1, FieldParts, FieldNames
  <2>3. m.shown["level"] = Selected(m.claims["level"])
    BY <1>1, <2>1, FieldNames DEF Tidy
  <2> QED  BY <2>1, <2>2, <2>3, SelectedIsPreferred
<1>5. QED  BY <1>2, <1>3, <1>4 DEF Counts, m

\* Two graphs that tell of different reports, merged, tell of all of them.
LEMMA MergeTells ==
  ASSUME NEW g, NEW h, g \in [DOMAIN g -> AllNodes], h \in [DOMAIN h -> AllNodes],
         NEW Q, NEW R, IsFiniteSet(Q), IsFiniteSet(R), Q \cap R = {},
         Tells(g, Q), Tells(h, R)
  PROVE  Tells(Merge(g, h), Q \cup R)
<1> DEFINE m == Merge(g, h)
<1>1. /\ DOMAIN m = DOMAIN g \cup DOMAIN h
      /\ \A id \in DOMAIN g \ DOMAIN h : m[id] = Upgraded(g[id])
      /\ \A id \in DOMAIN h \ DOMAIN g : m[id] = Upgraded(h[id])
      /\ \A id \in DOMAIN g \cap DOMAIN h :
           m[id] = MergeNode(Upgraded(g[id]), Upgraded(h[id]))
  BY DEF Merge
<1> HIDE DEF m
<1>2. FindingsIn(Q \cup R) = FindingsIn(Q) \cup FindingsIn(R)  BY DEF FindingsIn
<1>3. DOMAIN m \cap Findings = FindingsIn(Q \cup R)  BY <1>1, <1>2 DEF Tells
<1>4. ASSUME NEW f \in FindingsIn(Q \cup R)
      PROVE  Counts(m[f], Q \cup R, f)
  <2>0. f \in Findings  BY <1>3, <1>4
  <2>1. CASE f \in DOMAIN g \ DOMAIN h
    <3>1. f \in FindingsIn(Q) /\ f \notin FindingsIn(R)
      BY <2>0, <2>1, <1>3, <1>2 DEF Tells
    <3>2. Counts(g[f], Q, f) /\ g[f] \in AllNodes  BY <2>1, <3>1 DEF Tells
    <3>3. Counts(m[f], Q, f)  BY <1>1, <2>1, <3>2, UpgradedCounts
    <3>4. /\ Of(Q \cup R, f) = Of(Q, f)
          /\ \A l : OfLevel(Q \cup R, f, l) = OfLevel(Q, f, l)
      BY <3>1 DEF FindingsIn, Of, OfLevel
    <3> QED  BY <3>3, <3>4 DEF Counts
  <2>2. CASE f \in DOMAIN h \ DOMAIN g
    <3>1. f \in FindingsIn(R) /\ f \notin FindingsIn(Q)
      BY <2>0, <2>2, <1>3, <1>2 DEF Tells
    <3>2. Counts(h[f], R, f) /\ h[f] \in AllNodes  BY <2>2, <3>1 DEF Tells
    <3>3. Counts(m[f], R, f)  BY <1>1, <2>2, <3>2, UpgradedCounts
    <3>4. /\ Of(Q \cup R, f) = Of(R, f)
          /\ \A l : OfLevel(Q \cup R, f, l) = OfLevel(R, f, l)
      BY <3>1 DEF FindingsIn, Of, OfLevel
    <3> QED  BY <3>3, <3>4 DEF Counts
  <2>3. CASE f \in DOMAIN g \cap DOMAIN h
    <3>1. f \in FindingsIn(Q) /\ f \in FindingsIn(R)  BY <2>0, <2>3 DEF Tells
    <3>2. /\ Counts(g[f], Q, f) /\ g[f] \in AllNodes
          /\ Counts(h[f], R, f) /\ h[f] \in AllNodes
      BY <2>3, <3>1 DEF Tells
    <3>3. /\ Counts(Upgraded(g[f]), Q, f) /\ Upgraded(g[f]) \in AllNodes
          /\ Counts(Upgraded(h[f]), R, f) /\ Upgraded(h[f]) \in AllNodes
      BY <3>2, UpgradedCounts, UpgradedParts
    <3> QED  BY <1>1, <2>3, <3>3, MergedCounts
  <2> QED  BY <1>1, <1>3, <2>1, <2>2, <2>3
<1>5. QED  BY <1>3, <1>4 DEF Tells, m

LEMMA NothingTold ==
  ASSUME NEW g, DOMAIN g \cap Findings = {}
  PROVE  Tells(g, {})
BY DEF Tells, FindingsIn

-----------------------------------------------------------------------------
(***************************************************************************)
(* What one run of a document becomes.                                     *)
(***************************************************************************)

LEMMA RunParts ==
  ASSUME NEW run \in Runs
  PROVE  /\ run.scanner \in Scanners
         /\ run.rules \in Seq([id : Rules, level : Levels \cup {0}])
         /\ run.results \in Seq(Results)
BY DEF Runs

LEMMA ResultParts ==
  ASSUME NEW run \in Runs, NEW i \in DOMAIN run.results
  PROVE  /\ run.results[i].names \subseteq Rules
         /\ run.results[i].level \in Levels \cup {0}
         /\ run.results[i].locations \in Seq(Values \cup {0, Unresolvable})
<1>1. run.results \in Seq(Results)  BY RunParts
<1>2. run.results[i] \in Results  BY <1>1
<1>3. QED  BY <1>2 DEF Results

LEMMA RuleParts ==
  ASSUME NEW run \in Runs, NEW i \in DOMAIN run.rules
  PROVE  run.rules[i].id \in Rules /\ run.rules[i].level \in Levels \cup {0}
<1> DEFINE rule == [id : Rules, level : Levels \cup {0}]
<1>1. run.rules \in Seq(rule)  BY RunParts
<1> HIDE DEF rule
<1>2. run.rules[i] \in rule  BY <1>1
<1>3. QED  BY <1>2 DEF rule

LEMMA AttachedFinite ==
  ASSUME NEW run \in Runs, NEW uri
  PROVE  Attached(run, uri) \subseteq DOMAIN run.results /\ IsFiniteSet(Attached(run, uri))
<1>1. run.results \in Seq(Results)  BY RunParts
<1>2. PICK n \in Nat : DOMAIN run.results = 1..n  BY <1>1
<1>3. IsFiniteSet(1..n)  BY FS_Interval
<1>4. Attached(run, uri) \in SUBSET DOMAIN run.results  BY DEF Attached
<1>5. QED  BY <1>2, <1>3, <1>4, FS_Subset

\* A result of an accepted run that becomes a finding has a rule and a level.
LEMMA AttachedParts ==
  ASSUME NEW run \in Runs, NEW uri, ~RefusedRun(run, uri), NEW i \in Attached(run, uri)
  PROVE  /\ RuleOf(run, run.results[i]) \in Rules
         /\ LevelOf(run, run.results[i]) \in Levels
<1> DEFINE result == run.results[i]
           named == NamedRules(run, result)
           rule == RuleOf(run, result)
           defaulting == {j \in DOMAIN run.rules : run.rules[j].id = rule}
           defaults == {d.level : d \in {run.rules[j] : j \in defaulting}}
<1>1. i \in DOMAIN run.results /\ ~Suppressed(result) /\ result.kind = "fail"
  BY DEF Attached
<1>2. RuleResolves(run, result)
  BY <1>1 DEF RefusedRun, RefusedResult
<1>3. named \subseteq Rules
  BY <1>1, ResultParts, RuleParts DEF NamedRules
<1>4. named # {}
  BY <1>2, FS_EmptySet DEF RuleResolves
<1>5. rule \in Rules  BY <1>3, <1>4 DEF RuleOf
<1>6. result.level \in Levels \cup {0}  BY <1>1, ResultParts
<1>7. LevelOf(run, result) = IF result.level # 0 THEN result.level
                             ELSE IF defaults \subseteq {0} THEN Warning
                             ELSE CHOOSE l \in defaults : TRUE
  BY DEF LevelOf
<1>8. Warning \in Levels  BY DEF Warning, Levels, Error
<1>9. ASSUME ~(defaults \subseteq {0})
      PROVE  (CHOOSE l \in defaults : TRUE) \in Levels
  <2>1. \A j, k \in defaulting : j = k  BY DEF RefusedRun
  <2>2. PICK l \in defaults : l # 0  BY <1>9
  <2>3. PICK j \in defaulting : l = run.rules[j].level  BY <2>2
  <2>4. defaults = {l}  BY <2>1, <2>3
  <2>5. l \in Levels  BY <2>2, <2>3, RuleParts
  <2> HIDE DEF defaults
  <2> QED  BY <2>4, <2>5
<1> HIDE DEF defaults
<1>10. LevelOf(run, result) \in Levels  BY <1>6, <1>7, <1>8, <1>9
<1>11. QED  BY <1>5, <1>10

\* The reports of the run at position n.
RunReports(run, n, step, sarifURI, uri, digest) ==
  {[step |-> step, run |-> n, result |-> i, finding |-> FindingOf(run, i, uri, digest),
    level |-> LevelOf(run, run.results[i])] : i \in Attached(run, sarifURI)}

LEMMA AttachedIsReported ==
  ASSUME NEW run \in Runs, NEW uri
  PROVE  {j \in DOMAIN run.results :
            LET result == run.results[j] IN
              /\ result.kind = "fail" /\ "accepted" \notin result.suppressions
              /\ result.locations \in Seq({uri}) \ {<<>>}}
           = Attached(run, uri)
<1>1. ASSUME NEW j \in DOMAIN run.results
      PROVE  run.results[j].locations \in Seq({uri}) \ {<<>>}
               <=> AboutArtifact(run.results[j], uri)
  <2> DEFINE where == run.results[j].locations
  <2>1. where \in Seq(Values \cup {0, Unresolvable})  BY ResultParts
  <2> HIDE DEF where
  <2>2. where \in Seq({uri}) <=> \A i \in DOMAIN where : where[i] = uri
    <3>1. where \in Seq({uri}) => \A i \in DOMAIN where : where[i] = uri  BY <2>1
    <3>2. ASSUME \A i \in DOMAIN where : where[i] = uri
          PROVE  where \in Seq({uri})
      <4>1. where = [i \in 1..Len(where) |-> where[i]] /\ Len(where) \in Nat
            /\ DOMAIN where = 1..Len(where)
        BY <2>1
      <4>2. where \in [1..Len(where) -> {uri}]  BY <3>2, <4>1
      <4> QED  BY <4>1, <4>2
    <3> QED  BY <3>1, <3>2
  <2> QED  BY <2>2 DEF AboutArtifact, Elsewhere, where
<1>2. QED  BY <1>1 DEF Attached, Suppressed

LEMMA ReportsByRun ==
  ASSUME NEW doc \in Seq(Runs), NEW sarifURI, NEW uri, NEW digest
  PROVE  Reports(doc, sarifURI, uri, digest)
           = UNION {RunReports(doc[n], n, steps, sarifURI, uri, digest) : n \in DOMAIN doc}
<1>1. \A n \in DOMAIN doc : doc[n] \in Runs  OBVIOUS
<1>2. ASSUME NEW n \in DOMAIN doc
      PROVE  {[step |-> steps, run |-> n, result |-> i,
               finding |-> FindingOf(doc[n], i, uri, digest),
               level |-> LevelOf(doc[n], doc[n].results[i])] :
                i \in {j \in DOMAIN doc[n].results :
                        LET result == doc[n].results[j] IN
                          /\ result.kind = "fail" /\ "accepted" \notin result.suppressions
                          /\ result.locations \in Seq({sarifURI}) \ {<<>>}}}
               = RunReports(doc[n], n, steps, sarifURI, uri, digest)
  BY <1>1, AttachedIsReported DEF RunReports
<1>3. QED  BY <1>2 DEF Reports

\* Elements that are told apart are counted one by one.
LEMMA CountOneByOne ==
  ASSUME NEW S, IsFiniteSet(S), NEW h, h \in [S -> {h[x] : x \in S}],
         \A x, y \in S : h[x] = h[y] => x = y
  PROVE  /\ IsFiniteSet({h[x] : x \in S})
         /\ Cardinality({h[x] : x \in S}) = Cardinality(S)
<1> DEFINE T == {h[x] : x \in S}
<1>1. h \in Surjection(S, T)  BY DEF Surjection
<1>2. h \in Injection(S, T)  BY DEF Injection, IsInjective
<1> HIDE DEF T
<1>3. IsFiniteSet(T) /\ Cardinality(T) = Cardinality(S)
  BY <1>1, <1>2, FS_Surjection
<1>4. QED  BY <1>3 DEF T

\* The findings of a run tell of its reports.
LEMMA RunTells ==
  ASSUME NEW run \in Runs, NEW n, NEW step, NEW sarifURI, ~RefusedRun(run, sarifURI),
         NEW uri \in Values, NEW digest \in Values, NEW time \in Nat
  PROVE  LET found   == FindingsOfRun(run, sarifURI, uri, digest, time)
             reports == RunReports(run, n, step, sarifURI, uri, digest)
         IN  /\ found \in Graphs(Findings)
             /\ IsFiniteSet(reports)
             /\ \A r \in reports : r.step = step /\ r.run = n /\ r.level \in Levels
             /\ Tells(found, reports)
<1> DEFINE attached == Attached(run, sarifURI)
           id(i) == FindingOf(run, i, uri, digest)
           level(i) == LevelOf(run, run.results[i])
           same(f) == {i \in attached : id(i) = f}
           value(i) == [NothingShown EXCEPT !["level"] = level(i)]
           evidence(f) == Said(run.scanner, Observed, time, Cardinality(same(f)))
           node(f) == NodeSaying(value(CHOOSE i \in same(f) : TRUE), evidence(f))
           found == FindingsOfRun(run, sarifURI, uri, digest, time)
           reports == RunReports(run, n, step, sarifURI, uri, digest)
           report(i) == [step |-> step, run |-> n, result |-> i, finding |-> id(i),
                         level |-> level(i)]
<1>1. IsFiniteSet(attached)  BY AttachedFinite
<1>2. \A i \in attached : id(i) \in Findings /\ level(i) \in Levels
  BY AttachedParts, RunParts DEF FindingOf, Findings
<1>3. \A i, j \in attached : id(i) = id(j) => level(i) = level(j)
  BY DEF RefusedRun, FindingOf
<1>4. found = [f \in {id(i) : i \in attached} |-> node(f)]
  BY DEF FindingsOfRun
<1>5. reports = {report(i) : i \in attached}  BY DEF RunReports
<1>6. Levels \subseteq Values /\ run.scanner \in Sources
  BY RunParts, ImportAssumption
<1> HIDE DEF attached, id, level, found, reports
<1>7. DOMAIN found = {id(i) : i \in attached} /\ DOMAIN found \subseteq Findings
  BY <1>2, <1>4
<1>8. FindingsIn(reports) = DOMAIN found
  <2>1. \A i \in attached : report(i).finding = id(i)  OBVIOUS
  <2> HIDE DEF report
  <2>2. {r.finding : r \in reports} = {id(i) : i \in attached}  BY <1>5, <2>1
  <2> QED  BY <1>7, <2>2 DEF FindingsIn
<1>9. ASSUME NEW f \in DOMAIN found
      PROVE  found[f] \in AllNodes /\ Counts(found[f], reports, f)
  <2> DEFINE i == CHOOSE j \in same(f) : TRUE
             count == Cardinality(same(f))
  <2>1. i \in attached /\ id(i) = f
    <3>1. same(f) # {}  BY <1>7
    <3> QED  BY <3>1
  <2>2. IsFiniteSet(same(f)) /\ same(f) # {}
    <3>1. same(f) \in SUBSET attached  OBVIOUS
    <3> QED  BY <1>1, <2>1, <3>1, FS_Subset
  <2>3. count \in Nat /\ count > 0
    BY <2>2, FS_CardinalityType, FS_EmptySet
  <2>4. level(i) \in Values  BY <1>2, <1>6, <2>1
  <2>5. value(i) \in [Fields -> Values \cup {0}] /\ value(i)["level"] = level(i)
    BY <2>4, FieldNames DEF NothingShown
  <2>6. evidence(f) \in Summaries /\ evidence(f).count = count
    <3>1. Observed \in Ranks  BY DEF Observed, Ranks, Verified
    <3> HIDE DEF count
    <3>2. evidence(f) = Said(run.scanner, Observed, time, count)  BY DEF count
    <3> QED  BY <1>6, <2>3, <3>1, <3>2, SaidParts
  <2>7. found[f] = NodeSaying(value(i), evidence(f))  BY <1>4, <1>7
  <2> HIDE DEF value, evidence, i, count
  <2>8. /\ found[f] \in AllNodes /\ Tidy(found[f]) /\ found[f].evidence = evidence(f)
        /\ \A l \in Values : found[f].claims["level"][l]
                               = IF l = level(i) THEN evidence(f) ELSE NoSummary
    BY <2>5, <2>6, <2>7, NodeSayingParts, FieldNames
  <2>9. Cardinality(Of(reports, f)) = count
    <3> DEFINE h == [j \in same(f) |-> report(j)]
    <3>1. Of(reports, f) = {h[j] : j \in same(f)}  BY <1>5 DEF Of
    <3>2. h \in [same(f) -> {h[j] : j \in same(f)}]  OBVIOUS
    <3>3. \A j, k \in same(f) : h[j] = h[k] => j = k
      <4>1. \A j \in same(f) : h[j].result = j  OBVIOUS
      <4> HIDE DEF h
      <4> QED  BY <4>1
    <3> HIDE DEF h
    <3>4. Cardinality({h[j] : j \in same(f)}) = Cardinality(same(f))
      <4> HIDE DEF same
      <4> QED  BY <2>2, <3>2, <3>3, CountOneByOne
    <3> QED  BY <3>1, <3>4 DEF count
  <2>10. ASSUME NEW l \in Values
         PROVE  Cardinality(OfLevel(reports, f, l)) = IF l = level(i) THEN count ELSE 0
    <3>1. \A r \in Of(reports, f) : r.level = level(i)
      BY <1>3, <1>5, <2>1 DEF Of
    <3>2. OfLevel(reports, f, l) = IF l = level(i) THEN Of(reports, f) ELSE {}
      BY <3>1 DEF Of, OfLevel
    <3> QED  BY <2>9, <3>2, FS_EmptySet
  <2>11. \A l \in Values : found[f].claims["level"][l].count
                             = IF l = level(i) THEN count ELSE 0
    BY <2>6, <2>8, NothingSaid
  <2>12. found[f].shown["level"] \in Candidates(found[f].claims["level"])
    <3>1. level(i) \in Candidates(found[f].claims["level"])
      BY <2>3, <2>4, <2>11 DEF Candidates
    <3>2. found[f].claims["level"] \in AllClaims  BY <2>8, FieldParts, FieldNames
    <3>3. found[f].shown["level"] = Selected(found[f].claims["level"])
      BY <2>8, <3>1, FieldNames DEF Tidy
    <3> QED  BY <3>1, <3>2, <3>3, SelectedIsPreferred
  <2> QED  BY <2>6, <2>8, <2>9, <2>10, <2>11, <2>12 DEF Counts
<1>10. found \in Graphs(Findings)
  <2>1. found \in [DOMAIN found -> AllNodes]  BY <1>4, <1>9
  <2> QED  BY <1>7, <2>1 DEF Graphs
<1>11. IsFiniteSet(reports)
  <2> DEFINE h == [i \in attached |-> report(i)]
  <2>1. reports = {h[i] : i \in attached}  BY <1>5
  <2>2. h \in [attached -> {h[i] : i \in attached}]  OBVIOUS
  <2>3. \A i, j \in attached : h[i] = h[j] => i = j
    <3>1. \A i \in attached : h[i].result = i  OBVIOUS
    <3> HIDE DEF h
    <3> QED  BY <3>1
  <2> HIDE DEF h
  <2>4. IsFiniteSet({h[i] : i \in attached})  BY <1>1, <2>2, <2>3, CountOneByOne
  <2> QED  BY <2>1, <2>4
<1>12. \A r \in reports : r.step = step /\ r.run = n /\ r.level \in Levels
  BY <1>2, <1>5
<1>13. Tells(found, reports)
  BY <1>7, <1>8, <1>9 DEF Tells
<1>14. QED  BY <1>10, <1>11, <1>12, <1>13 DEF found, reports

-----------------------------------------------------------------------------
(***************************************************************************)
(* What a whole document becomes: the fold over its runs.                  *)
(***************************************************************************)

\* The findings of the runs at some positions of a document, for every set of them.
Partial(doc, sarifURI, uri, digest, time) ==
  CHOOSE f : f =
    [s \in SUBSET DOMAIN doc |->
       IF s = {} THEN Nothing
       ELSE Merge(f[s \ {CHOOSE n \in s : TRUE}],
                  FindingsOfRun(doc[CHOOSE n \in s : TRUE], sarifURI, uri, digest, time))]

LEMMA FindingsArePartial ==
  ASSUME NEW doc, NEW sarifURI, NEW uri, NEW digest, NEW time
  PROVE  FindingsOf(doc, sarifURI, uri, digest, time)
           = Partial(doc, sarifURI, uri, digest, time)[DOMAIN doc]
BY DEF FindingsOf, FoldFunction, FoldFunctionOnSet, MapThenFoldSet, Partial

\* Every run of a document gives a graph of findings.
FindsInEach(doc, sarifURI, uri, digest, time) ==
  \A n \in DOMAIN doc :
    FindingsOfRun(doc[n], sarifURI, uri, digest, time) \in Graphs(Findings)

\* Each set of positions adds a run to a smaller one.
AddsRunByRun(doc, sarifURI, uri, digest, time) ==
  LET f == Partial(doc, sarifURI, uri, digest, time) IN
    \A s \in SUBSET DOMAIN doc :
      f[s] = IF s = {} THEN Nothing
             ELSE Merge(f[s \ {CHOOSE n \in s : TRUE}],
                        FindingsOfRun(doc[CHOOSE n \in s : TRUE],
                                      sarifURI, uri, digest, time))

LEMMA PartialStep ==
  ASSUME NEW doc \in Seq(Runs), NEW sarifURI, NEW uri, NEW digest, NEW time,
         FindsInEach(doc, sarifURI, uri, digest, time)
  PROVE  AddsRunByRun(doc, sarifURI, uri, digest, time)
<1> DEFINE D == DOMAIN doc
           V == Graphs(Findings)
           of(n) == FindingsOfRun(doc[n], sarifURI, uri, digest, time)
           step == [n \in D |-> [g \in V |-> Merge(g, of(n))]]
           one(s) == CHOOSE n \in s : TRUE
<1>1. IsFiniteSet(D)
  <2>1. PICK n \in Nat : D = 1..n  OBVIOUS
  <2> QED  BY <2>1, FS_Interval
<1>2. \A n \in D : of(n) \in V  BY DEF FindsInEach
<1>3. Nothing \in V  BY NothingParts
<1> HIDE DEF of, V
<1>4. \A n \in D, g \in V : step[n][g] = Merge(g, of(n)) /\ Merge(g, of(n)) \in V
  BY <1>2, MergedGraphs DEF V
<1>5. step \in [D -> [V -> V]]  BY <1>4
<1> HIDE DEF step, D
<1>5a. PICK f : FoldsOver(f, D, V, Nothing, step)
  BY <1>1, <1>3, <1>5, FoldExists
<1>6. /\ f \in [SUBSET D -> V]
      /\ \A s \in SUBSET D : f[s] = FoldStep(f, Nothing, step, s)
  BY <1>5a DEF FoldsOver
<1>7. ASSUME NEW s \in SUBSET D
      PROVE  f[s] = IF s = {} THEN Nothing ELSE Merge(f[s \ {one(s)}], of(one(s)))
  <2>1. f[s] = FoldStep(f, Nothing, step, s)  BY <1>6
  <2>2. CASE s = {}  BY <2>1, <2>2 DEF FoldStep
  <2>3. CASE s # {}
    <3>1. one(s) \in D /\ f[s \ {one(s)}] \in V  BY <1>6, <2>3
    <3>2. f[s] = step[one(s)][f[s \ {one(s)}]]  BY <2>1, <2>3 DEF FoldStep
    <3> HIDE DEF one
    <3> QED  BY <1>4, <2>3, <3>1, <3>2
  <2> QED  BY <2>2, <2>3
<1>8. f = [s \in SUBSET D |->
             IF s = {} THEN Nothing ELSE Merge(f[s \ {one(s)}], of(one(s)))]
  <2>1. f = [s \in SUBSET D |-> f[s]]  BY <1>6
  <2> HIDE DEF one
  <2> QED  BY <1>7, <2>1
<1>9. LET g == Partial(doc, sarifURI, uri, digest, time) IN
        g = [s \in SUBSET DOMAIN doc |->
               IF s = {} THEN Nothing
               ELSE Merge(g[s \ {CHOOSE n \in s : TRUE}],
                          FindingsOfRun(doc[CHOOSE n \in s : TRUE],
                                        sarifURI, uri, digest, time))]
  BY <1>8 DEF Partial, D, of
<1> DEFINE p == Partial(doc, sarifURI, uri, digest, time)
<1>10. ASSUME NEW s \in SUBSET DOMAIN doc
       PROVE  p[s] = IF s = {} THEN Nothing ELSE Merge(p[s \ {one(s)}], of(one(s)))
  <2> HIDE DEF p, one
  <2> QED  BY <1>9 DEF p, one, of
<1>11. QED  BY <1>10 DEF AddsRunByRun, of

\* The findings of a document tell of its reports.
LEMMA DocumentTells ==
  ASSUME NEW doc \in Seq(Runs), NEW sarifURI,
         \A n \in DOMAIN doc : ~RefusedRun(doc[n], sarifURI),
         NEW uri \in Values, NEW digest \in Values, NEW time \in Nat
  PROVE  LET found   == FindingsOf(doc, sarifURI, uri, digest, time)
             reports == Reports(doc, sarifURI, uri, digest)
         IN  /\ found \in Graphs(Findings)
             /\ IsFiniteSet(reports)
             /\ \A r \in reports : r.step = steps /\ r.level \in Levels
             /\ Tells(found, reports)
<1> DEFINE D == DOMAIN doc
           V == Graphs(Findings)
           of(n) == FindingsOfRun(doc[n], sarifURI, uri, digest, time)
           told(n) == RunReports(doc[n], n, steps, sarifURI, uri, digest)
           all(s) == UNION {told(n) : n \in s}
           f == Partial(doc, sarifURI, uri, digest, time)
           one(s) == CHOOSE n \in s : TRUE
           Good == {s \in SUBSET D : f[s] \in V /\ Tells(f[s], all(s))}
<1>1. IsFiniteSet(D)
  <2>1. PICK n \in Nat : D = 1..n  OBVIOUS
  <2> QED  BY <2>1, FS_Interval
<1>2. ASSUME NEW n \in D
      PROVE  /\ of(n) \in V /\ IsFiniteSet(told(n)) /\ Tells(of(n), told(n))
             /\ \A r \in told(n) : r.step = steps /\ r.run = n /\ r.level \in Levels
  <2>1. doc[n] \in Runs  OBVIOUS
  <2> QED  BY <2>1, RunTells
<1>3. AddsRunByRun(doc, sarifURI, uri, digest, time)
  <2>1. FindsInEach(doc, sarifURI, uri, digest, time)  BY <1>2 DEF FindsInEach
  <2> QED  BY <2>1, PartialStep
<1>4. \A s \in SUBSET D :
        f[s] = IF s = {} THEN Nothing ELSE Merge(f[s \ {one(s)}], of(one(s)))
  BY <1>3 DEF AddsRunByRun
<1> HIDE DEF of, told, f, V
<1> HIDE DEF D
<1>5. ASSUME NEW s \in SUBSET D
      PROVE  IsFiniteSet(all(s))
  <2>1. IsFiniteSet(s)  BY <1>1, FS_Subset
  <2>2. IsFiniteSet({told(n) : n \in s})
    <3> DEFINE h == [n \in s |-> told(n)]
    <3>1. {told(n) : n \in s} = {h[n] : n \in s}  OBVIOUS
    <3> HIDE DEF h
    <3> QED  BY <2>1, <3>1, ImageIsFinite
  <2>3. \A T \in {told(n) : n \in s} : IsFiniteSet(T)  BY <1>2
  <2> QED  BY <2>2, <2>3, FS_UNION
<1>6. ASSUME NEW s \in SUBSET D, \A x \in s : s \ {x} \in Good
      PROVE  s \in Good
  <2>1. CASE s = {}
    <3>1. f[s] = Nothing  BY <1>4, <2>1
    <3>2. all(s) = {}  BY <2>1
    <3>3. DOMAIN Nothing = {} /\ Nothing \in V  BY NothingParts DEF V
    <3>4. Tells(f[s], all(s))  BY <3>1, <3>2, <3>3, NothingTold
    <3> QED  BY <3>1, <3>3, <3>4
  <2>2. CASE s # {}
    <3> DEFINE n == one(s)
               t == s \ {n}
    <3>1. n \in s /\ n \in D  BY <2>2
    <3>2. f[s] = Merge(f[t], of(n))  BY <1>4, <2>2
    <3> HIDE DEF n
    <3>3. f[t] \in V /\ Tells(f[t], all(t)) /\ t \in SUBSET D  BY <1>6, <3>1
    <3>4. all(s) = all(t) \cup told(n)  BY <3>1
    <3>5. all(t) \cap told(n) = {}
      <4>1. ASSUME NEW r \in all(t) PROVE r \notin told(n)
        <5>1. PICK m \in t : r \in told(m)  OBVIOUS
        <5>2. r.run = m  BY <1>2, <3>3, <5>1
        <5> QED  BY <1>2, <3>1, <5>2
      <4> QED  BY <4>1
    <3>6. IsFiniteSet(all(t)) /\ IsFiniteSet(told(n))  BY <1>2, <1>5, <3>1, <3>3
    <3>7. /\ f[t] \in [DOMAIN f[t] -> AllNodes] /\ of(n) \in [DOMAIN of(n) -> AllNodes]
          /\ of(n) \in V /\ Tells(of(n), told(n))
      BY <1>2, <3>1, <3>3, GraphParts DEF V
    <3> HIDE DEF all, t
    <3>8. Tells(Merge(f[t], of(n)), all(t) \cup told(n))
      BY <3>3, <3>5, <3>6, <3>7, MergeTells
    <3>9. Merge(f[t], of(n)) \in V  BY <3>3, <3>7, MergedGraphs DEF V
    <3> QED  BY <3>2, <3>4, <3>8, <3>9
  <2> QED  BY <2>1, <2>2
<1>7. SUBSET D \subseteq Good
  <2> HIDE DEF Good
  <2> QED  BY <1>1, <1>6, SubsetInduction
<1>8. f[D] \in V /\ Tells(f[D], all(D))  BY <1>7
<1>9. FindingsOf(doc, sarifURI, uri, digest, time) = f[D]
  BY FindingsArePartial DEF f, D
<1>10. Reports(doc, sarifURI, uri, digest) = all(D)
  BY ReportsByRun DEF D, told
<1>11. \A r \in all(D) : r.step = steps /\ r.level \in Levels  BY <1>2
<1>12. IsFiniteSet(all(D))  BY <1>5
<1>13. QED  BY <1>8, <1>9, <1>10, <1>11, <1>12 DEF V

-----------------------------------------------------------------------------
(***************************************************************************)
(* The inductive invariant.                                                *)
(***************************************************************************)

\* Every node is one of the model's and shows what its claims resolve to.
GraphOK ==
  /\ nodes \in Graphs(Components \cup Findings)
  /\ \A id \in DOMAIN nodes : Tidy(nodes[id])

ReportsOK ==
  /\ steps \in Nat /\ IsFiniteSet(reported)
  /\ \A r \in reported : r.step \in Nat /\ r.step < steps /\ r.level \in Levels

\* An edge joins two components, or a component to a finding about a file that the
\* component has claimed.
EdgeOK(e) ==
  /\ e.from \in DOMAIN nodes \cap Components
  /\ IF e.relation = "affected_by"
     THEN /\ e.to \in DOMAIN nodes \cap Findings
          /\ \A field \in {"uri", "digest"} :
               e.to[field] \in Candidates(nodes[e.from].claims[field])
     ELSE e.to \in DOMAIN nodes \cap Components

EdgesOK ==
  /\ \A e \in DOMAIN edges : EdgeOK(e)
  /\ \A f \in DOMAIN nodes \cap Findings :
       \E e \in DOMAIN edges : e.relation = "affected_by" /\ e.to = f

Inv == GraphOK /\ ReportsOK /\ Tells(nodes, reported) /\ EdgesOK

LEMMA Apart == Components \cap Findings = {}
BY ImportAssumption

LEMMA InitInv == Init => Inv
<1> SUFFICES ASSUME Init PROVE Inv
  OBVIOUS
<1>1. nodes \in Stored /\ edges = Nothing /\ steps = 0 /\ reported = {}  BY DEF Init
<1>2. DOMAIN nodes \subseteq Components /\ nodes \in [DOMAIN nodes -> AllNodes]
  BY <1>1, ImportAssumption
<1>3. DOMAIN nodes \in SUBSET (Components \cup Findings)  BY <1>2
<1>4. nodes \in Graphs(Components \cup Findings)  BY <1>2, <1>3 DEF Graphs
<1>5. ASSUME NEW id \in DOMAIN nodes
      PROVE  Tidy(nodes[id])
  <2>1. nodes[id] \in AllNodes  BY <1>2
  <2>2. ResolveFieldEvidence(nodes[id]) = nodes[id]  BY <1>1, StoredAssumption
  <2> QED  BY <2>1, <2>2, ResolveParts
<1>6. DOMAIN nodes \cap Findings = {}  BY <1>2, Apart
<1>7. Tells(nodes, reported)  BY <1>1, <1>6, NothingTold
<1>8. EdgesOK
  <2>1. DOMAIN edges = {}  BY <1>1, NothingParts
  <2> QED  BY <1>6, <2>1 DEF EdgesOK
<1>9. ReportsOK  BY <1>1, FS_EmptySet DEF ReportsOK
<1>10. QED  BY <1>4, <1>5, <1>7, <1>8, <1>9 DEF Inv, GraphOK

\* What an observation merges in: components, and the call of one by another.
LEMMA ObserveParts ==
  ASSUME NEW fact \in Facts, Observe(fact)
  PROVE  \E h \in Graphs(Components) : \E E :
           /\ nodes' = Merge(nodes, h)
           /\ DOMAIN edges' = DOMAIN edges \cup E
           /\ \A e \in E : /\ e.relation = "connects_to"
                           /\ e.from \in DOMAIN h /\ e.to \in DOMAIN h
           /\ steps' = steps + 1 /\ reported' = reported
<1> DEFINE evidence == Said(fact.source, fact.level, fact.time, 1)
           named == {fact.server, fact.agent} \ {NoAgent}
           value(c) == [NothingShown EXCEPT
                          !["uri"] = IF c = fact.server THEN fact.uri ELSE 0,
                          !["digest"] = IF c = fact.server THEN fact.digest ELSE 0]
           h == [c \in named |-> NodeSaying(value(c), evidence)]
           E == {[from |-> a, relation |-> "connects_to", to |-> fact.server] :
                   a \in {fact.agent} \ {NoAgent}}
<1>1. /\ fact.server \in Components /\ fact.agent \in Components \cup {NoAgent}
      /\ fact.uri \in Values \cup {0} /\ fact.digest \in Values \cup {0}
      /\ fact.level \in Inferred..Verified /\ fact.time \in Nat \ {0}
      /\ fact.source \in Sources /\ NoAgent \notin Components
  BY ImportAssumption
<1>2. evidence \in Summaries
  <2>1. fact.level \in Ranks  BY <1>1 DEF Inferred, Verified, Ranks
  <2> QED  BY <1>1, <2>1, SaidParts
<1>3. \A c : value(c) \in [Fields -> Values \cup {0}]
  BY <1>1, FieldNames DEF NothingShown
<1>4. nodes' = Merge(nodes, h) /\ edges' = MergeEdges(edges, [e \in E |-> evidence])
      /\ steps' = steps + 1 /\ reported' = reported
  BY DEF Observe
<1>5. DOMAIN edges' = DOMAIN edges \cup E
  <2> HIDE DEF E, evidence
  <2> QED  BY <1>4 DEF MergeEdges
<1> HIDE DEF evidence, value
<1>6. \A c \in named : NodeSaying(value(c), evidence) \in AllNodes
  BY <1>2, <1>3, NodeSayingParts
<1>7. DOMAIN h = named /\ named \in SUBSET Components  BY <1>1
<1>8. h \in [named -> AllNodes]  BY <1>6
<1>9. \A e \in E : e.relation = "connects_to" /\ e.from \in named /\ e.to \in named
  BY <1>1
<1> HIDE DEF h, E, named
<1>10. h \in Graphs(Components)  BY <1>7, <1>8 DEF Graphs
<1>11. QED  BY <1>4, <1>5, <1>7, <1>9, <1>10

\* What an import merges in: findings h that tell of its reports R, each affecting the
\* components T that are bound to the file they are about.
Imports(h, T, R, uri, digest) ==
  /\ h \in Graphs(Findings)
  /\ nodes' = Merge(nodes, h)
  /\ DOMAIN edges' = DOMAIN edges \cup
       {[from |-> t, relation |-> "affected_by", to |-> f] : t \in T, f \in DOMAIN h}
  /\ T # {}
  /\ \A t \in T : /\ t \in DOMAIN nodes /\ t \notin Findings
                  /\ nodes[t].shown["uri"] = uri /\ nodes[t].shown["digest"] = digest
  /\ \A f \in DOMAIN h : f.uri = uri /\ f.digest = digest
  /\ steps' = steps + 1 /\ reported' = reported \cup R
  /\ IsFiniteSet(R) /\ Tells(h, R)
  /\ \A r \in R : r.step = steps /\ r.level \in Levels

LEMMA ImportParts ==
  ASSUME NEW doc \in Documents, NEW uri \in Values, NEW digest \in Values,
         NEW time \in Nat, Import(doc, uri, uri, digest, time)
  PROVE  \E h, T, R : Imports(h, T, R, uri, digest)
<1> DEFINE h == FindingsOf(doc, uri, uri, digest, time)
           R == Reports(doc, uri, uri, digest)
           T == Targets(uri, digest)
           E == {[from |-> t, relation |-> "affected_by", to |-> f] :
                   t \in T, f \in DOMAIN h}
<1>1. doc \in Seq(Runs)  BY ImportAssumption
<1>2. \A n \in DOMAIN doc : ~RefusedRun(doc[n], uri)  BY DEF Import
<1>3. /\ h \in Graphs(Findings) /\ IsFiniteSet(R) /\ Tells(h, R)
      /\ \A r \in R : r.step = steps /\ r.level \in Levels
  BY <1>1, <1>2, DocumentTells
<1>4. \A r \in R : r.finding.uri = uri /\ r.finding.digest = digest
  BY DEF Reports, FindingOf
<1>5. T # {}
  <2>1. Cardinality(T) = 1  BY DEF Import
  <2> QED  BY <2>1, FS_EmptySet
<1>6. \A t \in T : /\ t \in DOMAIN nodes /\ t \notin Findings
                   /\ nodes[t].shown["uri"] = uri /\ nodes[t].shown["digest"] = digest
  BY DEF Targets, Bound, IsFinding
<1>7. /\ nodes' = Merge(nodes, h) /\ steps' = steps + 1 /\ reported' = reported \cup R
      /\ edges' = MergeEdges(edges, [e \in E |-> h[e.to].evidence])
  BY DEF Import
<1> HIDE DEF h, R, T
<1>8. DOMAIN edges' = DOMAIN edges \cup E
  <2> HIDE DEF E
  <2> QED  BY <1>7 DEF MergeEdges
<1>9. \A f \in DOMAIN h : f.uri = uri /\ f.digest = digest
  <2>1. DOMAIN h \subseteq Findings  BY <1>3, GraphParts
  <2>2. DOMAIN h = {r.finding : r \in R}  BY <1>3, <2>1 DEF Tells, FindingsIn
  <2> QED  BY <1>4, <2>2
<1>10. Imports(h, T, R, uri, digest)
  BY <1>3, <1>5, <1>6, <1>7, <1>8, <1>9 DEF Imports
<1>11. QED  BY <1>10

-----------------------------------------------------------------------------
(***************************************************************************)
(* Every step keeps it.                                                    *)
(***************************************************************************)

\* Merging keeps the edges a graph has in order.
LEMMA EdgesStayOK ==
  ASSUME GraphOK, NEW S, NEW h \in Graphs(S), nodes' = Merge(nodes, h),
         NEW e, EdgeOK(e)
  PROVE  EdgeOK(e)'
<1>1. nodes \in [DOMAIN nodes -> AllNodes] /\ h \in [DOMAIN h -> AllNodes]
  BY GraphParts DEF GraphOK
<1>2. \A id \in DOMAIN nodes :
        /\ id \in DOMAIN nodes'
        /\ \A f \in Fields :
             Candidates(nodes[id].claims[f]) \subseteq Candidates(nodes'[id].claims[f])
  BY <1>1, MergeGrows
<1>3. QED  BY <1>2, FieldNames DEF EdgeOK

LEMMA MergedIsOK ==
  ASSUME GraphOK, NEW h \in Graphs(Components \cup Findings), nodes' = Merge(nodes, h)
  PROVE  GraphOK' /\ DOMAIN nodes' = DOMAIN nodes \cup DOMAIN h
<1>1. nodes \in [DOMAIN nodes -> AllNodes] /\ h \in [DOMAIN h -> AllNodes]
  BY GraphParts DEF GraphOK
<1>2. nodes' \in Graphs(Components \cup Findings)  BY MergedGraphs DEF GraphOK
<1>3. DOMAIN nodes' = DOMAIN nodes \cup DOMAIN h /\ \A id \in DOMAIN nodes' : Tidy(nodes'[id])
  BY <1>1, GraphMerge
<1>4. QED  BY <1>2, <1>3 DEF GraphOK

LEMMA ObserveInv ==
  ASSUME Inv, NEW fact \in Facts, Observe(fact)
  PROVE  Inv'
<1>0. PICK h \in Graphs(Components) : \E E :
        /\ nodes' = Merge(nodes, h)
        /\ DOMAIN edges' = DOMAIN edges \cup E
        /\ \A e \in E : /\ e.relation = "connects_to"
                        /\ e.from \in DOMAIN h /\ e.to \in DOMAIN h
        /\ steps' = steps + 1 /\ reported' = reported
  BY ObserveParts
<1>1. PICK E :
        /\ nodes' = Merge(nodes, h)
        /\ DOMAIN edges' = DOMAIN edges \cup E
        /\ \A e \in E : /\ e.relation = "connects_to"
                        /\ e.from \in DOMAIN h /\ e.to \in DOMAIN h
        /\ steps' = steps + 1 /\ reported' = reported
  BY <1>0
<1>2. /\ DOMAIN h \subseteq Components /\ h \in [DOMAIN h -> AllNodes]
      /\ nodes \in [DOMAIN nodes -> AllNodes]
  BY GraphParts DEF Inv, GraphOK
<1>3. h \in Graphs(Components \cup Findings)  BY <1>2 DEF Graphs
<1>4. GraphOK' /\ DOMAIN nodes' = DOMAIN nodes \cup DOMAIN h
  BY <1>1, <1>3, MergedIsOK DEF Inv
<1>5. ReportsOK'  BY <1>1 DEF Inv, ReportsOK
<1>6. Tells(nodes, reported)'
  <2>1. DOMAIN h \cap Findings = {}  BY <1>2, Apart
  <2>2. Tells(h, {})  BY <2>1, NothingTold
  <2>3. IsFiniteSet({}) /\ reported \cap {} = {} /\ reported \cup {} = reported
    BY FS_EmptySet
  <2>4. IsFiniteSet(reported) /\ Tells(nodes, reported)  BY DEF Inv, ReportsOK
  <2>5. Tells(Merge(nodes, h), reported \cup {})
    BY <1>2, <2>2, <2>3, <2>4, MergeTells
  <2> QED  BY <1>1, <2>3, <2>5
<1>7. EdgesOK'
  <2>1. ASSUME NEW e \in DOMAIN edges PROVE EdgeOK(e)'
    BY <1>1, <2>1, EdgesStayOK DEF Inv, EdgesOK
  <2>2. ASSUME NEW e \in E PROVE EdgeOK(e)'
    BY <1>1, <1>2, <1>4 DEF EdgeOK
  <2>3. DOMAIN nodes' \cap Findings = DOMAIN nodes \cap Findings
    BY <1>2, <1>4, Apart
  <2> QED  BY <1>1, <2>1, <2>2, <2>3 DEF Inv, EdgesOK
<1>8. QED  BY <1>4, <1>5, <1>6, <1>7 DEF Inv

LEMMA ImportInv ==
  ASSUME Inv, NEW doc \in Documents, NEW uri \in Values, NEW digest \in Values,
         NEW time \in Nat, Import(doc, uri, uri, digest, time)
  PROVE  Inv'
<1>1. PICK h, T, R : Imports(h, T, R, uri, digest)  BY ImportParts
<1> DEFINE E == {[from |-> t, relation |-> "affected_by", to |-> f] :
                   t \in T, f \in DOMAIN h}
<1>2. /\ h \in Graphs(Findings) /\ nodes' = Merge(nodes, h)
      /\ DOMAIN edges' = DOMAIN edges \cup E
      /\ T # {}
      /\ \A t \in T : /\ t \in DOMAIN nodes /\ t \notin Findings
                      /\ nodes[t].shown["uri"] = uri /\ nodes[t].shown["digest"] = digest
      /\ \A f \in DOMAIN h : f.uri = uri /\ f.digest = digest
      /\ steps' = steps + 1 /\ reported' = reported \cup R
      /\ IsFiniteSet(R) /\ Tells(h, R)
      /\ \A r \in R : r.step = steps /\ r.level \in Levels
  BY <1>1 DEF Imports
<1>3. /\ DOMAIN h \subseteq Findings /\ h \in [DOMAIN h -> AllNodes]
      /\ DOMAIN nodes \subseteq Components \cup Findings
      /\ nodes \in [DOMAIN nodes -> AllNodes]
  BY <1>2, GraphParts DEF Inv, GraphOK
<1>4. h \in Graphs(Components \cup Findings)  BY <1>3 DEF Graphs
<1>5. GraphOK' /\ DOMAIN nodes' = DOMAIN nodes \cup DOMAIN h
  BY <1>2, <1>4, MergedIsOK DEF Inv
<1>6. ReportsOK'
  <2>1. IsFiniteSet(reported \cup R)  BY <1>2, FS_Union DEF Inv, ReportsOK
  <2> QED  BY <1>2, <2>1 DEF Inv, ReportsOK
<1>7. Tells(nodes, reported)'
  <2>1. reported \cap R = {}  BY <1>2 DEF Inv, ReportsOK
  <2>2. IsFiniteSet(reported) /\ Tells(nodes, reported)  BY DEF Inv, ReportsOK
  <2>3. Tells(Merge(nodes, h), reported \cup R)
    BY <1>2, <1>3, <2>1, <2>2, MergeTells
  <2> QED  BY <1>2, <2>3
<1>8. EdgesOK'
  <2>1. ASSUME NEW e \in DOMAIN edges PROVE EdgeOK(e)'
    BY <1>2, <2>1, EdgesStayOK DEF Inv, EdgesOK
  <2>2. ASSUME NEW t \in T, NEW field \in {"uri", "digest"}
        PROVE  nodes[t].shown[field] \in Candidates(nodes'[t].claims[field])
    <3>1. nodes[t].shown[field] \in {uri, digest} /\ t \in DOMAIN nodes  BY <1>2
    <3>2. nodes[t].shown[field] # 0  BY <3>1, NoValueIsZero
    <3>3. \A f \in Fields :
            Candidates(nodes[t].claims[f]) \cup ({nodes[t].shown[f]} \ {0})
              \subseteq Candidates(Merge(nodes, h)[t].claims[f])
      BY <1>3, <3>1, MergeGrows
    <3>4. field \in Fields  BY FieldNames
    <3>5. nodes[t].shown[field] \in Candidates(Merge(nodes, h)[t].claims[field])
      BY <3>2, <3>3, <3>4
    <3> QED  BY <1>2, <3>5
  <2>3. ASSUME NEW t \in T, NEW f \in DOMAIN h
        PROVE  EdgeOK([from |-> t, relation |-> "affected_by", to |-> f])'
    <3>1. t \in DOMAIN nodes' \cap Components  BY <1>2, <1>3, <1>5
    <3>2. f \in DOMAIN nodes' \cap Findings  BY <1>3, <1>5
    <3>3. \A field \in {"uri", "digest"} : f[field] = nodes[t].shown[field]  BY <1>2
    <3> QED  BY <2>2, <3>1, <3>2, <3>3 DEF EdgeOK
  <2>4. \A e \in DOMAIN edges' : EdgeOK(e)'  BY <1>2, <2>1, <2>3
  <2>5. ASSUME NEW f \in DOMAIN nodes' \cap Findings
        PROVE  \E e \in DOMAIN edges' : e.relation = "affected_by" /\ e.to = f
    <3>1. CASE f \in DOMAIN nodes
      BY <1>2, <3>1 DEF Inv, EdgesOK
    <3>2. CASE f \in DOMAIN h
      <4>1. PICK t \in T : TRUE  BY <1>2
      <4>2. [from |-> t, relation |-> "affected_by", to |-> f] \in DOMAIN edges'
        BY <1>2, <3>2
      <4> QED  BY <4>2
    <3> QED  BY <1>5, <3>1, <3>2
  <2> QED  BY <2>4, <2>5 DEF EdgesOK
<1>9. QED  BY <1>5, <1>6, <1>7, <1>8 DEF Inv

LEMMA TimesAreNumbers == \A f \in Facts : f.time \in Nat
BY ImportAssumption

LEMMA NextInv == Inv /\ [Next]_vars => Inv'
<1> SUFFICES ASSUME Inv, [Next]_vars PROVE Inv'
  OBVIOUS
<1>1. CASE UNCHANGED vars
  BY <1>1 DEF vars, Inv, GraphOK, ReportsOK, EdgesOK, EdgeOK
<1>2. CASE \E fact \in Facts : Observe(fact)  BY <1>2, ObserveInv
<1>3. CASE \E doc \in Documents, uri, digest \in Values, time \in {f.time : f \in Facts} :
             Import(doc, uri, uri, digest, time)
  BY <1>3, ImportInv, TimesAreNumbers
<1>4. QED  BY <1>1, <1>2, <1>3 DEF Next

LEMMA InvHolds == Spec => []Inv
BY InitInv, NextInv, PTL DEF Spec

-----------------------------------------------------------------------------
(***************************************************************************)
(* The safety properties.                                                  *)
(***************************************************************************)

LEMMA CountIsPositive ==
  ASSUME NEW R, IsFiniteSet(R), NEW f, NEW l
  PROVE  Cardinality(OfLevel(R, f, l)) > 0 <=> \E r \in R : r.finding = f /\ r.level = l
<1>1. OfLevel(R, f, l) \in SUBSET R  BY DEF OfLevel
<1>2. IsFiniteSet(OfLevel(R, f, l))  BY <1>1, FS_Subset
<1>3. /\ Cardinality(OfLevel(R, f, l)) \in Nat
      /\ Cardinality(OfLevel(R, f, l)) = 0 <=> OfLevel(R, f, l) = {}
  BY <1>2, FS_CardinalityType, FS_EmptySet
<1>4. QED  BY <1>3 DEF OfLevel

\* In every reachable state the findings of the graph are those the scanners reported,
\* and a gate reads of each exactly the levels it was ever reported at.
THEOREM EveryReportIsSeen == Spec => []GateSeesEveryReport
<1>1. Inv => GateSeesEveryReport
  <2> SUFFICES ASSUME Inv PROVE GateSeesEveryReport
    OBVIOUS
  <2>1. Tells(nodes, reported) /\ IsFiniteSet(reported)  BY DEF Inv, ReportsOK
  <2>2. {id \in DOMAIN nodes : IsFinding(id)} = FindingsIn(reported)
    BY <2>1 DEF IsFinding, Tells
  <2>3. ASSUME NEW f \in FindingsIn(reported)
        PROVE  FindingLevels(nodes[f]) = {r.level : r \in {q \in reported : q.finding = f}}
    <3>1. Counts(nodes[f], reported, f)  BY <2>1 DEF Tells
    <3>2. Candidates(nodes[f].claims["level"]) = {r.level : r \in Of(reported, f)}
      <4>1. \A l \in Values : l \in Candidates(nodes[f].claims["level"])
              <=> \E r \in reported : r.finding = f /\ r.level = l
        BY <2>1, <3>1, CountIsPositive DEF Counts, Candidates
      <4>2. \A r \in reported : r.level \in Values
        BY ImportAssumption DEF Inv, ReportsOK
      <4> QED  BY <4>1, <4>2 DEF Candidates, Of
    <3>3. FindingLevels(nodes[f]) = Candidates(nodes[f].claims["level"])
      BY <3>1, NoValueIsZero DEF Counts, FindingLevels, Candidates
    <3> QED  BY <3>2, <3>3 DEF Of
  <2>4. QED  BY <2>2, <2>3 DEF GateSeesEveryReport, FindingsIn
<1>2. QED  BY <1>1, InvHolds, PTL

\* A finding counts the results that reported it, once each, over all runs and imports.
THEOREM EveryOccurrenceCounts == Spec => []OccurrencesAreCounted
<1>1. Inv => OccurrencesAreCounted
  <2> SUFFICES ASSUME Inv, NEW f \in FindingsIn(reported)
               PROVE  /\ nodes[f].evidence.count = Cardinality({r \in reported : r.finding = f})
                      /\ \A l \in Levels : nodes[f].claims["level"][l].count
                           = Cardinality({r \in reported : r.finding = f /\ r.level = l})
    BY DEF OccurrencesAreCounted, FindingsIn
  <2>1. Counts(nodes[f], reported, f)  BY DEF Inv, Tells
  <2>2. \A l \in Levels : l \in Values  BY ImportAssumption
  <2> QED  BY <2>1, <2>2 DEF Counts, Of, OfLevel
<1>2. QED  BY <1>1, InvHolds, PTL

\* Whatever a component that a finding affects says of itself by now, it has claimed the
\* file that the finding is about.
THEOREM BindingsAreOnRecord == Spec => []BindingIsOnRecord
<1>1. Inv => BindingIsOnRecord
  BY DEF Inv, EdgesOK, EdgeOK, BindingIsOnRecord
<1>2. QED  BY <1>1, InvHolds, PTL

\* No edge of the graph is lost in its export, no reference in the export leads nowhere,
\* and no vulnerability is exported without a component it affects.
THEOREM ExportsAreWhole == Spec => []ExportIsWhole
<1>1. Inv => ExportIsWhole
  <2> SUFFICES ASSUME Inv PROVE ExportIsWhole
    OBVIOUS
  <2> DEFINE components == {id \in DOMAIN nodes : ~IsFinding(id)}
             found == {id \in DOMAIN nodes : IsFinding(id)}
             dependencies == [c \in components |->
               {e.to : e \in {d \in DOMAIN edges : d.from = c}} \cap components]
             vulnerabilities == [f \in found |->
               {e.from : e \in {d \in DOMAIN edges : d.relation = "affected_by" /\ d.to = f}}
                 \cap components]
  <2>1. DOMAIN nodes \subseteq Components \cup Findings
    BY GraphParts DEF Inv, GraphOK
  <2>2. components = DOMAIN nodes \cap Components /\ found = DOMAIN nodes \cap Findings
    BY <2>1, Apart DEF IsFinding
  <2>3. /\ Export.components = components /\ Export.dependencies = dependencies
        /\ Export.vulnerabilities = vulnerabilities
    BY DEF Export
  <2> HIDE DEF components, found
  <2>4. ASSUME NEW e \in DOMAIN edges
        PROVE  IF e.relation = "affected_by"
               THEN e.to \in found /\ e.from \in vulnerabilities[e.to]
               ELSE e.from \in components /\ e.to \in dependencies[e.from]
    <3>1. EdgeOK(e)  BY DEF Inv, EdgesOK
    <3> QED  BY <2>2, <3>1 DEF EdgeOK
  <2>5. ASSUME NEW f \in found
        PROVE  vulnerabilities[f] # {} /\ vulnerabilities[f] \subseteq components
    <3>1. PICK e \in DOMAIN edges : e.relation = "affected_by" /\ e.to = f
      BY <2>2 DEF Inv, EdgesOK
    <3>2. e.from \in components  BY <2>2, <3>1 DEF Inv, EdgesOK, EdgeOK
    <3> QED  BY <3>1, <3>2
  <2>6. \A c \in components : dependencies[c] \subseteq components  OBVIOUS
  <2>7. DOMAIN vulnerabilities = found  OBVIOUS
  <2> HIDE DEF dependencies, vulnerabilities
  <2> QED  BY <2>3, <2>4, <2>5, <2>6, <2>7 DEF ExportIsWhole
<1>2. QED  BY <1>1, InvHolds, PTL

-----------------------------------------------------------------------------
(***************************************************************************)
(* What a step may never do.                                               *)
(***************************************************************************)

\* An import adds findings: of a component it turns what is shown into a claim and
\* changes nothing else.
THEOREM ComponentsAreKept == Spec => ImportKeepsComponents
<1> DEFINE Kept == reported' # reported =>
             \A id \in DOMAIN nodes :
               ~IsFinding(id) =>
                 /\ nodes'[id].shown = nodes[id].shown
                 /\ nodes'[id].evidence = nodes[id].evidence
                 /\ nodes'[id].claims = EnsureFieldEvidence(nodes[id]).claims
<1>1. Inv /\ [Next]_vars => Kept
  <2> SUFFICES ASSUME Inv, [Next]_vars, reported' # reported,
                      NEW id \in DOMAIN nodes, ~IsFinding(id)
               PROVE  /\ nodes'[id].shown = nodes[id].shown
                      /\ nodes'[id].evidence = nodes[id].evidence
                      /\ nodes'[id].claims = EnsureFieldEvidence(nodes[id]).claims
    OBVIOUS
  <2>1. PICK doc \in Documents, uri \in Values, digest \in Values,
             time \in {f.time : f \in Facts} : Import(doc, uri, uri, digest, time)
    BY DEF Next, vars, Observe
  <2>2. time \in Nat  BY TimesAreNumbers
  <2>3. PICK h, T, R : Imports(h, T, R, uri, digest)  BY <2>1, <2>2, ImportParts
  <2>4. nodes' = Merge(nodes, h) /\ h \in Graphs(Findings)  BY <2>3 DEF Imports
  <2>5. id \notin DOMAIN h  BY <2>4, GraphParts DEF IsFinding
  <2>6. nodes'[id] = Upgraded(nodes[id])  BY <2>4, <2>5 DEF Merge
  <2>7. nodes[id] \in AllNodes /\ Tidy(nodes[id])  BY GraphParts DEF Inv, GraphOK
  <2> QED  BY <2>6, <2>7, UpgradedParts, UpgradedShows
<1> HIDE DEF Kept
<1>2. Spec => [][Kept]_vars  BY <1>1, InvHolds, PTL DEF Spec
<1>3. QED  BY <1>2 DEF ImportKeepsComponents, Kept

Violation(rule, id, about) == [rule |-> rule, node |-> id, about |-> about]

\* The violations, rule by rule.
InferredIn(graph, policy) ==
  {Violation("forbid-inferred", id, "") :
     id \in {i \in DOMAIN graph.nodes :
               policy.forbidInferred /\ graph.nodes[i].evidence.level = Inferred}}
WeakIn(graph, policy) ==
  {Violation("minimum-evidence", id, "") :
     id \in {i \in DOMAIN graph.nodes :
               /\ KindOf(i) \in DOMAIN policy.minimumEvidence
               /\ graph.nodes[i].evidence.level < policy.minimumEvidence[KindOf(i)]}}
DeniedIn(graph, policy) ==
  UNION {{Violation("denied-finding-level", f, l) :
            l \in FindingLevels(graph.nodes[f]) \cap policy.deniedFindingLevels} :
           f \in {id \in DOMAIN graph.nodes : IsFinding(id)}}
ConflictsIn(graph, policy) ==
  UNION {{Violation("forbid-field-conflict", id, field) :
            field \in Conflicts(graph.nodes[id])} :
           id \in {i \in DOMAIN graph.nodes : policy.forbidFieldConflicts}}
PathsIn(graph, policy) ==
  UNION {{Violation("denied-path", start, rule) : start \in Starts(rule, graph)} :
           rule \in policy.deniedPaths}

LEMMA ViolationsByRule ==
  ASSUME NEW graph, NEW policy
  PROVE  Violations(graph, policy) =
           InferredIn(graph, policy) \cup WeakIn(graph, policy)
             \cup DeniedIn(graph, policy) \cup ConflictsIn(graph, policy)
             \cup PathsIn(graph, policy)
BY DEF Violations, InferredIn, WeakIn, DeniedIn, ConflictsIn, PathsIn, Violation

\* A graph that has all nodes and edges of another, and of each node at least as much
\* strength, all claims, and a claim of what was shown.
Grows(before, after) ==
  /\ DOMAIN before.edges \subseteq DOMAIN after.edges
  /\ \A id \in DOMAIN before.nodes :
       /\ id \in DOMAIN after.nodes
       /\ \A f \in Fields :
            Candidates(before.nodes[id].claims[f]) \cup ({before.nodes[id].shown[f]} \ {0})
              \subseteq Candidates(after.nodes[id].claims[f])
       /\ before.nodes[id].evidence.level \in Int
       /\ after.nodes[id].evidence.level \in Int
       /\ after.nodes[id].evidence.level >= before.nodes[id].evidence.level

LEMMA PathRuleParts ==
  ASSUME NEW p \in Policies, NEW rule \in p.deniedPaths
  PROVE  /\ Len(rule.relations) \in Nat \ {0} /\ DOMAIN rule.relations = 1..Len(rule.relations)
         /\ rule.from.minimumEvidence \in Int /\ rule.to.minimumEvidence \in Int
         /\ \A i \in DOMAIN rule.via :
              rule.via[i].minimumEvidence \in Int /\ i \in 1..Len(rule.relations)
<1>1. /\ rule \in PathRules
      /\ Len(rule.relations) \in 1..8 /\ Len(rule.via) \in {0, Len(rule.relations) - 1}
  BY GateAssumption DEF MaxPathRelations
<1>2. /\ rule.from \in Selectors /\ rule.to \in Selectors
      /\ rule.via \in Seq(Selectors) /\ rule.relations \in Seq(Relations)
  BY <1>1 DEF PathRules
<1>3. \A s \in Selectors : s.minimumEvidence \in Int
  BY DEF Selectors, Ranks, Verified
<1>4. \A i \in DOMAIN rule.via : rule.via[i] \in Selectors /\ i \in 1..Len(rule.via)
  BY <1>2
<1>5. DOMAIN rule.relations = 1..Len(rule.relations)  BY <1>2
<1>6. ASSUME NEW i \in DOMAIN rule.via
      PROVE  rule.via[i].minimumEvidence \in Int /\ i \in 1..Len(rule.relations)
  <2>1. i \in 1..Len(rule.via) /\ rule.via[i] \in Selectors  BY <1>4
  <2>2. i \in 1..Len(rule.relations)  BY <1>1, <2>1
  <2> QED  BY <1>3, <2>1, <2>2
<1>7. Len(rule.relations) \in Nat \ {0}
  <2>1. \A n \in 1..8 : n \in Nat \ {0}  OBVIOUS
  <2> QED  BY <1>1, <2>1, Zenon
<1>8. rule.from.minimumEvidence \in Int /\ rule.to.minimumEvidence \in Int
  BY <1>2, <1>3
<1>9. QED  BY <1>5, <1>6, <1>7, <1>8

\* A denied path stays one.
LEMMA PathsStay ==
  ASSUME NEW before, NEW after, Grows(before, after),
         NEW p \in Policies, NEW rule \in p.deniedPaths
  PROVE  Starts(rule, before) \subseteq Starts(rule, after)
<1> DEFINE N == Len(rule.relations) + 1
<1> SUFFICES ASSUME NEW path \in [1..N -> DOMAIN before.nodes],
                    DeniedPath(rule, before, path)
             PROVE  path \in [1..N -> DOMAIN after.nodes] /\ DeniedPath(rule, after, path)
  BY DEF Starts
<1>2. N \in Nat \ {0} /\ DOMAIN rule.relations = 1..(N - 1)
      /\ \A i \in DOMAIN rule.via : i \in 1..(N - 1)
  BY PathRuleParts
<1>3. path \in [1..N -> DOMAIN after.nodes]  BY DEF Grows
<1>4. ASSUME NEW s, s.minimumEvidence \in Int, NEW i \in 1..N, Matches(s, before, path[i])
      PROVE  Matches(s, after, path[i])
  <2>1. path[i] \in DOMAIN before.nodes  OBVIOUS
  <2> QED  BY <1>4, <2>1 DEF Matches, Grows
<1>5. /\ rule.from.minimumEvidence \in Int /\ rule.to.minimumEvidence \in Int
      /\ \A i \in DOMAIN rule.via : rule.via[i].minimumEvidence \in Int
  BY PathRuleParts
<1>6. Matches(rule.from, after, path[1])
  BY <1>2, <1>4, <1>5 DEF DeniedPath
<1>7. Matches(rule.to, after, path[N])
  BY <1>2, <1>4, <1>5 DEF DeniedPath
<1>8. ASSUME NEW i \in DOMAIN rule.via
      PROVE  Matches(rule.via[i], after, path[i + 1])
  <2>1. i + 1 \in 1..N  BY <1>2
  <2>2. Matches(rule.via[i], before, path[i + 1])  BY DEF DeniedPath
  <2> QED  BY <1>4, <1>5, <2>1, <2>2
<1>9. ASSUME NEW i \in DOMAIN rule.relations
      PROVE  [from |-> path[i], relation |-> rule.relations[i], to |-> path[i + 1]]
               \in DOMAIN after.edges
  BY DEF DeniedPath, Grows
<1>10. \A i, j \in DOMAIN path : path[i] = path[j] => i = j  BY DEF DeniedPath
<1>11. QED  BY <1>3, <1>6, <1>7, <1>8, <1>9, <1>10 DEF DeniedPath

LEMMA ViolationsStay ==
  ASSUME NEW before, NEW after, Grows(before, after), NEW p \in Policies,
         NEW v \in Violations(before, p),
         v.rule \notin {"forbid-inferred", "minimum-evidence"}
  PROVE  v \in Violations(after, p)
<1>1. v \in DeniedIn(before, p) \cup ConflictsIn(before, p) \cup PathsIn(before, p)
  <2>0. \A rule, id, about : Violation(rule, id, about).rule = rule  BY DEF Violation
  <2>1. ASSUME v \in InferredIn(before, p)
        PROVE  v.rule = "forbid-inferred"
    <3>1. PICK id : v = Violation("forbid-inferred", id, "")  BY <2>1 DEF InferredIn
    <3> QED  BY <2>0, <3>1
  <2>2. ASSUME v \in WeakIn(before, p)
        PROVE  v.rule = "minimum-evidence"
    <3>1. PICK id : v = Violation("minimum-evidence", id, "")  BY <2>2 DEF WeakIn
    <3> QED  BY <2>0, <3>1
  <2> QED  BY <2>1, <2>2, ViolationsByRule
<1>2. CASE v \in DeniedIn(before, p)
  <2>1. PICK f \in DOMAIN before.nodes, l \in p.deniedFindingLevels :
          /\ IsFinding(f) /\ l \in FindingLevels(before.nodes[f])
          /\ v = Violation("denied-finding-level", f, l)
    BY <1>2 DEF DeniedIn
  <2>2. f \in DOMAIN after.nodes /\ l \in Candidates(after.nodes[f].claims["level"])
    BY <2>1, FieldNames DEF FindingLevels, Grows
  <2>3. l \in FindingLevels(after.nodes[f])
    BY <2>2, NoValueIsZero DEF FindingLevels, Candidates
  <2>4. v \in DeniedIn(after, p)  BY <2>1, <2>2, <2>3 DEF DeniedIn
  <2> QED  BY <2>4, ViolationsByRule
<1>3. CASE v \in ConflictsIn(before, p)
  <2>1. PICK id \in DOMAIN before.nodes, field \in Fields :
          /\ p.forbidFieldConflicts /\ field \in Conflicts(before.nodes[id])
          /\ v = Violation("forbid-field-conflict", id, field)
    BY <1>3 DEF ConflictsIn, Conflicts
  <2> DEFINE old == Candidates(before.nodes[id].claims[field])
             new == Candidates(after.nodes[id].claims[field])
  <2>2. field \in Fields /\ Cardinality(old) > 1  BY <2>1 DEF Conflicts
  <2>3. id \in DOMAIN after.nodes /\ old \subseteq new  BY <2>2 DEF Grows
  <2>4. IsFiniteSet(new)
    <3>1. new \in SUBSET Values  BY DEF Candidates
    <3> QED  BY <3>1, EvidenceAssumption, FS_Subset
  <2> HIDE DEF old, new
  <2>5. Cardinality(new) > 1
    <3>1. old \in SUBSET new  BY <2>3
    <3>2. /\ Cardinality(old) <= Cardinality(new) /\ IsFiniteSet(old)
      BY <2>4, <3>1, FS_Subset
    <3>3. Cardinality(old) \in Nat /\ Cardinality(new) \in Nat
      BY <2>4, <3>2, FS_CardinalityType
    <3> QED  BY <2>2, <3>2, <3>3
  <2>6. field \in Conflicts(after.nodes[id])  BY <2>2, <2>5 DEF Conflicts, new
  <2>7. v \in ConflictsIn(after, p)  BY <2>1, <2>3, <2>6 DEF ConflictsIn
  <2> QED  BY <2>7, ViolationsByRule
<1>4. CASE v \in PathsIn(before, p)
  <2>0. PICK rule \in p.deniedPaths :
          \E start : start \in Starts(rule, before) /\ v = Violation("denied-path", start, rule)
    BY <1>4 DEF PathsIn
  <2>1. PICK start :
          start \in Starts(rule, before) /\ v = Violation("denied-path", start, rule)
    BY <2>0
  <2>2. start \in Starts(rule, after)  BY <2>1, PathsStay
  <2>3. v \in PathsIn(after, p)  BY <2>1, <2>2 DEF PathsIn
  <2> QED  BY <2>3, ViolationsByRule
<1>5. QED  BY <1>1, <1>2, <1>3, <1>4

LEMMA StepGrows ==
  ASSUME Inv, Next
  PROVE  Grows(Graph, Graph')
<1>1. PICK h, S : /\ nodes' = Merge(nodes, h) /\ h \in Graphs(S)
                  /\ DOMAIN edges \subseteq DOMAIN edges'
  <2>1. CASE \E fact \in Facts : Observe(fact)  BY <2>1, ObserveParts
  <2>2. CASE \E doc \in Documents, uri, digest \in Values,
                time \in {f.time : f \in Facts} : Import(doc, uri, uri, digest, time)
    <3>1. PICK doc \in Documents, uri \in Values, digest \in Values,
               time \in {f.time : f \in Facts} : Import(doc, uri, uri, digest, time)
      BY <2>2
    <3>2. time \in Nat  BY TimesAreNumbers
    <3>3. PICK h, T, R : Imports(h, T, R, uri, digest)  BY <3>1, <3>2, ImportParts
    <3> QED  BY <3>3 DEF Imports
  <2> QED  BY <2>1, <2>2 DEF Next
<1>2. nodes \in [DOMAIN nodes -> AllNodes] /\ h \in [DOMAIN h -> AllNodes]
  BY <1>1, GraphParts DEF Inv, GraphOK
<1>3. nodes' \in [DOMAIN nodes' -> AllNodes]  BY <1>1, <1>2, GraphMerge
<1>4. ASSUME NEW id \in DOMAIN nodes
      PROVE  /\ id \in DOMAIN nodes'
             /\ \A f \in Fields :
                  Candidates(nodes[id].claims[f]) \cup ({nodes[id].shown[f]} \ {0})
                    \subseteq Candidates(nodes'[id].claims[f])
             /\ nodes'[id].evidence.level >= nodes[id].evidence.level
  BY <1>1, <1>2, MergeGrows
<1>5. ASSUME NEW id \in DOMAIN nodes
      PROVE  nodes[id].evidence.level \in Int /\ nodes'[id].evidence.level \in Int
  <2>1. nodes[id] \in AllNodes /\ nodes'[id] \in AllNodes  BY <1>2, <1>3, <1>4
  <2>2. nodes[id].evidence \in Summaries /\ nodes'[id].evidence \in Summaries
    BY <2>1, NodeParts
  <2> QED  BY <2>2, SummaryNumbers
<1>6. /\ Graph.nodes = nodes /\ Graph.edges = edges
      /\ (Graph').nodes = nodes' /\ (Graph').edges = edges'
  BY DEF Graph
<1>7. QED  BY <1>1, <1>4, <1>5, <1>6 DEF Grows

\* What a policy once found wrong with what is in a graph, and not with how strong its
\* evidence is, it finds wrong with every later one.
THEOREM MoreEvidenceCuresNoViolation == Spec => OnlyStrengthIsCured
<1> DEFINE Cured == \A p \in Policies :
             {v \in Violations(Graph, p) :
                v.rule \notin {"forbid-inferred", "minimum-evidence"}}
               \subseteq Violations(Graph', p)
<1>1. Inv /\ [Next]_vars => Cured
  <2> SUFFICES ASSUME Inv, [Next]_vars PROVE Cured
    OBVIOUS
  <2>1. CASE UNCHANGED vars
    <3>1. Graph' = Graph  BY <2>1 DEF Graph, vars
    <3> QED  BY <3>1
  <2>2. CASE Next
    <3>1. Grows(Graph, Graph')  BY <2>2, StepGrows
    <3> QED  BY <3>1, ViolationsStay
  <2> QED  BY <2>1, <2>2
<1> HIDE DEF Cured
<1>2. Spec => [][Cured]_vars  BY <1>1, InvHolds, PTL DEF Spec
<1>3. QED  BY <1>2 DEF OnlyStrengthIsCured, Cured

\* What a policy looks at in a graph is in what the diff compares.
LEMMA SameVerdict ==
  ASSUME NEW before, NEW after, ~HasChanges(Compare(before, after)), NEW p \in Policies
  PROVE  Violations(after, p) = Violations(before, p)
<1> DEFINE ids == DOMAIN before.nodes
<1>1. /\ DOMAIN after.nodes = ids
      /\ DOMAIN after.edges = DOMAIN before.edges
      /\ \A id \in ids : ChangedFields(before.nodes[id], after.nodes[id]) = {}
  <2> DEFINE diff == Compare(before, after)
  <2>1. DOMAIN diff = {"addedNodes", "removedNodes", "changedNodes",
                       "addedEdges", "removedEdges", "changedEdges"}
    BY DEF Compare
  <2>2. /\ diff.addedNodes = {} /\ diff.removedNodes = {} /\ diff.changedNodes = {}
        /\ diff.addedEdges = {} /\ diff.removedEdges = {}
    <3> HIDE DEF diff
    <3> QED  BY <2>1 DEF HasChanges, diff
  <2> QED  BY <2>2 DEF Compare
<1>2. ASSUME NEW id \in ids
      PROVE  /\ after.nodes[id].claims = before.nodes[id].claims
             /\ after.nodes[id].evidence.level = before.nodes[id].evidence.level
             /\ FindingLevels(after.nodes[id]) = FindingLevels(before.nodes[id])
             /\ Conflicts(after.nodes[id]) = Conflicts(before.nodes[id])
  <2>1. /\ after.nodes[id].claims = before.nodes[id].claims
        /\ after.nodes[id].evidence.level = before.nodes[id].evidence.level
        /\ after.nodes[id].shown["level"] = before.nodes[id].shown["level"]
    BY <1>1, FieldNames DEF ChangedFields
  <2> QED  BY <2>1 DEF FindingLevels, Conflicts
<1>3. InferredIn(after, p) = InferredIn(before, p)  BY <1>1, <1>2 DEF InferredIn
<1>4. WeakIn(after, p) = WeakIn(before, p)  BY <1>1, <1>2 DEF WeakIn
<1>5. DeniedIn(after, p) = DeniedIn(before, p)  BY <1>1, <1>2 DEF DeniedIn
<1>6. ConflictsIn(after, p) = ConflictsIn(before, p)  BY <1>1, <1>2 DEF ConflictsIn
<1>7. ASSUME NEW rule \in p.deniedPaths
      PROVE  Starts(rule, after) = Starts(rule, before)
  <2> DEFINE N == Len(rule.relations) + 1
  <2>1. ASSUME NEW path \in [1..N -> ids]
        PROVE  DeniedPath(rule, after, path) <=> DeniedPath(rule, before, path)
    <3>1. \A s, i : i \in 1..N =>
            (Matches(s, after, path[i]) <=> Matches(s, before, path[i]))
      BY <1>2 DEF Matches
    <3>2. /\ 1 \in 1..N /\ N \in 1..N
          /\ \A i \in DOMAIN rule.via : i + 1 \in 1..N
      BY PathRuleParts
    <3> QED  BY <1>1, <3>1, <3>2 DEF DeniedPath
  <2> QED  BY <1>1, <2>1 DEF Starts
<1>8. PathsIn(after, p) = PathsIn(before, p)  BY <1>7 DEF PathsIn
<1>9. QED  BY <1>3, <1>4, <1>5, <1>6, <1>8, ViolationsByRule

\* The verdict of every policy on an approved graph stands while the diff finds nothing.
THEOREM NoChangeNoNewVerdict == Spec => NoChangeSameVerdict
<1> DEFINE Same == ~HasChanges(Compare(Graph, Graph')) =>
             \A p \in Policies : Violations(Graph', p) = Violations(Graph, p)
<1>1. Same  BY SameVerdict
<1> HIDE DEF Same
<1>2. Spec => [][Same]_vars  BY <1>1, PTL DEF Spec
<1>3. QED  BY <1>2 DEF NoChangeSameVerdict, Same
=============================================================================
