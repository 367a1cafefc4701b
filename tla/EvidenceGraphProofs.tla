------------------------ MODULE EvidenceGraphProofs ------------------------
(***************************************************************************)
(* Theorems about evidence summaries, claims, ceilings and identifiers,    *)
(* and about what merging and restarting make of a node of the evidence    *)
(* graph: its type and ceilings, the value it shows and what stands behind *)
(* it, that merging takes nothing back, and that a graph is a function of  *)
(* its evidence; for every set of sources, values, observations and        *)
(* policies.                                                               *)
(***************************************************************************)
EXTENDS EvidenceGraph, FiniteSetTheorems, WellFoundedInduction, TLAPS

-----------------------------------------------------------------------------
(***************************************************************************)
(* Merging summaries.                                                      *)
(***************************************************************************)

\* A summary has the parts the type says.
LEMMA SummaryParts ==
  ASSUME NEW s \in Summaries
  PROVE  /\ s.level \in Ranks /\ s.count \in Nat /\ s.sources \in SUBSET Sources
         /\ s.traces \in SUBSET Nat /\ s.first \in Nat /\ s.last \in Nat
BY DEF Summaries

LEMMA NoSummaryType == NoSummary \in Summaries
BY DEF NoSummary, Summaries, Ranks, Verified

LEMMA MergeType ==
  ASSUME NEW a \in Summaries, NEW b \in Summaries
  PROVE  MergeEvidenceSummary(a, b) \in Summaries
<1>1. StrongerLevel(a.level, b.level) \in Ranks
  BY SummaryParts DEF StrongerLevel
<1>2. a.count + b.count \in Nat  BY SummaryParts
<1>3. /\ a.sources \cup b.sources \in SUBSET Sources
      /\ a.traces \cup b.traces \in SUBSET Nat
  BY SummaryParts
<1>4. Earlier(a.first, b.first) \in Nat  BY SummaryParts DEF Earlier
<1>5. Later(a.last, b.last) \in Nat  BY SummaryParts DEF Later
<1>6. QED
  BY <1>1, <1>2, <1>3, <1>4, <1>5 DEF MergeEvidenceSummary, Summaries

LEMMA SummaryNumbers ==
  ASSUME NEW s \in Summaries
  PROVE  s.level \in 0..4 /\ s.count \in Nat /\ s.first \in Nat /\ s.last \in Nat
BY SummaryParts DEF Ranks, Verified

LEMMA NothingSaid ==
  /\ NoSummary.level = 0 /\ NoSummary.count = 0 /\ NoSummary.sources = {}
  /\ NoSummary.first = 0 /\ NoSummary.last = 0
BY DEF NoSummary

LEMMA MergeParts ==
  ASSUME NEW a, NEW b
  PROVE  LET c == MergeEvidenceSummary(a, b) IN
           /\ c.level = StrongerLevel(a.level, b.level) /\ c.count = a.count + b.count
           /\ c.sources = a.sources \cup b.sources
           /\ c.first = Earlier(a.first, b.first) /\ c.last = Later(a.last, b.last)
BY DEF MergeEvidenceSummary

\* MergeEvidenceSummary is commutative, as its comment in model.go says.
THEOREM MergeCommutes ==
  ASSUME NEW a \in Summaries, NEW b \in Summaries
  PROVE  MergeEvidenceSummary(a, b) = MergeEvidenceSummary(b, a)
<1>1. StrongerLevel(a.level, b.level) = StrongerLevel(b.level, a.level)
  BY SummaryParts DEF StrongerLevel, Ranks, Verified
<1>2. a.count + b.count = b.count + a.count  BY SummaryParts
<1>3. /\ a.sources \cup b.sources = b.sources \cup a.sources
      /\ a.traces \cup b.traces = b.traces \cup a.traces
  OBVIOUS
<1>4. Earlier(a.first, b.first) = Earlier(b.first, a.first)
  BY SummaryParts DEF Earlier
<1>5. Later(a.last, b.last) = Later(b.last, a.last)
  BY SummaryParts DEF Later
<1>6. QED
  BY <1>1, <1>2, <1>3, <1>4, <1>5 DEF MergeEvidenceSummary

\* MergeEvidenceSummary is associative: how requests group observations does not
\* matter.
THEOREM MergeAssociates ==
  ASSUME NEW a \in Summaries, NEW b \in Summaries, NEW c \in Summaries
  PROVE  MergeEvidenceSummary(MergeEvidenceSummary(a, b), c)
           = MergeEvidenceSummary(a, MergeEvidenceSummary(b, c))
<1>1. StrongerLevel(StrongerLevel(a.level, b.level), c.level)
        = StrongerLevel(a.level, StrongerLevel(b.level, c.level))
  BY SummaryParts DEF StrongerLevel, Ranks, Verified
<1>2. (a.count + b.count) + c.count = a.count + (b.count + c.count)
  BY SummaryParts
<1>3. /\ (a.sources \cup b.sources) \cup c.sources
           = a.sources \cup (b.sources \cup c.sources)
      /\ (a.traces \cup b.traces) \cup c.traces
           = a.traces \cup (b.traces \cup c.traces)
  OBVIOUS
<1>4. Earlier(Earlier(a.first, b.first), c.first)
        = Earlier(a.first, Earlier(b.first, c.first))
  BY SummaryParts DEF Earlier
<1>5. Later(Later(a.last, b.last), c.last) = Later(a.last, Later(b.last, c.last))
  BY SummaryParts DEF Later
<1>6. QED
  BY <1>1, <1>2, <1>3, <1>4, <1>5 DEF MergeEvidenceSummary

\* The zero summary is what a claim starts from.
LEMMA MergeIdentity ==
  ASSUME NEW a \in Summaries
  PROVE  MergeEvidenceSummary(NoSummary, a) = a
<1>1. StrongerLevel(0, a.level) = a.level
  BY SummaryParts DEF StrongerLevel, Ranks, Verified
<1>2. Earlier(0, a.first) = a.first /\ Later(0, a.last) = a.last
  BY SummaryParts DEF Earlier, Later
<1>3. 0 + a.count = a.count  BY SummaryParts
<1>4. a = [level |-> a.level, count |-> a.count, sources |-> a.sources,
           traces |-> a.traces, first |-> a.first, last |-> a.last]
  BY DEF Summaries
<1>5. QED  BY <1>1, <1>2, <1>3, <1>4 DEF MergeEvidenceSummary, NoSummary

-----------------------------------------------------------------------------
(***************************************************************************)
(* Selecting a value.                                                      *)
(***************************************************************************)

\* Of two values one is preferred, never both, and preference is transitive: the
\* order in which a scan meets the candidates does not matter.
THEOREM PreferenceIsTotalOrder ==
  ASSUME NEW claims \in AllClaims,
         NEW u \in Values, NEW v \in Values, NEW w \in Values
  PROVE  /\ u # v => \/ FieldValuePreferred(claims, u, v)
                     \/ FieldValuePreferred(claims, v, u)
         /\ ~ (/\ FieldValuePreferred(claims, u, v)
               /\ FieldValuePreferred(claims, v, u))
         /\ FieldValuePreferred(claims, u, v) /\ FieldValuePreferred(claims, v, w)
              => FieldValuePreferred(claims, u, w)
<1>1. \A x \in Values : /\ claims[x].level \in Int /\ claims[x].last \in Int
                        /\ x \in Int
  BY SummaryParts, EvidenceAssumption DEF AllClaims, Ranks, Verified
<1>2. QED  BY <1>1 DEF FieldValuePreferred

LEMMA LeastElement ==
  ASSUME NEW T, T \subseteq Nat, T # {}
  PROVE  \E m \in T : \A n \in T : m <= n
<1> DEFINE less == {p \in Nat \X Nat : p[1] < p[2]}
<1>1. IsWellFoundedOn(less, Nat)
  BY NatLessThanWellFounded DEF OpToRel
<1>2. PICK m \in T : \A n \in T : <<n, m>> \notin less
  <2> HIDE DEF less
  <2> QED  BY <1>1, WFMin
<1>3. \A n \in T : ~(n < m)  BY <1>2
<1>4. QED  BY <1>3

\* A finite set of values has a preferred one.
LEMMA PreferredExists ==
  ASSUME NEW claims \in AllClaims, NEW S \in SUBSET Values, S # {}
  PROVE  \E v \in S : \A w \in S \ {v} : FieldValuePreferred(claims, v, w)
<1> DEFINE Best(T, v) == \A w \in T \ {v} : FieldValuePreferred(claims, v, w)
           Bad == {n \in Nat : \E T \in SUBSET S :
                     /\ T # {} /\ Cardinality(T) = n
                     /\ \A v \in T : ~Best(T, v)}
<1>1. ASSUME NEW T \in SUBSET S
      PROVE  IsFiniteSet(T) /\ Cardinality(T) \in Nat
  <2>1. IsFiniteSet(Values) /\ T \in SUBSET Values  BY EvidenceAssumption
  <2>2. IsFiniteSet(T)  BY <2>1, FS_Subset
  <2>3. Cardinality(T) \in Nat  BY <2>2, FS_CardinalityType
  <2> QED  BY <2>2, <2>3
<1>2. SUFFICES ASSUME \A v \in S : ~Best(S, v) PROVE FALSE
  OBVIOUS
<1>3. Cardinality(S) \in Bad  BY <1>1, <1>2
<1>4. PICK m \in Bad : \A n \in Bad : m <= n
  <2> HIDE DEF Bad
  <2>1. Bad \subseteq Nat  BY DEF Bad
  <2> QED  BY <1>3, <2>1, LeastElement
<1>5. PICK T \in SUBSET S : /\ T # {} /\ Cardinality(T) = m
                            /\ \A v \in T : ~Best(T, v)
  BY <1>4
<1>6. PICK x \in T : TRUE  BY <1>5
<1>7. Cardinality(T \ {x}) = m - 1 /\ m - 1 \in Nat
  <2>1. IsFiniteSet(T) /\ IsFiniteSet(T \ {x})  BY <1>1
  <2>2. Cardinality(T \ {x}) = Cardinality(T) - 1
    BY <2>1, FS_RemoveElement
  <2>3. Cardinality(T \ {x}) \in Nat  BY <1>1
  <2> QED  BY <1>5, <2>2, <2>3
<1>8. m - 1 \notin Bad  BY <1>4, <1>7
<1>9. T \ {x} # {}  BY <1>5, <1>6
<1>10. PICK y \in T \ {x} : Best(T \ {x}, y)
  BY <1>7, <1>8, <1>9
<1>11. x \in Values /\ y \in Values /\ x # y  OBVIOUS
<1>12. CASE FieldValuePreferred(claims, y, x)
  <2>1. Best(T, y)  BY <1>10, <1>12
  <2> QED  BY <2>1, <1>5
<1>13. CASE FieldValuePreferred(claims, x, y)
  <2>1. ASSUME NEW w \in T \ {x}, w # y
        PROVE  FieldValuePreferred(claims, x, w)
    <3>1. FieldValuePreferred(claims, y, w)  BY <1>10, <2>1
    <3>2. w \in Values  OBVIOUS
    <3> QED  BY <1>11, <1>13, <3>1, <3>2, PreferenceIsTotalOrder
  <2>2. Best(T, x)  BY <2>1, <1>13
  <2> QED  BY <2>2, <1>5, <1>6
<1>14. QED  BY <1>11, <1>12, <1>13, PreferenceIsTotalOrder

\* The selected value is a candidate, preferred to every other.
LEMMA SelectedIsPreferred ==
  ASSUME NEW claims \in AllClaims, Candidates(claims) # {}
  PROVE  /\ Selected(claims) \in Candidates(claims)
         /\ Selected(claims) \in Values
         /\ \A w \in Candidates(claims) \ {Selected(claims)} :
              FieldValuePreferred(claims, Selected(claims), w)
<1>1. Candidates(claims) \in SUBSET Values  BY DEF Candidates
<1>2. \E v \in Candidates(claims) :
        \A w \in Candidates(claims) \ {v} : FieldValuePreferred(claims, v, w)
  BY <1>1, PreferredExists
<1>3. QED  BY <1>1, <1>2 DEF Selected

-----------------------------------------------------------------------------
(***************************************************************************)
(* Ceilings.                                                               *)
(***************************************************************************)

LEMMA MaximumType ==
  ASSUME NEW p \in TrustPolicies, NEW s
  PROVE  MaximumFor(p, s) \in Inferred..Verified
BY DEF TrustPolicies, MaximumFor, Inferred, Observed, Verified

\* The ceiling of some sources is the maximum of one of them and not below that
\* of any.
LEMMA CeilingIsMaximum ==
  ASSUME NEW p \in TrustPolicies, NEW S, S # {}
  PROVE  /\ \E s \in S : Ceiling(p, S) = MaximumFor(p, s)
         /\ \A s \in S : MaximumFor(p, s) <= Ceiling(p, S)
<1> DEFINE max(s) == MaximumFor(p, s)
           maxima == {max(s) : s \in S}
<1>1. \A s \in S : max(s) \in 1..4
  BY MaximumType DEF Inferred, Verified
<1> HIDE DEF max
<1>2. \E m \in maxima : \A s \in S : max(s) <= m
  <2>1. CASE \E s \in S : max(s) = 4  BY <2>1, <1>1
  <2>2. CASE (\A s \in S : max(s) # 4) /\ \E s \in S : max(s) = 3
    BY <2>2, <1>1
  <2>3. CASE (\A s \in S : max(s) \notin {3, 4}) /\ \E s \in S : max(s) = 2
    BY <2>3, <1>1
  <2>4. CASE \A s \in S : max(s) \notin {2, 3, 4}
    <3>1. \A s \in S : max(s) = 1  BY <2>4, <1>1
    <3> QED  BY <3>1
  <2>5. QED  BY <2>1, <2>2, <2>3, <2>4
<1>3. Ceiling(p, S) = CHOOSE m \in maxima : \A s \in S : max(s) <= m
  BY DEF Ceiling, max
<1>4. Ceiling(p, S) \in maxima /\ \A s \in S : max(s) <= Ceiling(p, S)
  <2> HIDE DEF maxima
  <2> QED  BY <1>2, <1>3
<1>5. QED  BY <1>4 DEF max

LEMMA CeilingType ==
  ASSUME NEW p \in TrustPolicies, NEW S
  PROVE  Ceiling(p, S) \in Inferred..Verified
<1>1. CASE S = {}
  BY <1>1 DEF Ceiling, Inferred, Observed, Verified
<1>2. CASE S # {}  BY <1>2, CeilingIsMaximum, MaximumType
<1>3. QED  BY <1>1, <1>2

\* More sources never have a lower ceiling.
LEMMA CeilingGrows ==
  ASSUME NEW p \in TrustPolicies, NEW S, NEW T, S # {}, S \subseteq T
  PROVE  Ceiling(p, S) <= Ceiling(p, T)
<1>1. PICK s \in S : Ceiling(p, S) = MaximumFor(p, s)  BY CeilingIsMaximum
<1>2. T # {} /\ s \in T  BY <1>1
<1>3. MaximumFor(p, s) <= Ceiling(p, T)  BY <1>2, CeilingIsMaximum
<1>4. QED  BY <1>1, <1>3

\* A summary within the ceiling of its sources, or one without sources that says
\* no more than inferred: what every step keeps of every summary.
Sound(p, s) ==
  /\ s.level <= Ceiling(p, s.sources)
  /\ s.sources = {} => s.level <= Inferred

LEMMA NoSummaryIsSound ==
  ASSUME NEW p \in TrustPolicies
  PROVE  Sound(p, NoSummary)
<1>1. Ceiling(p, {}) \in Inferred..Verified  BY CeilingType
<1>2. NoSummary.level = 0 /\ NoSummary.sources = {}  BY DEF NoSummary
<1>3. QED  BY <1>1, <1>2 DEF Sound, Inferred, Verified

\* Merging sound summaries gives a sound one: its sources are those of both, and
\* its level is one of theirs.
LEMMA MergeIsSound ==
  ASSUME NEW p \in TrustPolicies, NEW a \in Summaries, NEW b \in Summaries,
         Sound(p, a), Sound(p, b)
  PROVE  Sound(p, MergeEvidenceSummary(a, b))
<1> DEFINE c == MergeEvidenceSummary(a, b)
<1>1. /\ c.sources = a.sources \cup b.sources
      /\ c.level = StrongerLevel(a.level, b.level)
  BY DEF MergeEvidenceSummary
<1>2. /\ a.level \in Int /\ b.level \in Int
      /\ a.level <= Ceiling(p, a.sources) /\ b.level <= Ceiling(p, b.sources)
      /\ a.sources = {} => a.level <= 1
      /\ b.sources = {} => b.level <= 1
  BY SummaryParts DEF Sound, Ranks, Verified, Inferred
<1>3. c.level \in {a.level, b.level}  BY <1>1 DEF StrongerLevel
<1>4. /\ Ceiling(p, a.sources) \in 1..4
      /\ Ceiling(p, b.sources) \in 1..4
      /\ Ceiling(p, c.sources) \in 1..4
  BY CeilingType DEF Inferred, Verified
<1>5. a.level <= Ceiling(p, c.sources)
  <2>1. CASE a.sources = {}  BY <2>1, <1>2, <1>4
  <2>2. CASE a.sources # {}
    <3>1. Ceiling(p, a.sources) <= Ceiling(p, c.sources)
      BY <2>2, <1>1, CeilingGrows
    <3> QED  BY <3>1, <1>2, <1>4
  <2> QED  BY <2>1, <2>2
<1>6. b.level <= Ceiling(p, c.sources)
  <2>1. CASE b.sources = {}  BY <2>1, <1>2, <1>4
  <2>2. CASE b.sources # {}
    <3>1. Ceiling(p, b.sources) <= Ceiling(p, c.sources)
      BY <2>2, <1>1, CeilingGrows
    <3> QED  BY <3>1, <1>2, <1>4
  <2> QED  BY <2>1, <2>2
<1>7. c.sources = {} => c.level <= 1
  BY <1>1, <1>2, <1>3
<1>8. QED  BY <1>3, <1>5, <1>6, <1>7 DEF Sound, Inferred

\* A change of nothing but count, traces and times keeps a summary sound.
LEMMA SoundByParts ==
  ASSUME NEW p, NEW a, NEW b, Sound(p, a),
         b.level = a.level, b.sources = a.sources
  PROVE  Sound(p, b)
BY DEF Sound

\* CapSummary lowers the level to the ceiling and changes nothing else.
LEMMA CapParts ==
  ASSUME NEW p \in TrustPolicies, NEW s \in Summaries
  PROVE  /\ CapSummary(p, s) \in Summaries
         /\ CapSummary(p, s).level <= Ceiling(p, s.sources)
         /\ CapSummary(p, s).level <= s.level
         /\ CapSummary(p, s).level = s.level
              \/ CapSummary(p, s).level = Ceiling(p, s.sources)
         /\ CapSummary(p, s).sources = s.sources
         /\ CapSummary(p, s).count = s.count
         /\ CapSummary(p, s).traces = s.traces
         /\ CapSummary(p, s).first = s.first
         /\ CapSummary(p, s).last = s.last
<1>1. Ceiling(p, s.sources) \in 1..4
  BY CeilingType DEF Inferred, Verified
<1>2. s.level \in 0..4  BY SummaryParts DEF Ranks, Verified
<1>3. CASE s.level <= Ceiling(p, s.sources)
  BY <1>2, <1>3 DEF CapSummary
<1>4. CASE ~ (s.level <= Ceiling(p, s.sources))
  <2>1. CapSummary(p, s) = [s EXCEPT !.level = Ceiling(p, s.sources)]
    BY <1>4 DEF CapSummary
  <2>2. Ceiling(p, s.sources) <= s.level  BY <1>1, <1>2, <1>4
  <2>3. Ceiling(p, s.sources) \in Ranks
    BY <1>1 DEF Ranks, Verified
  <2> HIDE DEF CapSummary
  <2> QED  BY <2>1, <2>2, <2>3, <1>1 DEF Summaries
<1>5. QED  BY <1>3, <1>4

LEMMA CapIsSound ==
  ASSUME NEW p \in TrustPolicies, NEW s \in Summaries,
         s.sources = {} => s.level <= Inferred
  PROVE  Sound(p, CapSummary(p, s))
<1>1. s.level \in 0..4 /\ CapSummary(p, s).level \in 0..4
  BY CapParts, SummaryParts DEF Ranks, Verified
<1>2. QED  BY <1>1, CapParts DEF Sound, Inferred

-----------------------------------------------------------------------------
(***************************************************************************)
(* Folds over a finite set, as the community modules define them: f of a   *)
(* set is f of the set without a chosen element, combined with that one.   *)
(***************************************************************************)

\* What holds of a set when it holds of the set without any one element, holds of
\* every subset of a finite set.
LEMMA SubsetInduction ==
  ASSUME NEW D, IsFiniteSet(D), NEW Good,
         \A s \in SUBSET D : (\A x \in s : s \ {x} \in Good) => s \in Good
  PROVE  SUBSET D \subseteq Good
<1> DEFINE Bad == {n \in Nat : \E s \in SUBSET D : s \notin Good /\ Cardinality(s) = n}
<1>1. SUFFICES ASSUME NEW s \in SUBSET D, s \notin Good PROVE FALSE
  OBVIOUS
<1>2. \A r \in SUBSET D : IsFiniteSet(r) /\ Cardinality(r) \in Nat
  BY FS_Subset, FS_CardinalityType
<1>3. Cardinality(s) \in Bad  BY <1>1, <1>2
<1>4. PICK m \in Bad : \A n \in Bad : m <= n
  <2>1. Bad \subseteq Nat /\ Bad # {}  BY <1>3
  <2> HIDE DEF Bad
  <2> QED  BY <2>1, LeastElement
<1>5. PICK r \in SUBSET D : r \notin Good /\ Cardinality(r) = m  BY <1>4
<1>6. ASSUME NEW x \in r
      PROVE  r \ {x} \in Good
  <2>1. Cardinality(r \ {x}) = m - 1  BY <1>2, <1>5, FS_RemoveElement
  <2>2. r \ {x} \in SUBSET D /\ m - 1 \in Nat /\ m - 1 < m
    BY <1>2, <2>1
  <2>3. m - 1 \notin Bad  BY <1>4, <2>2
  <2> QED  BY <2>1, <2>2, <2>3
<1>7. QED  BY <1>5, <1>6

\* The values of a function on a finite set are finitely many.
LEMMA ImageIsFinite ==
  ASSUME NEW S, IsFiniteSet(S), NEW h
  PROVE  IsFiniteSet({h[x] : x \in S})
<1> DEFINE g == [x \in S |-> h[x]]
           T == {h[x] : x \in S}
<1>1. g \in Surjection(S, T)  BY DEF Surjection
<1> HIDE DEF g, T
<1>2. IsFiniteSet(T)  BY <1>1, FS_Surjection
<1>3. QED  BY <1>2 DEF T

\* One step of a fold over a set.
FoldStep(f, base, step, s) ==
  IF s = {} THEN base
  ELSE step[CHOOSE x \in s : TRUE][f[s \ {CHOOSE x \in s : TRUE}]]

\* A function that folds the subsets of D.
FoldsOver(f, D, V, base, step) ==
  /\ f \in [SUBSET D -> V]
  /\ \A s \in SUBSET D : f[s] = FoldStep(f, base, step, s)

\* There is one for every finite set.
LEMMA FoldExists ==
  ASSUME NEW D, IsFiniteSet(D), NEW V, NEW base \in V, NEW step \in [D -> [V -> V]]
  PROVE  \E f : FoldsOver(f, D, V, base, step)
<1> DEFINE Small(n) == {s \in SUBSET D : Cardinality(s) <= n}
           Folds(f, n) == /\ f \in [Small(n) -> V]
                          /\ \A s \in Small(n) : f[s] = FoldStep(f, base, step, s)
           Bad == {n \in Nat : \A f : ~Folds(f, n)}
           one(s) == CHOOSE x \in s : TRUE
<1>1. \A s \in SUBSET D : IsFiniteSet(s) /\ Cardinality(s) \in Nat
  BY FS_Subset, FS_CardinalityType
<1>2. 0 \notin Bad
  <2> DEFINE f == [s \in Small(0) |-> base]
  <2>1. \A s \in Small(0) : s = {}  BY <1>1, FS_EmptySet
  <2>2. Folds(f, 0)  BY <2>1 DEF FoldStep
  <2> QED  BY <2>2
<1>3. ASSUME NEW n \in Nat, n \notin Bad
      PROVE  n + 1 \notin Bad
  <2>1. PICK g : Folds(g, n)  BY <1>3
  <2> DEFINE f == [s \in Small(n + 1) |-> FoldStep(g, base, step, s)]
  <2>2. ASSUME NEW s \in Small(n + 1), s # {}
        PROVE  one(s) \in s /\ one(s) \in D /\ s \ {one(s)} \in Small(n)
    <3>1. one(s) \in s  BY <2>2
    <3>2. Cardinality(s \ {one(s)}) = Cardinality(s) - 1
      BY <1>1, <3>1, FS_RemoveElement
    <3>3. Cardinality(s) <= n + 1 /\ Cardinality(s) \in Nat  BY <1>1
    <3> HIDE DEF one
    <3> QED  BY <3>1, <3>2, <3>3
  <2>3. \A s \in Small(n) : s \in Small(n + 1)  BY <1>1
  <2>4. \A s \in Small(n) : f[s] = g[s]  BY <2>1, <2>3
  <2>5. ASSUME NEW s \in Small(n + 1)
        PROVE  FoldStep(g, base, step, s) \in V
    <3>1. CASE s = {}  BY <3>1 DEF FoldStep
    <3>2. CASE s # {}
      <4>1. g[s \ {one(s)}] \in V  BY <2>1, <2>2, <3>2
      <4>2. step[one(s)][g[s \ {one(s)}]] \in V  BY <2>2, <3>2, <4>1
      <4> QED  BY <3>2, <4>2 DEF FoldStep
    <3> QED  BY <3>1, <3>2
  <2>6. ASSUME NEW s \in Small(n + 1)
        PROVE  f[s] = FoldStep(f, base, step, s)
    <3>1. f[s] = FoldStep(g, base, step, s)  OBVIOUS
    <3>2. CASE s = {}  BY <3>1, <3>2 DEF FoldStep
    <3>3. CASE s # {}
      <4>1. f[s \ {one(s)}] = g[s \ {one(s)}]  BY <2>2, <2>4, <3>3
      <4> HIDE DEF f
      <4> QED  BY <3>1, <3>3, <4>1 DEF FoldStep
    <3> QED  BY <3>2, <3>3
  <2>7. f \in [Small(n + 1) -> V]  BY <2>5
  <2>8. Folds(f, n + 1)
    <3> HIDE DEF f, Small
    <3> QED  BY <2>6, <2>7
  <2> QED  BY <2>8
<1>4. Bad = {}
  <2>1. SUFFICES ASSUME Bad # {} PROVE FALSE
    OBVIOUS
  <2>2. PICK m \in Bad : \A n \in Bad : m <= n
    <3>1. Bad \subseteq Nat  OBVIOUS
    <3> HIDE DEF Bad
    <3> QED  BY <2>1, <3>1, LeastElement
  <2>3. m \in Nat /\ m # 0  BY <1>2, <2>2
  <2> HIDE DEF Bad
  <2>4. m - 1 \in Nat /\ m - 1 \notin Bad /\ (m - 1) + 1 = m  BY <2>2, <2>3
  <2> QED  BY <1>3, <2>2, <2>4
<1>5. Small(Cardinality(D)) = SUBSET D  BY FS_Subset, <1>1
<1>6. Cardinality(D) \in Nat  BY <1>1
<1>7. PICK f : Folds(f, Cardinality(D))  BY <1>4, <1>6
<1>8. f \in [SUBSET D -> V] /\ \A s \in SUBSET D : f[s] = FoldStep(f, base, step, s)
  <2> HIDE DEF Small
  <2> QED  BY <1>5, <1>7
<1>9. QED  BY <1>8 DEF FoldsOver
-----------------------------------------------------------------------------
(***************************************************************************)
(* Sums over a finite set: SumFunctionOnSet, which is such a fold.         *)
(***************************************************************************)

\* The sums of f over the subsets of S.
PartialSums(f, S) ==
  CHOOSE g : g = [s \in SUBSET S |->
    IF s = {} THEN 0
    ELSE f[CHOOSE x \in s : TRUE] + g[s \ {CHOOSE x \in s : TRUE}]]

LEMMA SumIsPartial ==
  ASSUME NEW f, NEW S
  PROVE  SumFunctionOnSet(f, S) = PartialSums(f, S)[S]
BY DEF SumFunctionOnSet, FoldFunctionOnSet, MapThenFoldSet, PartialSums

\* Each sum is that of a smaller set and the value at a chosen element.
AddsUp(f, S) ==
  LET g == PartialSums(f, S) IN
    /\ g \in [SUBSET S -> Nat]
    /\ \A s \in SUBSET S :
         g[s] = IF s = {} THEN 0
                ELSE f[CHOOSE x \in s : TRUE] + g[s \ {CHOOSE x \in s : TRUE}]

LEMMA SumsAddUp ==
  ASSUME NEW S, IsFiniteSet(S), NEW f, \A x \in S : f[x] \in Nat
  PROVE  AddsUp(f, S)
<1> DEFINE step == [x \in S |-> [n \in Nat |-> f[x] + n]]
           one(s) == CHOOSE x \in s : TRUE
           h == PartialSums(f, S)
<1>1. \A x \in S, n \in Nat : step[x][n] = f[x] + n /\ f[x] + n \in Nat
  OBVIOUS
<1>2. step \in [S -> [Nat -> Nat]]  BY <1>1
<1> HIDE DEF step
<1>3. PICK g : FoldsOver(g, S, Nat, 0, step)  BY <1>2, FoldExists
<1>4. /\ g \in [SUBSET S -> Nat]
      /\ \A s \in SUBSET S : g[s] = FoldStep(g, 0, step, s)
  BY <1>3 DEF FoldsOver
<1>5. ASSUME NEW s \in SUBSET S
      PROVE  g[s] = IF s = {} THEN 0 ELSE f[one(s)] + g[s \ {one(s)}]
  <2>1. g[s] = FoldStep(g, 0, step, s)  BY <1>4
  <2>2. CASE s = {}  BY <2>1, <2>2 DEF FoldStep
  <2>3. CASE s # {}
    <3>1. one(s) \in S /\ g[s \ {one(s)}] \in Nat  BY <1>4, <2>3
    <3>2. g[s] = step[one(s)][g[s \ {one(s)}]]  BY <2>1, <2>3 DEF FoldStep
    <3> HIDE DEF one
    <3> QED  BY <1>1, <2>3, <3>1, <3>2
  <2> QED  BY <2>2, <2>3
<1>6. g = [s \in SUBSET S |-> IF s = {} THEN 0 ELSE f[one(s)] + g[s \ {one(s)}]]
  <2>1. g = [s \in SUBSET S |-> g[s]]  BY <1>4
  <2> HIDE DEF one
  <2> QED  BY <1>5, <2>1
<1>7. h = [s \in SUBSET S |-> IF s = {} THEN 0 ELSE f[one(s)] + h[s \ {one(s)}]]
  BY <1>6 DEF PartialSums
<1> HIDE DEF h, one
<1>8. ASSUME NEW s \in SUBSET S
      PROVE  h[s] = IF s = {} THEN 0 ELSE f[one(s)] + h[s \ {one(s)}]
  BY <1>7
<1> DEFINE Same == {s \in SUBSET S : h[s] = g[s]}
<1>9. ASSUME NEW s \in SUBSET S, \A x \in s : s \ {x} \in Same
      PROVE  s \in Same
  <2>1. CASE s = {}  BY <1>5, <1>8, <2>1
  <2>2. CASE s # {}
    <3>1. one(s) \in s  BY <2>2 DEF one
    <3>2. h[s \ {one(s)}] = g[s \ {one(s)}]  BY <1>9, <3>1
    <3> QED  BY <1>5, <1>8, <2>2, <3>2
  <2> QED  BY <2>1, <2>2
<1>10. SUBSET S \subseteq Same
  <2> HIDE DEF Same
  <2> QED  BY <1>9, SubsetInduction
<1>11. h \in [SUBSET S -> Nat]
  <2>1. \A s \in SUBSET S : h[s] \in Nat  BY <1>4, <1>10
  <2>2. h = [s \in SUBSET S |-> h[s]]  BY <1>7
  <2> QED  BY <2>1, <2>2
<1>12. QED  BY <1>8, <1>11 DEF AddsUp, h, one

\* A sum over a subset is the partial sum.
LEMMA SumOfPart ==
  ASSUME NEW S, IsFiniteSet(S), NEW f, \A x \in S : f[x] \in Nat, NEW s \in SUBSET S
  PROVE  SumFunctionOnSet(f, s) = PartialSums(f, S)[s]
<1> DEFINE one(t) == CHOOSE x \in t : TRUE
           g == PartialSums(f, S)
           h == PartialSums(f, s)
           Same == {t \in SUBSET s : h[t] = g[t]}
<1>1. IsFiniteSet(s)  BY FS_Subset
<1>2. AddsUp(f, S) /\ AddsUp(f, s)  BY <1>1, SumsAddUp
<1>3. \A t \in SUBSET s :
        /\ g[t] = IF t = {} THEN 0 ELSE f[one(t)] + g[t \ {one(t)}]
        /\ h[t] = IF t = {} THEN 0 ELSE f[one(t)] + h[t \ {one(t)}]
  BY <1>2 DEF AddsUp
<1> HIDE DEF g, h
<1>4. ASSUME NEW t \in SUBSET s, \A x \in t : t \ {x} \in Same
      PROVE  t \in Same
  <2>1. CASE t = {}  BY <1>3, <2>1
  <2>2. CASE t # {}
    <3>1. one(t) \in t  BY <2>2
    <3> HIDE DEF one
    <3>2. h[t \ {one(t)}] = g[t \ {one(t)}]  BY <1>4, <3>1
    <3> QED  BY <1>3, <2>2, <3>2
  <2> QED  BY <2>1, <2>2
<1>5. SUBSET s \subseteq Same
  <2> HIDE DEF Same
  <2> QED  BY <1>1, <1>4, SubsetInduction
<1>6. h[s] = g[s]  BY <1>5
<1>7. QED  BY <1>6, SumIsPartial DEF g, h

\* Any element may be taken out first.
LEMMA SumTakesOut ==
  ASSUME NEW S, IsFiniteSet(S), NEW f, \A x \in S : f[x] \in Nat
  PROVE  /\ SumFunctionOnSet(f, S) \in Nat
         /\ SumFunctionOnSet(f, {}) = 0
         /\ \A x \in S : SumFunctionOnSet(f, S) = f[x] + SumFunctionOnSet(f, S \ {x})
<1> DEFINE one(t) == CHOOSE x \in t : TRUE
           g == PartialSums(f, S)
           Free == {t \in SUBSET S : \A x \in t : g[t] = f[x] + g[t \ {x}]}
<1>1. AddsUp(f, S)  BY SumsAddUp
<1>2. /\ g \in [SUBSET S -> Nat]
      /\ \A t \in SUBSET S :
           g[t] = IF t = {} THEN 0 ELSE f[one(t)] + g[t \ {one(t)}]
  BY <1>1 DEF AddsUp
<1>3. \A t \in SUBSET S : SumFunctionOnSet(f, t) = g[t]  BY SumOfPart
<1> HIDE DEF g
<1>4. ASSUME NEW t \in SUBSET S, \A x \in t : t \ {x} \in Free
      PROVE  t \in Free
  <2> SUFFICES ASSUME NEW x \in t PROVE g[t] = f[x] + g[t \ {x}]
    OBVIOUS
  <2> DEFINE c == one(t)
  <2>1. c \in t /\ g[t] = f[c] + g[t \ {c}]  BY <1>2
  <2> HIDE DEF c
  <2>2. CASE c = x  BY <2>1, <2>2
  <2>3. CASE c # x
    <3>1. g[t \ {c}] = f[x] + g[(t \ {c}) \ {x}]  BY <1>4, <2>1, <2>3
    <3>2. g[t \ {x}] = f[c] + g[(t \ {x}) \ {c}]  BY <1>4, <2>1, <2>3
    <3>3. (t \ {c}) \ {x} = (t \ {x}) \ {c}  OBVIOUS
    <3>4. f[x] \in Nat /\ f[c] \in Nat /\ g[(t \ {x}) \ {c}] \in Nat  BY <1>2, <2>1
    <3>5. g[t] = f[c] + (f[x] + g[(t \ {x}) \ {c}])  BY <2>1, <3>1, <3>3
    <3>6. g[t] = f[x] + (f[c] + g[(t \ {x}) \ {c}])
      <4> DEFINE a == f[x]
                 b == f[c]
                 r == g[(t \ {x}) \ {c}]
      <4>1. a \in Nat /\ b \in Nat /\ r \in Nat  BY <3>4
      <4>2. g[t] = b + (a + r)  BY <3>5
      <4> HIDE DEF a, b, r
      <4>3. b + (a + r) = a + (b + r)  BY <4>1
      <4>4. g[t] = a + (b + r)  BY <4>2, <4>3
      <4> QED  BY <4>4 DEF a, b, r
    <3> QED  BY <3>2, <3>6
  <2> QED  BY <2>2, <2>3
<1>5. SUBSET S \subseteq Free
  <2> HIDE DEF Free
  <2> QED  BY <1>4, SubsetInduction
<1>6. \A x \in S : g[S] = f[x] + g[S \ {x}]  BY <1>5
<1>7. g[{}] = 0 /\ g[S] \in Nat  BY <1>2
<1>8. QED  BY <1>3, <1>6, <1>7

\* A sum of sums.
LEMMA SumsOfSums ==
  ASSUME NEW S, IsFiniteSet(S), NEW f, NEW g, NEW h,
         \A x \in S : f[x] \in Nat /\ g[x] \in Nat /\ h[x] = f[x] + g[x]
  PROVE  SumFunctionOnSet(h, S) = SumFunctionOnSet(f, S) + SumFunctionOnSet(g, S)
<1> DEFINE F(s) == SumFunctionOnSet(f, s)
           G(s) == SumFunctionOnSet(g, s)
           H(s) == SumFunctionOnSet(h, s)
           Fine == {s \in SUBSET S : H(s) = F(s) + G(s)}
<1>1. \A x \in S : h[x] \in Nat  OBVIOUS
<1>2. ASSUME NEW s \in SUBSET S
      PROVE  /\ F(s) \in Nat /\ G(s) \in Nat /\ H(s) \in Nat
             /\ F({}) = 0 /\ G({}) = 0 /\ H({}) = 0
             /\ \A x \in s : /\ F(s) = f[x] + F(s \ {x})
                             /\ G(s) = g[x] + G(s \ {x})
                             /\ H(s) = h[x] + H(s \ {x})
  <2>1. IsFiniteSet(s)  BY FS_Subset
  <2> QED  BY <1>1, <2>1, SumTakesOut
<1> HIDE DEF F, G, H
<1>3. ASSUME NEW s \in SUBSET S, \A x \in s : s \ {x} \in Fine
      PROVE  s \in Fine
  <2>1. CASE s = {}
    <3>1. F({}) = 0 /\ G({}) = 0 /\ H({}) = 0  BY <1>2
    <3> QED  BY <2>1, <3>1
  <2>2. CASE s # {}
    <3>1. PICK x \in s : TRUE  BY <2>2
    <3>2. H(s \ {x}) = F(s \ {x}) + G(s \ {x})  BY <1>3
    <3>3. F(s \ {x}) \in Nat /\ G(s \ {x}) \in Nat  BY <1>2
    <3>4. f[x] \in Nat /\ g[x] \in Nat /\ h[x] = f[x] + g[x]  OBVIOUS
    <3>5. F(s) = f[x] + F(s \ {x}) /\ G(s) = g[x] + G(s \ {x})
          /\ H(s) = h[x] + H(s \ {x})
      BY <1>2
    <3> QED  BY <3>2, <3>3, <3>4, <3>5
  <2> QED  BY <2>1, <2>2
<1>4. SUBSET S \subseteq Fine
  <2> HIDE DEF Fine
  <2> QED  BY <1>3, SubsetInduction
<1>5. H(S) = F(S) + G(S)  BY <1>4
<1>6. QED  BY <1>5 DEF F, G, H

\* Zeros add nothing.
LEMMA SumOfSupport ==
  ASSUME NEW S, IsFiniteSet(S), NEW f, \A x \in S : f[x] \in Nat,
         NEW T \in SUBSET S, \A x \in S \ T : f[x] = 0
  PROVE  SumFunctionOnSet(f, S) = SumFunctionOnSet(f, T)
<1> DEFINE F(s) == SumFunctionOnSet(f, s)
           Fine == {s \in SUBSET S : F(s) = F(s \cap T)}
<1>1. ASSUME NEW s \in SUBSET S
      PROVE  F(s) \in Nat /\ \A x \in s : F(s) = f[x] + F(s \ {x})
  <2>1. IsFiniteSet(s)  BY FS_Subset
  <2> QED  BY <2>1, SumTakesOut
<1> HIDE DEF F
<1>2. ASSUME NEW s \in SUBSET S, \A x \in s : s \ {x} \in Fine
      PROVE  s \in Fine
  <2>1. CASE s = {}
    <3>1. s \cap T = s  BY <2>1
    <3> QED  BY <3>1
  <2>2. CASE s # {}
    <3>1. PICK x \in s : TRUE  BY <2>2
    <3>2. F(s \ {x}) = F((s \ {x}) \cap T)  BY <1>2
    <3>3. F(s) = f[x] + F(s \ {x})  BY <1>1
    <3>4. CASE x \in T
      <4>1. (s \ {x}) \cap T = (s \cap T) \ {x}  OBVIOUS
      <4>2. F(s \cap T) = f[x] + F((s \cap T) \ {x})  BY <1>1, <3>4
      <4> QED  BY <3>2, <3>3, <4>1, <4>2
    <3>5. CASE x \notin T
      <4>1. (s \ {x}) \cap T = s \cap T  BY <3>5
      <4>2. f[x] = 0 /\ F(s \ {x}) \in Nat  BY <1>1, <3>5
      <4>3. F(s) = F(s \ {x})  BY <3>3, <4>2
      <4>4. F(s) = F(s \cap T)  BY <3>2, <4>1, <4>3
      <4> QED  BY <4>4
    <3> QED  BY <3>4, <3>5
  <2> QED  BY <2>1, <2>2
<1>3. SUBSET S \subseteq Fine
  <2> HIDE DEF Fine
  <2> QED  BY <1>2, SubsetInduction
<1>4. S \cap T = T  OBVIOUS
<1>5. F(S) = F(T)  BY <1>3, <1>4
<1>6. QED  BY <1>5 DEF F

-----------------------------------------------------------------------------
(***************************************************************************)
(* Limits on trace identifiers.                                            *)
(***************************************************************************)
Below(S, t) == {u \in S : u < t}

LEMMA BelowIsFinite ==
  ASSUME NEW S \in SUBSET Nat, NEW t \in Nat
  PROVE  IsFiniteSet(Below(S, t)) /\ Cardinality(Below(S, t)) \in Nat
<1>1. IsFiniteSet(Below(S, t))
  <2>1. \A u \in Below(S, t) : u \in Nat /\ u < t  BY DEF Below
  <2>2. Below(S, t) \in SUBSET Nat  BY <2>1
  <2>3. \A u \in Below(S, t) : u <= t  BY <2>1
  <2> QED  BY <2>2, <2>3, FS_BoundedSetOfNaturals
<1>2. QED  BY <1>1, FS_CardinalityType

LEMMA FewerAreBelow ==
  ASSUME NEW S \in SUBSET Nat, NEW t \in Nat, NEW T \in SUBSET Below(S, t)
  PROVE  /\ IsFiniteSet(T) /\ Cardinality(T) \in Nat
         /\ Cardinality(T) <= Cardinality(Below(S, t))
BY BelowIsFinite, FS_Subset, FS_CardinalityType

LEMMA LimitedParts ==
  ASSUME NEW S \in SUBSET Nat
  PROVE  LET N == S \ {0} IN
           /\ Limited(S) \in SUBSET N /\ N \in SUBSET Nat
           /\ \A t \in N : t \in Limited(S) <=> Cardinality(Below(N, t)) < MaxTraceIDs
BY DEF Limited, Below

\* An identifier with as many before it as are kept has as many kept ones before it.
LEMMA SmallestAreKept ==
  ASSUME NEW S \in SUBSET Nat, NEW t \in Nat,
         Cardinality(Below(S \ {0}, t)) >= MaxTraceIDs
  PROVE  Cardinality(Below(Limited(S), t)) >= MaxTraceIDs
<1> DEFINE N == S \ {0}
           L == Limited(S)
           Lost == Below(N, t) \ L
<1>1. /\ L \in SUBSET N /\ N \in SUBSET Nat
      /\ \A u \in N : u \in L <=> Cardinality(Below(N, u)) < MaxTraceIDs
  BY LimitedParts
<1>2. L \in SUBSET Nat  BY <1>1
<1> HIDE DEF N, L
<1>3. MaxTraceIDs \in Nat  BY EvidenceAssumption
<1>4. CASE Lost = {}
  <2>1. Below(N, t) = Below(L, t)  BY <1>1, <1>4 DEF Below
  <2> QED  BY <2>1 DEF N, L
<1>5. CASE Lost # {}
  <2>1. PICK w \in Lost : \A u \in Lost : w <= u
    <3>1. Lost \subseteq Nat  BY <1>1 DEF Below
    <3> HIDE DEF Lost
    <3> QED  BY <1>5, <3>1, LeastElement
  <2>2. w \in N /\ w \in Nat /\ w < t /\ w \notin L  BY <1>1, <2>1 DEF Below
  <2>3. Below(N, w) \subseteq Below(L, t)
    <3> SUFFICES ASSUME NEW u \in N, u < w PROVE u \in L /\ u < t
      BY DEF Below
    <3>1. u < t  BY <1>1, <2>2
    <3>2. u \notin Lost  BY <1>1, <2>1, <2>2
    <3> QED  BY <3>1, <3>2 DEF Below
  <2>4. Cardinality(Below(N, w)) <= Cardinality(Below(L, t))
    BY <1>2, <2>3, FewerAreBelow
  <2>5. ~(Cardinality(Below(N, w)) < MaxTraceIDs)  BY <1>1, <2>2
  <2>6. Cardinality(Below(N, w)) \in Nat /\ Cardinality(Below(L, t)) \in Nat
    BY <1>1, <1>2, <2>2, BelowIsFinite
  <2>7. Cardinality(Below(L, t)) >= MaxTraceIDs  BY <1>3, <2>4, <2>5, <2>6
  <2> QED  BY <2>7 DEF L
<1>6. QED  BY <1>4, <1>5

\* Limiting in parts and then the whole keeps what limiting the whole keeps.
LEMMA LimitedOfUnion ==
  ASSUME NEW A \in SUBSET Nat, NEW B \in SUBSET Nat
  PROVE  Limited(A \cup B) = Limited(Limited(A) \cup Limited(B))
<1> DEFINE S == A \cup B
           X == Limited(A) \cup Limited(B)
<1>1. S \in SUBSET Nat  OBVIOUS
<1>2. /\ Limited(A) \in SUBSET (A \ {0}) /\ Limited(B) \in SUBSET (B \ {0})
      /\ \A t \in A \ {0} :
           t \in Limited(A) <=> Cardinality(Below(A \ {0}, t)) < MaxTraceIDs
      /\ \A t \in B \ {0} :
           t \in Limited(B) <=> Cardinality(Below(B \ {0}, t)) < MaxTraceIDs
  BY LimitedParts
<1>3. X \in SUBSET Nat /\ X \in SUBSET (S \ {0})  BY <1>2
<1>4. /\ Limited(S) \in SUBSET (S \ {0})
      /\ \A t \in S \ {0} :
           t \in Limited(S) <=> Cardinality(Below(S \ {0}, t)) < MaxTraceIDs
  BY <1>1, LimitedParts
<1>5. /\ Limited(X) \in SUBSET (X \ {0}) /\ X \ {0} = X
      /\ \A t \in X \ {0} :
           t \in Limited(X) <=> Cardinality(Below(X \ {0}, t)) < MaxTraceIDs
  <2>1. X \ {0} = X  BY <1>3
  <2> HIDE DEF X
  <2> QED  BY <1>3, <2>1, LimitedParts
<1>6. MaxTraceIDs \in Nat  BY EvidenceAssumption
<1>7. ASSUME NEW C \in SUBSET S, NEW t \in Nat
      PROVE  /\ Cardinality(Below(C, t)) \in Nat
             /\ Cardinality(Below(C \ {0}, t)) <= Cardinality(Below(S \ {0}, t))
  <2>1. C \in SUBSET Nat /\ S \ {0} \in SUBSET Nat  OBVIOUS
  <2>2. Below(C \ {0}, t) \in SUBSET Below(S \ {0}, t)  BY DEF Below
  <2> HIDE DEF S
  <2> QED  BY <2>1, <2>2, BelowIsFinite, FewerAreBelow
<1>8. ASSUME NEW t \in Limited(S)
      PROVE  t \in Limited(X)
  <2>1. t \in S \ {0} /\ t \in Nat /\ Cardinality(Below(S \ {0}, t)) < MaxTraceIDs
    BY <1>1, <1>4
  <2>2. ASSUME NEW C \in SUBSET S
        PROVE  Cardinality(Below(C \ {0}, t)) < MaxTraceIDs
    <3>1. /\ Cardinality(Below(C \ {0}, t)) <= Cardinality(Below(S \ {0}, t))
          /\ Cardinality(Below(S \ {0}, t)) \in Nat
          /\ Cardinality(Below(C \ {0}, t)) \in Nat
      <4>1. C \ {0} \in SUBSET S /\ S \ {0} \in SUBSET S  OBVIOUS
      <4> HIDE DEF S
      <4> QED  BY <1>7, <2>1, <4>1
    <3> HIDE DEF S
    <3> QED  BY <1>6, <2>1, <3>1
  <2>3. A \in SUBSET S /\ B \in SUBSET S /\ X \in SUBSET S  BY <1>3
  <2>4. t \in A \ {0} => t \in Limited(A)  BY <1>2, <2>2, <2>3
  <2>5. t \in B \ {0} => t \in Limited(B)  BY <1>2, <2>2, <2>3
  <2>6. t \in X \ {0}  BY <2>1, <2>4, <2>5
  <2> HIDE DEF X, S
  <2> QED  BY <1>5, <2>2, <2>3, <2>6
<1>9. ASSUME NEW t \in Limited(X), t \notin Limited(S)
      PROVE  FALSE
  <2>1. t \in X /\ t \in S \ {0} /\ t \in Nat /\ Cardinality(Below(X, t)) < MaxTraceIDs
    <3> HIDE DEF X, S
    <3> QED  BY <1>1, <1>3, <1>5
  <2>2. Cardinality(Below(S \ {0}, t)) \in Nat
    <3>1. S \ {0} \in SUBSET S  OBVIOUS
    <3> HIDE DEF S
    <3> QED  BY <1>7, <2>1, <3>1
  <2>3. Cardinality(Below(S \ {0}, t)) >= MaxTraceIDs
    <3> HIDE DEF X, S
    <3> QED  BY <1>4, <1>6, <1>9, <2>1, <2>2
  <2>4. Cardinality(Below(Limited(S), t)) >= MaxTraceIDs
    <3> HIDE DEF S
    <3> QED  BY <1>1, <2>1, <2>3, SmallestAreKept
  <2>5. \A u \in Limited(S) : u \in X
    <3> SUFFICES ASSUME NEW u \in Limited(S) PROVE u \in X
      OBVIOUS
    <3>1. u \in Limited(X)  BY <1>8
    <3> HIDE DEF X
    <3> QED  BY <1>5, <3>1
  <2>6. Below(Limited(S), t) \in SUBSET Below(X, t)  BY <2>5 DEF Below
  <2> HIDE DEF X, S
  <2>7. /\ Cardinality(Below(Limited(S), t)) <= Cardinality(Below(X, t))
        /\ Cardinality(Below(Limited(S), t)) \in Nat
        /\ Cardinality(Below(X, t)) \in Nat
    BY <1>3, <2>1, <2>6, FewerAreBelow, BelowIsFinite
  <2> QED  BY <1>6, <2>1, <2>4, <2>7
<1>10. QED  BY <1>8, <1>9

\* A limit is a limit once.
LEMMA LimitedTwice ==
  ASSUME NEW A \in SUBSET Nat
  PROVE  Limited(Limited(A)) = Limited(A) /\ Limited(A) \in SUBSET Nat
<1>1. Limited(A \cup A) = Limited(Limited(A) \cup Limited(A))  BY LimitedOfUnion
<1>2. A \cup A = A /\ Limited(A) \cup Limited(A) = Limited(A)  OBVIOUS
<1>3. QED  BY <1>1, <1>2, LimitedParts

\* A finite set of numbers that is not empty has a greatest one.
LEMMA GreatestElement ==
  ASSUME NEW S \in SUBSET Nat, IsFiniteSet(S), S # {}
  PROVE  \E m \in S : \A n \in S : n <= m
<1> DEFINE Good == {s \in SUBSET S : s # {} => \E m \in s : \A n \in s : n <= m}
<1>1. ASSUME NEW s \in SUBSET S, \A x \in s : s \ {x} \in Good
      PROVE  s \in Good
  <2> SUFFICES ASSUME s # {} PROVE \E m \in s : \A n \in s : n <= m
    OBVIOUS
  <2>1. PICK x \in s : TRUE  OBVIOUS
  <2>2. CASE s \ {x} = {}
    <3>1. \A n \in s : n = x  BY <2>2
    <3> QED  BY <2>1, <3>1
  <2>3. CASE s \ {x} # {}
    <3>1. PICK m \in s \ {x} : \A n \in s \ {x} : n <= m  BY <1>1, <2>3
    <3>2. m \in Nat /\ x \in Nat /\ \A n \in s : n \in Nat  OBVIOUS
    <3>3. CASE x <= m
      <4>1. \A n \in s : n <= m  BY <3>1, <3>3
      <4> QED  BY <4>1
    <3>4. CASE ~(x <= m)
      <4>1. \A n \in s : n <= x  BY <3>1, <3>2, <3>4
      <4> QED  BY <4>1
    <3> QED  BY <3>3, <3>4
  <2> QED  BY <2>2, <2>3
<1>2. SUBSET S \subseteq Good
  <2> HIDE DEF Good
  <2> QED  BY <1>1, SubsetInduction
<1>3. S \in Good  BY <1>2
<1>4. QED  BY <1>3

\* No more identifiers are kept than MaxTraceIDs.
LEMMA LimitedIsSmall ==
  ASSUME NEW S \in SUBSET Nat
  PROVE  IsFiniteSet(Limited(S)) /\ Cardinality(Limited(S)) <= MaxTraceIDs
<1> DEFINE N == S \ {0}
           L == Limited(S)
<1>1. /\ L \in SUBSET N /\ N \in SUBSET Nat
      /\ \A t \in N : t \in L <=> Cardinality(Below(N, t)) < MaxTraceIDs
  BY LimitedParts
<1>2. L \in SUBSET Nat  BY <1>1
<1> HIDE DEF N, L
<1>3. MaxTraceIDs \in Nat \ {0}  BY EvidenceAssumption
<1>4. ASSUME NEW t \in N, NEW w \in N, t < w
      PROVE  /\ Cardinality(Below(N, t)) + 1 <= Cardinality(Below(N, w))
             /\ Cardinality(Below(N, t)) \in Nat /\ Cardinality(Below(N, w)) \in Nat
  <2>1. t \in Nat /\ w \in Nat  BY <1>1
  <2>2. /\ IsFiniteSet(Below(N, t)) /\ Cardinality(Below(N, t)) \in Nat
        /\ Cardinality(Below(N, w)) \in Nat
    BY <1>1, <2>1, BelowIsFinite
  <2>3. Below(N, t) \cup {t} \in SUBSET Below(N, w)
    <3>1. \A u \in N : u < t => u < w  BY <1>1, <1>4, <2>1
    <3> QED  BY <1>4, <3>1 DEF Below
  <2>4. t \notin Below(N, t)  BY <2>1 DEF Below
  <2>5. Cardinality(Below(N, t) \cup {t}) = Cardinality(Below(N, t)) + 1
    BY <2>2, <2>4, FS_AddElement
  <2>6. Cardinality(Below(N, t) \cup {t}) <= Cardinality(Below(N, w))
    BY <1>1, <2>1, <2>3, FewerAreBelow
  <2> QED  BY <2>2, <2>5, <2>6
<1>5. IsFiniteSet(L)
  <2>1. CASE \E w \in N : w \notin L
    <3>1. PICK w \in N : w \notin L  BY <2>1
    <3>2. w \in Nat /\ ~(Cardinality(Below(N, w)) < MaxTraceIDs)  BY <1>1, <3>1
    <3>3. ASSUME NEW t \in L
          PROVE  t <= w
      <4>1. t \in N /\ t \in Nat /\ Cardinality(Below(N, t)) < MaxTraceIDs  BY <1>1
      <4>2. SUFFICES ASSUME w < t PROVE FALSE
        BY <3>2, <4>1
      <4>3. Cardinality(Below(N, w)) + 1 <= Cardinality(Below(N, t))
            /\ Cardinality(Below(N, w)) \in Nat /\ Cardinality(Below(N, t)) \in Nat
        BY <1>4, <4>1, <4>2
      <4> QED  BY <1>3, <3>2, <4>1, <4>3
    <3> QED  BY <1>2, <3>2, <3>3, FS_BoundedSetOfNaturals
  <2>2. CASE \A w \in N : w \in L
    <3> DEFINE Bad == {n \in Nat : \A t \in N : Cardinality(Below(N, t)) < n}
    <3>1. SUFFICES ASSUME ~IsFiniteSet(L) PROVE FALSE
      OBVIOUS
    <3>2. L = N /\ \A m \in Nat : \E w \in N : ~(w <= m)
      <4>1. L = N  BY <1>1, <2>2
      <4> QED  BY <1>1, <3>1, <4>1, FS_BoundedSetOfNaturals
    <3>3. MaxTraceIDs \in Bad  BY <1>1, <1>3, <2>2
    <3>4. PICK m \in Bad : \A n \in Bad : m <= n
      <4>1. Bad \subseteq Nat /\ Bad # {}  BY <3>3
      <4> HIDE DEF Bad
      <4> QED  BY <4>1, LeastElement
    <3>5. m \in Nat /\ \A t \in N : Cardinality(Below(N, t)) < m  BY <3>4
    <3>6. PICK x \in N : TRUE
      <4>1. 0 \in Nat  OBVIOUS
      <4> QED  BY <3>2, <4>1
    <3>7. m # 0
      <4>1. x \in Nat  BY <1>1
      <4>2. Cardinality(Below(N, x)) \in Nat  BY <1>1, <4>1, BelowIsFinite
      <4> QED  BY <3>5, <4>2
    <3>8. m - 1 \in Nat /\ ~(m <= m - 1)  BY <3>5, <3>7
    <3>9. m - 1 \notin Bad  BY <3>4, <3>8
    <3>10. PICK t \in N : ~(Cardinality(Below(N, t)) < m - 1)  BY <3>8, <3>9
    <3>11. t \in Nat  BY <1>1
    <3>12. PICK w \in N : ~(w <= t)  BY <3>2, <3>11
    <3>13. w \in Nat /\ t < w  BY <1>1, <3>11, <3>12
    <3>14. Cardinality(Below(N, t)) + 1 <= Cardinality(Below(N, w))
           /\ Cardinality(Below(N, t)) \in Nat /\ Cardinality(Below(N, w)) \in Nat
      BY <1>4, <3>13
    <3>15. Cardinality(Below(N, w)) < m  BY <3>5
    <3> QED  BY <3>5, <3>7, <3>10, <3>14, <3>15
  <2> QED  BY <2>1, <2>2
<1>6. Cardinality(L) <= MaxTraceIDs
  <2>1. CASE L = {}
    <3>1. Cardinality(L) = 0  BY <2>1, FS_EmptySet
    <3> QED  BY <1>3, <3>1
  <2>2. CASE L # {}
    <3>1. PICK g \in L : \A t \in L : t <= g  BY <1>2, <1>5, <2>2, GreatestElement
    <3>2. g \in N /\ g \in Nat /\ Cardinality(Below(N, g)) < MaxTraceIDs  BY <1>1
    <3>3. IsFiniteSet(Below(N, g)) /\ Cardinality(Below(N, g)) \in Nat
      BY <1>1, <3>2, BelowIsFinite
    <3>4. g \notin Below(N, g)  BY <3>2 DEF Below
    <3>5. /\ IsFiniteSet(Below(N, g) \cup {g})
          /\ Cardinality(Below(N, g) \cup {g}) = Cardinality(Below(N, g)) + 1
      BY <3>3, <3>4, FS_AddElement
    <3>6. L \in SUBSET (Below(N, g) \cup {g})
      <4> SUFFICES ASSUME NEW t \in L, t # g PROVE t \in Below(N, g)
        OBVIOUS
      <4>1. t \in N /\ t \in Nat /\ t <= g  BY <1>1, <3>1
      <4> QED  BY <3>2, <4>1 DEF Below
    <3>7. Cardinality(L) <= Cardinality(Below(N, g) \cup {g}) /\ Cardinality(L) \in Nat
      BY <1>5, <3>5, <3>6, FS_Subset, FS_CardinalityType
    <3> QED  BY <1>3, <3>2, <3>3, <3>5, <3>7
  <2> QED  BY <2>1, <2>2
<1>7. QED  BY <1>5, <1>6 DEF L

-----------------------------------------------------------------------------
(***************************************************************************)
(* The types of what the operations make, and that it is sound.            *)
(***************************************************************************)

SoundClaims(p, claims) == \A v \in Values : Sound(p, claims[v])
SoundNode(p, n) == Sound(p, n.evidence) /\ SoundClaims(p, n.claims)

LEMMA PolicyType == \A p \in Policies : p \in TrustPolicies
BY GraphAssumption

\* Policy.Apply takes an observation to one within the maximum of its source.
LEMMA ApplyParts ==
  ASSUME NEW p \in TrustPolicies, NEW o \in Observations
  PROVE  /\ Apply(p, o).level \in 1..4
         /\ Apply(p, o).level <= MaximumFor(p, o.source)
         /\ Apply(p, o).source = o.source /\ o.source \in Sources
         /\ Apply(p, o).trace = o.trace /\ o.trace \in Nat
         /\ Apply(p, o).time = o.time /\ o.time \in Nat \ {0}
         /\ Apply(p, o).value = o.value /\ o.value \in Values \cup {0}
<1>1. o \in [level : 1..4, source : Sources, trace : Nat, time : Nat \ {0},
             value : Values \cup {0}]
  BY GraphAssumption DEF Inferred, Verified
<1>2. MaximumFor(p, o.source) \in 1..4
  BY MaximumType DEF Inferred, Verified
<1> DEFINE max == MaximumFor(p, o.source)
<1>3. Apply(p, o) = IF o.level > max THEN [o EXCEPT !.level = max] ELSE o
  BY DEF Apply
<1>4. max \in 1..4 /\ max = MaximumFor(p, o.source)  BY <1>2
<1> HIDE DEF max
<1>5. CASE o.level > max
  <2>1. Apply(p, o) = [o EXCEPT !.level = max]  BY <1>3, <1>5
  <2> QED  BY <2>1, <1>1, <1>4
<1>6. CASE ~ (o.level > max)
  <2>1. Apply(p, o) = o  BY <1>3, <1>6
  <2> QED  BY <2>1, <1>1, <1>4, <1>6
<1>7. QED  BY <1>5, <1>6

\* A capped observation is a sound summary, and so is one without its trace.
LEMMA ObservationIsSound ==
  ASSUME NEW p \in TrustPolicies, NEW o \in Observations, NEW T \in SUBSET Nat
  PROVE  LET claim == ObservationEvidence(Apply(p, o)) IN
           /\ claim \in Summaries
           /\ [claim EXCEPT !.traces = T] \in Summaries
           /\ Sound(p, claim)
           /\ Sound(p, [claim EXCEPT !.traces = T])
<1> DEFINE a == Apply(p, o)
           claim == ObservationEvidence(a)
<1>1. /\ a.level \in 1..4 /\ a.level <= MaximumFor(p, a.source)
      /\ a.source \in Sources /\ a.trace \in Nat /\ a.time \in Nat
  BY ApplyParts
<1>2. claim = [level |-> a.level, count |-> 1, sources |-> {a.source},
               traces |-> {a.trace} \ {0}, first |-> a.time, last |-> a.time]
  BY DEF ObservationEvidence
<1> HIDE DEF a, claim
<1>3. {a.trace} \ {0} \in SUBSET Nat  BY <1>1
<1>4. claim \in Summaries
  BY <1>1, <1>2, <1>3 DEF Summaries, Ranks, Verified
<1>5. [claim EXCEPT !.traces = T] \in Summaries  BY <1>4 DEF Summaries
<1>6. Sound(p, claim)
  <2>1. claim.sources = {a.source} /\ claim.level = a.level  BY <1>2
  <2>2. Ceiling(p, {a.source}) = MaximumFor(p, a.source)
    BY CeilingIsMaximum
  <2> QED  BY <2>1, <2>2, <1>1 DEF Sound
<1>7. Sound(p, [claim EXCEPT !.traces = T])
  <2>1. /\ [claim EXCEPT !.traces = T].level = claim.level
        /\ [claim EXCEPT !.traces = T].sources = claim.sources
    BY <1>4 DEF Summaries
  <2> QED  BY <2>1, <1>6, SoundByParts
<1>8. QED  BY <1>4, <1>5, <1>6, <1>7 DEF claim, a

\* LimitTraces changes the traces only.
LEMMA LimitParts ==
  ASSUME NEW p, NEW s \in Summaries
  PROVE  /\ LimitTraces(s) \in Summaries
         /\ Sound(p, s) => Sound(p, LimitTraces(s))
<1>1. Limited(s.traces) \in SUBSET Nat
  BY SummaryParts DEF Limited
<1> DEFINE kept == Limited(s.traces)
<1>2. LimitTraces(s) = [s EXCEPT !.traces = kept] /\ kept \in SUBSET Nat
  BY <1>1 DEF LimitTraces
<1> HIDE DEF kept
<1>3. /\ LimitTraces(s) \in Summaries
      /\ LimitTraces(s).level = s.level
      /\ LimitTraces(s).sources = s.sources
  BY <1>2 DEF Summaries
<1>4. QED  BY <1>3, SoundByParts

LEMMA NodeParts ==
  ASSUME NEW n \in AllNodes
  PROVE  /\ n.version \in Values \cup {0} /\ n.observed \in SUBSET Values
         /\ n.claims \in AllClaims /\ n.evidence \in Summaries
         /\ \A v \in Values : n.claims[v] \in Summaries
BY DEF AllNodes, AllClaims

\* Resolving changes the value shown, not what is known.
LEMMA ResolveParts ==
  ASSUME NEW n \in AllNodes
  PROVE  /\ ResolveFieldEvidence(n) \in AllNodes
         /\ ResolveFieldEvidence(n).claims = n.claims
         /\ ResolveFieldEvidence(n).evidence = n.evidence
<1> DEFINE C == Candidates(n.claims)
           chosen == Selected(n.claims)
<1>1. n.claims \in AllClaims  BY NodeParts
<1>2. C \in SUBSET Values  BY DEF Candidates
<1>3. C # {} => chosen \in Values  BY <1>1, SelectedIsPreferred
<1>4. ResolveFieldEvidence(n) =
        IF C = {} THEN n
        ELSE [n EXCEPT !.version = chosen, !.observed = @ \cup C]
  BY DEF ResolveFieldEvidence
<1> HIDE DEF C, chosen
<1>5. CASE C = {}  BY <1>4, <1>5
<1>6. CASE C # {}
  <2>1. n = [version |-> n.version, observed |-> n.observed,
             claims |-> n.claims, evidence |-> n.evidence]
    BY DEF AllNodes
  <2>2. ResolveFieldEvidence(n) =
          [version |-> chosen, observed |-> n.observed \cup C,
           claims |-> n.claims, evidence |-> n.evidence]
    BY <2>1, <1>4, <1>6
  <2> QED
    BY <2>2, <1>2, <1>3, <1>6, NodeParts DEF AllNodes
<1>7. QED  BY <1>5, <1>6


Batches == [evidence : Summaries, slots : 0..MaxTraceIDs, claims : AllClaims]

LEMMA BatchParts ==
  ASSUME NEW b \in Batches
  PROVE  /\ b.evidence \in Summaries /\ b.slots \in 0..MaxTraceIDs
         /\ b.claims \in AllClaims
         /\ \A v \in Values : b.claims[v] \in Summaries
BY DEF Batches, AllClaims

LEMMA EmptyBatchIsSound ==
  ASSUME NEW p \in TrustPolicies
  PROVE  EmptyBatch \in Batches /\ SoundNode(p, EmptyBatch)
<1>1. NoSummary \in Summaries /\ Sound(p, NoSummary)
  BY NoSummaryType, NoSummaryIsSound
<1>2. 0 \in 0..MaxTraceIDs  BY EvidenceAssumption
<1>3. NoClaims \in AllClaims /\ SoundClaims(p, NoClaims)
  BY <1>1 DEF NoClaims, AllClaims, SoundClaims
<1>4. QED
  BY <1>1, <1>2, <1>3 DEF EmptyBatch, Batches, SoundNode

\* addNode.
LEMMA AddNodeIsSound ==
  ASSUME NEW p \in TrustPolicies, NEW o \in Observations, NEW b \in Batches,
         SoundNode(p, b)
  PROVE  /\ AddNode(b, Apply(p, o)) \in Batches
         /\ SoundNode(p, AddNode(b, Apply(p, o)))
<1> DEFINE a == Apply(p, o)
           claim == ObservationEvidence(a)
           kept == IF b.slots < MaxTraceIDs THEN claim.traces ELSE {}
           part == [claim EXCEPT !.traces = kept]
           claims == [v \in Values |-> IF v = a.value
                                       THEN MergeEvidenceSummary(b.claims[v], claim)
                                       ELSE b.claims[v]]
<1>1. claim.traces = {a.trace} \ {0} /\ a.trace \in Nat
  BY ApplyParts DEF ObservationEvidence
<1>2. kept \in SUBSET Nat /\ (kept = {} \/ \E t \in Nat : kept = {t})
  BY <1>1
<1>3. claim \in Summaries /\ Sound(p, claim)  BY ObservationIsSound
<1>4. part \in Summaries /\ Sound(p, part)
  <2> HIDE DEF kept
  <2> QED  BY <1>2, ObservationIsSound
<1>5. AddNode(b, a) = [evidence |-> MergeEvidenceSummary(b.evidence, part),
                       slots |-> b.slots + Cardinality(kept),
                       claims |-> claims]
  BY DEF AddNode
<1>6. b.slots + Cardinality(kept) \in 0..MaxTraceIDs
  <2>1. b.slots \in 0..MaxTraceIDs /\ MaxTraceIDs \in Nat
    BY BatchParts, EvidenceAssumption
  <2>2. CASE kept = {}
    <3>1. Cardinality(kept) = 0  BY <2>2, FS_EmptySet
    <3> HIDE DEF kept
    <3> QED  BY <3>1, <2>1
  <2>3. CASE kept # {}
    <3>1. b.slots < MaxTraceIDs  BY <2>3
    <3>2. Cardinality(kept) = 1  BY <2>3, <1>2, FS_Singleton
    <3> HIDE DEF kept
    <3> QED  BY <3>1, <3>2, <2>1
  <2> QED  BY <2>2, <2>3
<1> HIDE DEF a, claim, kept, part
<1>7. /\ MergeEvidenceSummary(b.evidence, part) \in Summaries
      /\ Sound(p, MergeEvidenceSummary(b.evidence, part))
  BY <1>4, BatchParts, MergeType, MergeIsSound DEF SoundNode
<1>8. ASSUME NEW v \in Values
      PROVE  claims[v] \in Summaries /\ Sound(p, claims[v])
  <2>1. b.claims[v] \in Summaries /\ Sound(p, b.claims[v])
    BY BatchParts DEF SoundNode, SoundClaims
  <2>2. /\ MergeEvidenceSummary(b.claims[v], claim) \in Summaries
        /\ Sound(p, MergeEvidenceSummary(b.claims[v], claim))
    BY <2>1, <1>3, MergeType, MergeIsSound
  <2> QED  BY <2>1, <2>2
<1>9. claims \in AllClaims /\ SoundClaims(p, claims)
  <2>1. claims = [v \in Values |-> claims[v]]  OBVIOUS
  <2> HIDE DEF claims
  <2> QED  BY <2>1, <1>8 DEF AllClaims, SoundClaims
<1> HIDE DEF claims
<1>10. AddNode(b, a) \in Batches /\ SoundNode(p, AddNode(b, a))
  BY <1>5, <1>6, <1>7, <1>9 DEF Batches, SoundNode
<1>11. QED  BY <1>10 DEF a

\* Resolving keeps a node sound.
LEMMA ResolveIsSound ==
  ASSUME NEW p, NEW n \in AllNodes, SoundNode(p, n)
  PROVE  /\ ResolveFieldEvidence(n) \in AllNodes
         /\ SoundNode(p, ResolveFieldEvidence(n))
BY ResolveParts DEF SoundNode

\* Build.
LEMMA BuildIsSound ==
  ASSUME NEW p \in TrustPolicies, NEW b \in Batches, SoundNode(p, b)
  PROVE  Build(b) \in AllNodes /\ SoundNode(p, Build(b))
<1> DEFINE claims == [v \in Values |-> LimitTraces(b.claims[v])]
           n == [version |-> 0, observed |-> {}, evidence |-> b.evidence,
                 claims |-> claims]
<1>1. ASSUME NEW v \in Values
      PROVE  claims[v] \in Summaries /\ Sound(p, claims[v])
  <2>1. b.claims[v] \in Summaries /\ Sound(p, b.claims[v])
    BY BatchParts DEF SoundNode, SoundClaims
  <2> QED  BY <2>1, LimitParts
<1>2. claims \in AllClaims /\ SoundClaims(p, claims)
  <2>1. claims = [v \in Values |-> claims[v]]  OBVIOUS
  <2> HIDE DEF claims
  <2> QED  BY <2>1, <1>1 DEF AllClaims, SoundClaims
<1>3. Build(b) = ResolveFieldEvidence(n)  BY DEF Build
<1> HIDE DEF claims
<1>4. n \in AllNodes /\ SoundNode(p, n)
  BY <1>2, BatchParts DEF AllNodes, SoundNode
<1> HIDE DEF n
<1>5. QED  BY <1>3, <1>4, ResolveIsSound

\* What the upgrade of a node makes of its values.
LEMMA EnsureParts ==
  ASSUME NEW n \in AllNodes
  PROVE  LET upgraded == EnsureFieldEvidence(n)
             whole    == n.evidence IN
           /\ upgraded \in AllNodes
           /\ upgraded.version = n.version /\ upgraded.observed = n.observed
           /\ upgraded.evidence = n.evidence
           /\ \A v \in Values :
                LET s == upgraded.claims[v] IN
                  \/ v \in Candidates(n.claims) /\ s = n.claims[v]
                  \/ /\ v \notin Candidates(n.claims)
                     /\ v = n.version \/ v \in n.observed
                     /\ s.level = 1 /\ s.count = 1 /\ s.sources = whole.sources
                     /\ \/ s.first = whole.first /\ s.last = whole.last
                        \/ s.first = 0 /\ s.last = 0
                  \/ /\ v \notin Candidates(n.claims)
                     /\ v # n.version /\ v \notin n.observed /\ s = NoSummary
<1> DEFINE legacy == [n.evidence EXCEPT !.level = Inferred, !.count = 1]
           historic == [legacy EXCEPT !.first = 0, !.last = 0]
           claims == [v \in Values |->
             IF v \in Candidates(n.claims) THEN n.claims[v]
             ELSE IF v = n.version THEN legacy
             ELSE IF v \in n.observed THEN historic
             ELSE NoSummary]
<1>1. n.evidence \in Summaries  BY NodeParts
<1>2. /\ legacy = [level |-> 1, count |-> 1, sources |-> n.evidence.sources,
                   traces |-> n.evidence.traces, first |-> n.evidence.first,
                   last |-> n.evidence.last]
      /\ historic = [level |-> 1, count |-> 1, sources |-> n.evidence.sources,
                     traces |-> n.evidence.traces, first |-> 0, last |-> 0]
  <2> DEFINE e == n.evidence
  <2>1. e \in Summaries  BY <1>1
  <2>2. legacy = [e EXCEPT !.level = Inferred, !.count = 1]  OBVIOUS
  <2>3. historic = [legacy EXCEPT !.first = 0, !.last = 0]  OBVIOUS
  <2> HIDE DEF e, legacy, historic
  <2>4. e = [level |-> e.level, count |-> e.count, sources |-> e.sources,
             traces |-> e.traces, first |-> e.first, last |-> e.last]
    BY <2>1 DEF Summaries
  <2>5. legacy = [level |-> 1, count |-> 1, sources |-> e.sources,
                  traces |-> e.traces, first |-> e.first, last |-> e.last]
    BY <2>2, <2>4 DEF Inferred
  <2>6. historic = [level |-> 1, count |-> 1, sources |-> e.sources,
                    traces |-> e.traces, first |-> 0, last |-> 0]
    BY <2>3, <2>5
  <2> QED  BY <2>5, <2>6 DEF e
<1>3. EnsureFieldEvidence(n) = [n EXCEPT !.claims = claims]
  BY DEF EnsureFieldEvidence
<1> HIDE DEF legacy, historic
<1>4. legacy \in Summaries /\ historic \in Summaries
  BY <1>1, <1>2, SummaryParts DEF Summaries, Ranks, Verified
<1>5. \A v \in Values : n.claims[v] \in Summaries  BY NodeParts
<1>6. claims \in AllClaims
  BY <1>4, <1>5, NoSummaryType DEF AllClaims
<1>7. \A v \in Values : claims[v] = IF v \in Candidates(n.claims) THEN n.claims[v]
                                    ELSE IF v = n.version THEN legacy
                                    ELSE IF v \in n.observed THEN historic
                                    ELSE NoSummary
  OBVIOUS
<1> HIDE DEF claims
<1>8. /\ EnsureFieldEvidence(n) \in AllNodes
      /\ EnsureFieldEvidence(n).version = n.version
      /\ EnsureFieldEvidence(n).observed = n.observed
      /\ EnsureFieldEvidence(n).claims = claims
      /\ EnsureFieldEvidence(n).evidence = n.evidence
  BY <1>3, <1>6 DEF AllNodes
<1>9. ASSUME NEW v \in Values
      PROVE  LET s == claims[v]
                 whole == n.evidence IN
               \/ v \in Candidates(n.claims) /\ s = n.claims[v]
               \/ /\ v \notin Candidates(n.claims)
                  /\ v = n.version \/ v \in n.observed
                  /\ s.level = 1 /\ s.count = 1 /\ s.sources = whole.sources
                  /\ \/ s.first = whole.first /\ s.last = whole.last
                     \/ s.first = 0 /\ s.last = 0
               \/ /\ v \notin Candidates(n.claims)
                  /\ v # n.version /\ v \notin n.observed /\ s = NoSummary
  <2>1. CASE v \in Candidates(n.claims)  BY <2>1, <1>7
  <2>2. CASE v \notin Candidates(n.claims) /\ v = n.version
    <3>1. claims[v] = legacy  BY <2>2, <1>7
    <3> QED  BY <2>2, <3>1, <1>2
  <2>3. CASE v \notin Candidates(n.claims) /\ v # n.version /\ v \in n.observed
    <3>1. claims[v] = historic  BY <2>3, <1>7
    <3> QED  BY <2>3, <3>1, <1>2
  <2>4. CASE v \notin Candidates(n.claims) /\ v # n.version /\ v \notin n.observed
    BY <2>4, <1>7
  <2> QED  BY <2>1, <2>2, <2>3, <2>4
<1> QED  BY <1>8, <1>9

\* Claims made of a legacy value are inferred, which no ceiling is below.
LEMMA EnsureIsSound ==
  ASSUME NEW p \in TrustPolicies, NEW n \in AllNodes, SoundNode(p, n)
  PROVE  EnsureFieldEvidence(n) \in AllNodes /\ SoundNode(p, EnsureFieldEvidence(n))
<1> DEFINE upgraded == EnsureFieldEvidence(n)
<1>1. /\ upgraded \in AllNodes /\ upgraded.evidence = n.evidence
      /\ \A v \in Values :
           \/ upgraded.claims[v] = n.claims[v]
           \/ upgraded.claims[v].level = 1
           \/ upgraded.claims[v] = NoSummary
  BY EnsureParts
<1> HIDE DEF upgraded
<1>2. ASSUME NEW s \in Summaries, s.level = 1
      PROVE  Sound(p, s)
  <2>1. Ceiling(p, s.sources) \in 1..4
    BY CeilingType DEF Inferred, Verified
  <2> QED  BY <2>1, <1>2 DEF Sound, Inferred
<1>3. ASSUME NEW v \in Values
      PROVE  Sound(p, upgraded.claims[v])
  <2>1. upgraded.claims[v] \in Summaries  BY <1>1, NodeParts
  <2>2. Sound(p, n.claims[v])  BY DEF SoundNode, SoundClaims
  <2> QED  BY <2>1, <2>2, <1>1, <1>2, NoSummaryIsSound
<1>4. SoundNode(p, upgraded)
  BY <1>1, <1>3 DEF SoundNode, SoundClaims
<1> QED  BY <1>1, <1>4 DEF upgraded

\* mergeNode.
LEMMA MergeNodeIsSound ==
  ASSUME NEW p \in TrustPolicies, NEW m \in AllNodes, NEW n \in AllNodes,
         SoundNode(p, m), SoundNode(p, n)
  PROVE  MergeNode(m, n) \in AllNodes /\ SoundNode(p, MergeNode(m, n))
<1> DEFINE claims == MergeClaims(m.claims, n.claims)
           whole == MergeEvidenceSummary(m.evidence, n.evidence)
           both == [version |-> m.version, observed |-> m.observed \cup n.observed,
                    claims |-> claims, evidence |-> whole]
<1>1. ASSUME NEW v \in Values
      PROVE  /\ MergeEvidenceSummary(m.claims[v], n.claims[v]) \in Summaries
             /\ Sound(p, MergeEvidenceSummary(m.claims[v], n.claims[v]))
  <2>1. /\ m.claims[v] \in Summaries /\ Sound(p, m.claims[v])
        /\ n.claims[v] \in Summaries /\ Sound(p, n.claims[v])
    BY NodeParts DEF SoundNode, SoundClaims
  <2> QED  BY <2>1, MergeType, MergeIsSound
<1>2. claims \in AllClaims /\ SoundClaims(p, claims)
  BY <1>1 DEF AllClaims, SoundClaims, MergeClaims
<1>3. whole \in Summaries /\ Sound(p, whole)
  BY NodeParts, MergeType, MergeIsSound DEF SoundNode
<1>4. MergeNode(m, n) = ResolveFieldEvidence(both)  BY DEF MergeNode
<1> HIDE DEF claims, whole
<1>5. both \in AllNodes /\ SoundNode(p, both)
  BY <1>2, <1>3, NodeParts DEF AllNodes, SoundNode
<1> HIDE DEF both
<1>6. QED  BY <1>4, <1>5, ResolveIsSound

\* Merge: its trace limits come last.
LEMMA MergedIsSound ==
  ASSUME NEW p \in TrustPolicies, NEW m \in AllNodes, NEW n \in AllNodes,
         SoundNode(p, m), SoundNode(p, n)
  PROVE  Merge(m, n) \in AllNodes /\ SoundNode(p, Merge(m, n))
<1> DEFINE current == ResolveFieldEvidence(EnsureFieldEvidence(m))
           incoming == ResolveFieldEvidence(EnsureFieldEvidence(n))
           merged == MergeNode(current, incoming)
           claims == [v \in Values |-> LimitTraces(merged.claims[v])]
           whole == LimitTraces(merged.evidence)
<1>1. current \in AllNodes /\ SoundNode(p, current)
  BY EnsureIsSound, ResolveIsSound
<1>2. incoming \in AllNodes /\ SoundNode(p, incoming)
  BY EnsureIsSound, ResolveIsSound
<1>3. merged \in AllNodes /\ SoundNode(p, merged)
  <2> HIDE DEF current, incoming
  <2> QED  BY <1>1, <1>2, MergeNodeIsSound
<1>4. Merge(m, n) = [merged EXCEPT !.claims = [v \in Values |-> LimitTraces(@[v])],
                                   !.evidence = LimitTraces(@)]
  BY DEF Merge
<1> HIDE DEF merged
<1>5. merged = [version |-> merged.version, observed |-> merged.observed,
                claims |-> merged.claims, evidence |-> merged.evidence]
  BY <1>3 DEF AllNodes
<1>6. Merge(m, n) = [version |-> merged.version, observed |-> merged.observed,
                     claims |-> claims, evidence |-> whole]
  BY <1>4, <1>5
<1>7. ASSUME NEW v \in Values
      PROVE  claims[v] \in Summaries /\ Sound(p, claims[v])
  <2>1. merged.claims[v] \in Summaries /\ Sound(p, merged.claims[v])
    BY <1>3, NodeParts DEF SoundNode, SoundClaims
  <2> QED  BY <2>1, LimitParts
<1>8. claims \in AllClaims /\ SoundClaims(p, claims)
  <2>1. claims = [v \in Values |-> claims[v]]  OBVIOUS
  <2> HIDE DEF claims
  <2> QED  BY <2>1, <1>7 DEF AllClaims, SoundClaims
<1>9. whole \in Summaries /\ Sound(p, whole)
  BY <1>3, NodeParts, LimitParts DEF SoundNode
<1> HIDE DEF claims, whole
<1>10. QED  BY <1>3, <1>6, <1>8, <1>9, NodeParts DEF AllNodes, SoundNode

\* CapNode makes any node sound whose summaries have sources or are no more than
\* inferred, whatever policy it was sound under.
LEMMA CapNodeIsSound ==
  ASSUME NEW p \in TrustPolicies, NEW n \in AllNodes,
         n.evidence.sources = {} => n.evidence.level <= Inferred,
         \A v \in Values : n.claims[v].sources = {} => n.claims[v].level <= Inferred
  PROVE  CapNode(p, n) \in AllNodes /\ SoundNode(p, CapNode(p, n))
<1> DEFINE claims == [v \in Values |-> CapSummary(p, n.claims[v])]
           whole == CapSummary(p, n.evidence)
           capped == [version |-> n.version, observed |-> n.observed,
                      claims |-> claims, evidence |-> whole]
<1>1. ASSUME NEW v \in Values
      PROVE  claims[v] \in Summaries /\ Sound(p, claims[v])
  <2>1. n.claims[v] \in Summaries  BY NodeParts
  <2> QED  BY <2>1, CapParts, CapIsSound
<1>2. claims \in AllClaims /\ SoundClaims(p, claims)
  <2>1. claims = [v \in Values |-> claims[v]]  OBVIOUS
  <2> HIDE DEF claims
  <2> QED  BY <2>1, <1>1 DEF AllClaims, SoundClaims
<1>3. whole \in Summaries /\ Sound(p, whole)
  BY NodeParts, CapParts, CapIsSound
<1>4. n = [version |-> n.version, observed |-> n.observed,
           claims |-> n.claims, evidence |-> n.evidence]
  BY DEF AllNodes
<1> DEFINE c == [n EXCEPT !.claims = claims, !.evidence = whole]
<1>5. CapNode(p, n) = ResolveFieldEvidence(c)  BY DEF CapNode
<1>6. c = capped
  <2>1. c = [n EXCEPT !.claims = claims, !.evidence = whole]  OBVIOUS
  <2> HIDE DEF c, claims, whole
  <2> QED  BY <2>1, <1>4
<1> HIDE DEF claims, whole, c
<1>7. capped \in AllNodes /\ SoundNode(p, capped)
  BY <1>2, <1>3, NodeParts DEF AllNodes, SoundNode
<1> HIDE DEF capped
<1>8. QED  BY <1>5, <1>6, <1>7, ResolveIsSound

-----------------------------------------------------------------------------
(***************************************************************************)
(* The specification.                                                      *)
(***************************************************************************)

LEMMA NoNodeType == NoNode \in AllNodes
<1>1. NoClaims \in AllClaims  BY NoSummaryType DEF NoClaims, AllClaims
<1>2. QED  BY <1>1, NoSummaryType DEF NoNode, AllNodes

\* What a first process finds has no strong summary without sources.
LEMMA StoredIsNamed ==
  ASSUME NEW n \in Stored
  PROVE  /\ n \in AllNodes
         /\ n.evidence.sources = {} => n.evidence.level <= Inferred
         /\ \A v \in Values :
              n.claims[v].sources = {} => n.claims[v].level <= Inferred
<1>1. NoSummary.level <= Inferred  BY DEF NoSummary, Inferred
<1>2. n \in AllNodes  BY StoredAssumption
<1>3. CASE n = NoNode
  <2>1. n.evidence = NoSummary /\ n.claims = NoClaims  BY <1>3 DEF NoNode
  <2> QED  BY <2>1, <1>1, <1>2 DEF NoClaims
<1>4. CASE n # NoNode
  <2>1. n.evidence.sources # {} /\ n.claims = NoClaims
    BY <1>4, StoredAssumption
  <2> QED  BY <2>1, <1>1, <1>2 DEF NoClaims
<1>5. QED  BY <1>3, <1>4

\* The inductive invariant of the ceilings: the batch is as sound as the graph,
\* and a summary that lost its sources could not be capped by them later.
SoundState == SoundNode(policy, batch) /\ SoundNode(policy, node)

LEMMA InitTypeSound == Init => TypeOK /\ SoundState
<1> SUFFICES ASSUME Init PROVE TypeOK /\ SoundState
  OBVIOUS
<1>1. policy \in Policies /\ policy \in TrustPolicies
  BY PolicyType DEF Init
<1>2. batch \in Batches /\ SoundNode(policy, batch)
  BY <1>1, EmptyBatchIsSound DEF Init
<1>3. node \in AllNodes /\ SoundNode(policy, node)
  <2>1. CASE process = "scan"
    <3>1. node = NoNode  BY <2>1 DEF Init
    <3>2. SoundNode(policy, EmptyBatch)  BY <1>1, EmptyBatchIsSound
    <3>3. SoundNode(policy, NoNode)
      BY <3>2 DEF SoundNode, EmptyBatch, NoNode
    <3> QED  BY <3>1, <3>3, NoNodeType
  <2>2. CASE process # "scan"
    <3>1. PICK n \in Stored : node = CapNode(policy, n)  BY <2>2 DEF Init
    <3> QED  BY <3>1, <1>1, StoredIsNamed, CapNodeIsSound
  <2> QED  BY <2>1, <2>2
<1>4. NoObservations \in [CappedObservations -> Nat]  BY DEF NoObservations
<1>5. 0 \in 0..MaxRestarts  BY GraphAssumption
<1>6. QED
  BY <1>1, <1>2, <1>3, <1>4, <1>5 DEF Init, TypeOK, Batches, SoundState

LEMMA NextTypeSound ==
  TypeOK /\ SoundState /\ [Next]_vars => TypeOK' /\ SoundState'
<1> SUFFICES ASSUME TypeOK, SoundState, [Next]_vars
             PROVE  TypeOK' /\ SoundState'
  OBVIOUS
<1>1. /\ policy \in TrustPolicies /\ batch \in Batches
      /\ node \in AllNodes /\ loaded \in AllNodes
      /\ SoundNode(policy, batch) /\ SoundNode(policy, node)
  BY PolicyType DEF TypeOK, SoundState, Batches
<1>2. NoObservations \in [CappedObservations -> Nat]  BY DEF NoObservations
<1>3. ASSUME BatchIsDone
      PROVE  /\ batch' \in Batches /\ SoundNode(policy, batch')
             /\ gathered' \in [CappedObservations -> Nat]
             /\ arrived' \in [CappedObservations -> Nat]
  <2>1. batch' \in Batches /\ SoundNode(policy, batch')
    BY <1>1, <1>3, EmptyBatchIsSound DEF BatchIsDone
  <2>2. ASSUME NEW o \in CappedObservations
        PROVE  arrived[o] + gathered[o] \in Nat
    <3>1. arrived[o] \in Nat /\ gathered[o] \in Nat  BY DEF TypeOK
    <3> QED  BY <3>1
  <2>3. arrived' \in [CappedObservations -> Nat]
    BY <2>2, <1>3 DEF BatchIsDone
  <2> QED  BY <2>1, <2>3, <1>2, <1>3 DEF BatchIsDone
<1>4. ASSUME NEW o \in Observations, AddObservation(o)
      PROVE  TypeOK' /\ SoundState'
  <2>1. batch' \in Batches /\ SoundNode(policy, batch')
    BY <1>1, <1>4, AddNodeIsSound DEF AddObservation
  <2>2. gathered' \in [CappedObservations -> Nat]
    <3>1. Apply(policy, o) \in CappedObservations
      BY DEF TypeOK, CappedObservations
    <3>2. gathered \in [CappedObservations -> Nat]  BY DEF TypeOK
    <3>3. gathered' = [gathered EXCEPT ![Apply(policy, o)] = @ + 1]
      BY <1>4 DEF AddObservation
    <3> QED  BY <3>1, <3>2, <3>3
  <2>3. claimed' \subseteq Observations
    BY <1>4 DEF AddObservation, TypeOK
  <2>4. UNCHANGED <<process, policy, node, restarts, loaded, arrived>>
    BY <1>4 DEF AddObservation
  <2>5. TypeOK'
    BY <2>1, <2>2, <2>3, <2>4 DEF TypeOK, Batches
  <2> QED  BY <2>1, <2>4, <2>5, <1>1 DEF SoundState
<1>5. CASE MergeBatch
  <2>1. Build(batch) \in AllNodes /\ SoundNode(policy, Build(batch))
    BY <1>1, BuildIsSound
  <2>2. node' \in AllNodes /\ SoundNode(policy, node')
    BY <2>1, <1>1, <1>5, MergedIsSound DEF MergeBatch
  <2>3. /\ BatchIsDone /\ process' = process
        /\ UNCHANGED <<policy, restarts, loaded, claimed>>
    BY <1>5 DEF MergeBatch, BatchIsDone
  <2>4. TypeOK'
    BY <1>3, <2>2, <2>3 DEF TypeOK, Batches
  <2> QED  BY <1>3, <2>2, <2>3, <2>4 DEF SoundState
<1>6. CASE WriteScan
  <2>1. node' \in AllNodes /\ SoundNode(policy, node')
    BY <1>1, <1>6, BuildIsSound DEF WriteScan
  <2>2. /\ BatchIsDone /\ process' = "scanned"
        /\ UNCHANGED <<policy, restarts, loaded, claimed>>
    BY <1>6 DEF WriteScan, BatchIsDone
  <2>3. TypeOK'
    BY <1>3, <2>1, <2>2 DEF TypeOK, Batches
  <2> QED  BY <1>3, <2>1, <2>2, <2>3 DEF SoundState
<1>7. ASSUME NEW p \in Policies, Restart(p)
      PROVE  TypeOK' /\ SoundState'
  <2>1. p \in TrustPolicies /\ policy' = p  BY <1>7, PolicyType DEF Restart
  <2>2. CapNode(p, node) \in AllNodes /\ SoundNode(p, CapNode(p, node))
    <3>1. node.evidence.sources = {} => node.evidence.level <= Inferred
      BY <1>1 DEF SoundNode, Sound
    <3>2. \A v \in Values :
            node.claims[v].sources = {} => node.claims[v].level <= Inferred
      BY <1>1 DEF SoundNode, SoundClaims, Sound
    <3> QED  BY <3>1, <3>2, <2>1, <1>1, CapNodeIsSound
  <2>3. /\ node' = CapNode(p, node) /\ loaded' = node'
        /\ batch' = EmptyBatch /\ process' = "collect"
        /\ gathered' = NoObservations /\ arrived' = NoObservations
        /\ claimed' = claimed
    BY <1>7 DEF Restart
  <2>4. restarts' \in 0..MaxRestarts
    <3>1. restarts \in 0..MaxRestarts /\ MaxRestarts \in Nat
      BY GraphAssumption DEF TypeOK
    <3>2. restarts < MaxRestarts /\ restarts' = restarts + 1
      BY <1>7 DEF Restart
    <3> QED  BY <3>1, <3>2
  <2>5. batch' \in Batches /\ SoundNode(p, batch')
    BY <2>1, <2>3, EmptyBatchIsSound
  <2>6. TypeOK'
    BY <1>2, <1>7, <2>1, <2>2, <2>3, <2>4, <2>5 DEF TypeOK, Batches
  <2> QED  BY <2>1, <2>2, <2>3, <2>5, <2>6 DEF SoundState
<1>8. CASE UNCHANGED vars
  BY <1>8 DEF vars, TypeOK, SoundState
<1>9. QED  BY <1>4, <1>5, <1>6, <1>7, <1>8 DEF Next

\* The state of the graph always has its type: among it, a batch never lists more
\* than MaxTraceIDs trace identifiers of a node.
THEOREM GraphTypeCorrect == Spec => []TypeOK
<1>1. Init => TypeOK /\ SoundState  BY InitTypeSound
<1>2. TypeOK /\ SoundState /\ [Next]_vars => (TypeOK /\ SoundState)'
  BY NextTypeSound
<1>3. QED  BY <1>1, <1>2, PTL DEF Spec

\* No summary of the graph is ever above the strongest maximum of its sources under
\* the policy in force, whatever policies came before.
THEOREM StaysWithinCeilings == Spec => []WithinCeilings
<1>1. Init => TypeOK /\ SoundState  BY InitTypeSound
<1>2. TypeOK /\ SoundState /\ [Next]_vars => (TypeOK /\ SoundState)'
  BY NextTypeSound
<1>3. SoundState => WithinCeilings
  BY DEF SoundState, SoundNode, SoundClaims, Sound, WithinCeilings, IsCapped
<1>4. QED  BY <1>1, <1>2, <1>3, PTL DEF Spec

-----------------------------------------------------------------------------
(***************************************************************************)
(* Summaries.                                                              *)
(***************************************************************************)

\* A claim says nothing at all, or counts and has a level.
Neat(s) == s = NoSummary \/ (s.count > 0 /\ s.level >= Inferred)

\* A claim of a node is backed by what the node as a whole is known by.
Backed(whole, s) ==
  /\ s.level <= whole.level /\ s.count <= whole.count
  /\ s.sources \subseteq whole.sources /\ s.last <= whole.last
  /\ s.first # 0 => whole.first \in 1..s.first

LEMMA MergeCovers ==
  ASSUME NEW a \in Summaries, NEW b \in Summaries
  PROVE  /\ Covers(MergeEvidenceSummary(a, b), a)
         /\ MergeEvidenceSummary(a, b).level >= a.level
<1> DEFINE c == MergeEvidenceSummary(a, b)
<1>1. /\ c.level = StrongerLevel(a.level, b.level) /\ c.count = a.count + b.count
      /\ c.sources = a.sources \cup b.sources
      /\ c.first = Earlier(a.first, b.first) /\ c.last = Later(a.last, b.last)
  BY MergeParts
<1> HIDE DEF c
<1>2. c.level >= a.level  BY <1>1, SummaryNumbers DEF StrongerLevel
<1>3. c.count >= a.count  BY <1>1, SummaryNumbers
<1>4. c.last >= a.last  BY <1>1, SummaryNumbers DEF Later
<1>5. a.first # 0 => c.first \in 1..a.first
  BY <1>1, SummaryNumbers DEF Earlier
<1>6. Covers(c, a)  BY <1>1, <1>3, <1>4, <1>5 DEF Covers
<1> QED  BY <1>2, <1>6 DEF c

LEMMA MergeIsNeat ==
  ASSUME NEW a \in Summaries, NEW b \in Summaries, Neat(a), Neat(b)
  PROVE  Neat(MergeEvidenceSummary(a, b))
<1>1. CASE a = NoSummary  BY <1>1, MergeIdentity
<1>2. CASE a # NoSummary
  <2>1. a.count > 0 /\ a.level >= 1  BY <1>2 DEF Neat, Inferred
  <2> DEFINE c == MergeEvidenceSummary(a, b)
  <2>2. c.level = StrongerLevel(a.level, b.level) /\ c.count = a.count + b.count
    BY MergeParts
  <2> HIDE DEF c
  <2>3. c.count > 0 /\ c.level >= 1
    BY <2>1, <2>2, SummaryNumbers DEF StrongerLevel
  <2> QED  BY <2>3 DEF c, Neat, Inferred
<1> QED  BY <1>1, <1>2

LEMMA NothingIsBacked ==
  ASSUME NEW w \in Summaries
  PROVE  Neat(NoSummary) /\ Backed(w, NoSummary)
BY SummaryNumbers, NothingSaid DEF Neat, Backed

LEMMA MergeIsBacked ==
  ASSUME NEW w \in Summaries, NEW x \in Summaries, NEW s \in Summaries,
         NEW t \in Summaries, Backed(w, s), Backed(x, t)
  PROVE  Backed(MergeEvidenceSummary(w, x), MergeEvidenceSummary(s, t))
<1> DEFINE c == MergeEvidenceSummary(w, x)
           d == MergeEvidenceSummary(s, t)
<1>1. /\ c.level = StrongerLevel(w.level, x.level) /\ c.count = w.count + x.count
      /\ c.sources = w.sources \cup x.sources
      /\ c.first = Earlier(w.first, x.first) /\ c.last = Later(w.last, x.last)
  BY MergeParts
<1>2. /\ d.level = StrongerLevel(s.level, t.level) /\ d.count = s.count + t.count
      /\ d.sources = s.sources \cup t.sources
      /\ d.first = Earlier(s.first, t.first) /\ d.last = Later(s.last, t.last)
  BY MergeParts
<1> HIDE DEF c, d
<1>3. d.level <= c.level
  BY <1>1, <1>2, SummaryNumbers DEF StrongerLevel, Backed
<1>4. d.count <= c.count  BY <1>1, <1>2, SummaryNumbers DEF Backed
<1>5. d.sources \subseteq c.sources  BY <1>1, <1>2 DEF Backed
<1>6. d.last <= c.last  BY <1>1, <1>2, SummaryNumbers DEF Later, Backed
<1>7. d.first # 0 => c.first \in 1..d.first
  BY <1>1, <1>2, SummaryNumbers DEF Earlier, Backed
<1> QED  BY <1>3, <1>4, <1>5, <1>6, <1>7 DEF Backed, c, d

\* A claim stays backed while its node hears more.
LEMMA StaysBacked ==
  ASSUME NEW w \in Summaries, NEW x \in Summaries, NEW s \in Summaries, Backed(w, s)
  PROVE  Backed(MergeEvidenceSummary(w, x), s)
<1>1. MergeEvidenceSummary(s, NoSummary) = s
  BY MergeCommutes, MergeIdentity, NoSummaryType
<1>2. Backed(MergeEvidenceSummary(w, x), MergeEvidenceSummary(s, NoSummary))
  BY MergeIsBacked, NothingIsBacked, NoSummaryType
<1> QED  BY <1>1, <1>2

\* What a limit or a cap of identifiers leaves alone.
LEMMA LimitKeeps ==
  ASSUME NEW s \in Summaries
  PROVE  /\ LimitTraces(s) \in Summaries
         /\ LimitTraces(s).level = s.level /\ LimitTraces(s).count = s.count
         /\ LimitTraces(s).sources = s.sources
         /\ LimitTraces(s).first = s.first /\ LimitTraces(s).last = s.last
<1> DEFINE kept == Limited(s.traces)
<1>1. LimitTraces(s) = [s EXCEPT !.traces = kept]  BY DEF LimitTraces
<1>2. LimitTraces(s) \in Summaries  BY LimitParts
<1> HIDE DEF kept
<1> QED  BY <1>1, <1>2 DEF Summaries

LEMMA LimitIsNeat ==
  ASSUME NEW s \in Summaries, Neat(s)
  PROVE  Neat(LimitTraces(s))
<1>1. CASE s = NoSummary
  <2>1. NoSummary.traces = {}  BY DEF NoSummary
  <2>2. Limited({}) = {}  BY DEF Limited
  <2>3. LimitTraces(s) = NoSummary
    BY <1>1, <2>1, <2>2 DEF LimitTraces, NoSummary
  <2> QED  BY <2>3 DEF Neat
<1>2. CASE s # NoSummary
  BY <1>2, LimitKeeps DEF Neat
<1> QED  BY <1>1, <1>2

LEMMA CapIsNeat ==
  ASSUME NEW p \in TrustPolicies, NEW s \in Summaries, Neat(s)
  PROVE  Neat(CapSummary(p, s))
<1>1. Ceiling(p, s.sources) \in 1..4  BY CeilingType DEF Inferred, Verified
<1>2. CASE s = NoSummary
  <2>1. CapSummary(p, s) = s  BY <1>1, <1>2, NothingSaid DEF CapSummary
  <2> QED  BY <2>1
<1>3. CASE s # NoSummary
  <2>1. s.count > 0 /\ s.level >= 1  BY <1>3 DEF Neat, Inferred
  <2>2. CapSummary(p, s).count > 0 /\ CapSummary(p, s).level >= 1
    BY <1>1, <2>1, CapParts, SummaryNumbers
  <2> QED  BY <2>2 DEF Neat, Inferred
<1> QED  BY <1>2, <1>3

\* Capping a node caps its claims no less: they have fewer sources.
LEMMA CapIsBacked ==
  ASSUME NEW p \in TrustPolicies, NEW w \in Summaries, NEW s \in Summaries,
         Backed(w, s), s.sources = {} => s.level <= Inferred
  PROVE  Backed(CapSummary(p, w), CapSummary(p, s))
<1> DEFINE c == CapSummary(p, w)
           d == CapSummary(p, s)
           above == Ceiling(p, w.sources)
           below == Ceiling(p, s.sources)
<1>1. /\ c.level \in {w.level, above} /\ c.sources = w.sources /\ c.count = w.count
      /\ c.first = w.first /\ c.last = w.last
  BY CapParts
<1>2. /\ d.level <= below /\ d.level <= s.level /\ d.sources = s.sources
      /\ d.count = s.count /\ d.first = s.first /\ d.last = s.last
      /\ d \in Summaries
  BY CapParts
<1>3. above \in 1..4 /\ below \in 1..4  BY CeilingType DEF Inferred, Verified
<1>4. s.sources # {} => below <= above
  BY CeilingGrows DEF Backed
<1> HIDE DEF c, d, above, below
<1>5. d.level <= above
  <2>1. CASE s.sources = {}
    <3>1. s.level <= 1  BY <2>1 DEF Inferred
    <3> QED  BY <3>1, <1>2, <1>3, SummaryNumbers
  <2>2. CASE s.sources # {}
    BY <2>2, <1>2, <1>3, <1>4, SummaryNumbers
  <2> QED  BY <2>1, <2>2
<1>6. d.level <= w.level  BY <1>2, SummaryNumbers DEF Backed
<1>7. d.level <= c.level  BY <1>1, <1>5, <1>6
<1> QED  BY <1>1, <1>2, <1>7 DEF Backed, c, d

LEMMA CoversTransitive ==
  ASSUME NEW a \in Summaries, NEW b \in Summaries, NEW c \in Summaries,
         Covers(a, b), Covers(b, c)
  PROVE  Covers(a, c)
<1>1. a.count >= c.count /\ a.last >= c.last  BY SummaryNumbers DEF Covers
<1>2. c.sources \subseteq a.sources  BY DEF Covers
<1>3. c.first # 0 => a.first \in 1..c.first  BY SummaryNumbers DEF Covers
<1> QED  BY <1>1, <1>2, <1>3 DEF Covers

LEMMA CoversItself ==
  ASSUME NEW a \in Summaries
  PROVE  Covers(a, a) /\ Covers(a, NoSummary)
BY SummaryNumbers, NothingSaid DEF Covers

LEMMA CoversByParts ==
  ASSUME NEW a, NEW b, NEW c, Covers(a, c),
         b.count = a.count, b.sources = a.sources, b.first = a.first, b.last = a.last
  PROVE  Covers(b, c)
BY DEF Covers

-----------------------------------------------------------------------------
(***************************************************************************)
(* Selection.                                                              *)
(***************************************************************************)

\* What is selected depends on levels, counts and times, not on trace identifiers.
LEMMA SameSelection ==
  ASSUME NEW a \in AllClaims, NEW b \in AllClaims,
         \A v \in Values : /\ a[v].level = b[v].level /\ a[v].count = b[v].count
                           /\ a[v].last = b[v].last
  PROVE  /\ Candidates(a) = Candidates(b)
         /\ Candidates(a) # {} => Selected(a) = Selected(b)
<1>1. Candidates(a) = Candidates(b)  BY DEF Candidates
<1>2. ASSUME Candidates(a) # {}
      PROVE  Selected(a) = Selected(b)
  <2> DEFINE x == Selected(a)
             y == Selected(b)
  <2>1. /\ x \in Candidates(a) /\ x \in Values
        /\ \A w \in Candidates(a) \ {x} : FieldValuePreferred(a, x, w)
    BY <1>2, SelectedIsPreferred
  <2>2. /\ y \in Candidates(a) /\ y \in Values
        /\ \A w \in Candidates(a) \ {y} : FieldValuePreferred(b, y, w)
    BY <1>1, <1>2, SelectedIsPreferred
  <2> HIDE DEF x, y
  <2>3. ASSUME x # y
        PROVE  FALSE
    <3>1. FieldValuePreferred(a, x, y)  BY <2>1, <2>2, <2>3
    <3>2. FieldValuePreferred(b, y, x)  BY <2>1, <2>2, <2>3
    <3>3. FieldValuePreferred(a, y, x)
      BY <2>1, <2>2, <3>2 DEF FieldValuePreferred
    <3> QED  BY <2>1, <2>2, <3>1, <3>3, PreferenceIsTotalOrder
  <2> QED  BY <2>3 DEF x, y
<1> QED  BY <1>1, <1>2

-----------------------------------------------------------------------------
(***************************************************************************)
(* Nodes.                                                                  *)
(***************************************************************************)

\* A node's claims are made of what it is known by, and only one that is known by
\* something has values.
Firm(n) ==
  n.version # 0 \/ n.observed # {} => n.evidence.count > 0 /\ n.evidence.level >= 1
GoodClaims(n) ==
  \A v \in Values : Neat(n.claims[v]) /\ Backed(n.evidence, n.claims[v])
Good(n) == n \in AllNodes /\ GoodClaims(n) /\ Firm(n)

\* It shows what its claims say.
Tidy(n) ==
  Candidates(n.claims) # {} => /\ n.version = Selected(n.claims)
                               /\ n.observed = Candidates(n.claims)

\* It shows nothing else either: it has been upgraded.
Whole(n) == Tidy(n) /\ n.observed = Candidates(n.claims)

LEMMA ResolveShows ==
  ASSUME NEW n \in AllNodes
  PROVE  LET r == ResolveFieldEvidence(n)
             C == Candidates(n.claims) IN
           /\ C = {} => r = n
           /\ C # {} => r.version = Selected(n.claims) /\ r.observed = n.observed \cup C
<1> DEFINE C == Candidates(n.claims)
           chosen == Selected(n.claims)
<1>1. ResolveFieldEvidence(n) =
        IF C = {} THEN n
        ELSE [n EXCEPT !.version = chosen, !.observed = @ \cup C]
  BY DEF ResolveFieldEvidence
<1> HIDE DEF C, chosen
<1>2. n = [version |-> n.version, observed |-> n.observed,
           claims |-> n.claims, evidence |-> n.evidence]
  BY DEF AllNodes
<1>3. C # {} => ResolveFieldEvidence(n) =
          [version |-> chosen, observed |-> n.observed \cup C,
           claims |-> n.claims, evidence |-> n.evidence]
  BY <1>1, <1>2
<1>4. C # {} => /\ ResolveFieldEvidence(n).version = chosen
                /\ ResolveFieldEvidence(n).observed = n.observed \cup C
  BY <1>3
<1>5. C = {} => ResolveFieldEvidence(n) = n  BY <1>1
<1> QED  BY <1>4, <1>5 DEF C, chosen

LEMMA ResolveIsGood ==
  ASSUME NEW n \in AllNodes, GoodClaims(n), Firm(n)
  PROVE  LET r == ResolveFieldEvidence(n) IN
           /\ Good(r) /\ r.claims = n.claims /\ r.evidence = n.evidence
           /\ n.observed \subseteq r.observed
           /\ n.observed \subseteq Candidates(n.claims) => Whole(r)
           /\ (Candidates(n.claims) # {} => n.observed \subseteq Candidates(n.claims)) => Tidy(r)
<1> DEFINE r == ResolveFieldEvidence(n)
           C == Candidates(n.claims)
<1>1. r \in AllNodes /\ r.claims = n.claims /\ r.evidence = n.evidence
  BY ResolveParts
<1>2. /\ C = {} => r = n
      /\ C # {} => r.version = Selected(n.claims) /\ r.observed = n.observed \cup C
  BY ResolveShows
<1>3. C # {} => n.evidence.count > 0 /\ n.evidence.level >= 1
  <2> SUFFICES ASSUME C # {} PROVE n.evidence.count > 0 /\ n.evidence.level >= 1
    OBVIOUS
  <2>1. PICK v \in Values : n.claims[v].count > 0  BY DEF Candidates
  <2>2. /\ n.claims[v] \in Summaries /\ n.evidence \in Summaries
        /\ Neat(n.claims[v]) /\ Backed(n.evidence, n.claims[v])
    BY NodeParts DEF GoodClaims
  <2>3. n.claims[v] # NoSummary  BY <2>1, NothingSaid
  <2>4. n.claims[v].level >= 1  BY <2>2, <2>3 DEF Neat, Inferred
  <2>5. n.evidence.level >= 1  BY <2>2, <2>4, SummaryNumbers DEF Backed
  <2>6. n.evidence.count > 0  BY <2>1, <2>2, SummaryNumbers DEF Backed
  <2> QED  BY <2>5, <2>6
<1> HIDE DEF r
<1>4. GoodClaims(r)  BY <1>1 DEF GoodClaims
<1>5. Firm(r)
  <2>1. CASE C = {}  BY <2>1, <1>2
  <2>2. CASE C # {}  BY <2>2, <1>1, <1>3 DEF Firm
  <2> QED  BY <2>1, <2>2
<1>6. Candidates(r.claims) = C  BY <1>1
<1> HIDE DEF C
<1>7. n.observed \subseteq r.observed  BY <1>2
<1>8. (C # {} => n.observed \subseteq C) => Tidy(r)
  BY <1>1, <1>2, <1>6 DEF Tidy
<1>9. n.observed \subseteq C => r.observed = C
  BY <1>2
<1>10. n.observed \subseteq C => Whole(r)
  BY <1>6, <1>8, <1>9 DEF Whole
<1> QED  BY <1>1, <1>4, <1>5, <1>7, <1>8, <1>10 DEF Good, r, C

\* The claims that an upgrade makes are of the node they are made from.
LEMMA LegacyIsBacked ==
  ASSUME NEW w \in Summaries, NEW s \in Summaries, w.count > 0, w.level >= 1,
         s.level = 1, s.count = 1, s.sources = w.sources,
         \/ s.first = w.first /\ s.last = w.last
         \/ s.first = 0 /\ s.last = 0
  PROVE  Neat(s) /\ Backed(w, s)
<1>1. Neat(s)  BY DEF Neat, Inferred
<1>2. s.level <= w.level /\ s.count <= w.count  BY SummaryNumbers
<1>3. s.last <= w.last  BY SummaryNumbers
<1>4. s.first # 0 => w.first \in 1..s.first  BY SummaryNumbers
<1> QED  BY <1>1, <1>2, <1>3, <1>4 DEF Backed

\* A level of a claim comes from a claim or is the least.
Upgraded(n) == ResolveFieldEvidence(EnsureFieldEvidence(n))

LEMMA UpgradedIsGood ==
  ASSUME NEW n, Good(n)
  PROVE  /\ Good(Upgraded(n)) /\ Whole(Upgraded(n))
         /\ Upgraded(n).evidence = n.evidence
         /\ n.observed \subseteq Upgraded(n).observed
         /\ \A v \in Values :
              /\ Covers(Upgraded(n).claims[v], n.claims[v])
              /\ Upgraded(n).claims[v].level >= n.claims[v].level
              /\ Upgraded(n).claims[v].level \in {n.claims[v].level, 1}
<1> DEFINE e == EnsureFieldEvidence(n)
           C == Candidates(n.claims)
<1>1. n \in AllNodes /\ GoodClaims(n) /\ Firm(n)  BY DEF Good
<1>2. /\ e \in AllNodes
      /\ e.version = n.version /\ e.observed = n.observed /\ e.evidence = n.evidence
      /\ \A v \in Values :
           \/ v \in C /\ e.claims[v] = n.claims[v]
           \/ /\ v \notin C /\ (v = n.version \/ v \in n.observed)
              /\ e.claims[v].level = 1 /\ e.claims[v].count = 1
              /\ e.claims[v].sources = n.evidence.sources
              /\ \/ e.claims[v].first = n.evidence.first /\ e.claims[v].last = n.evidence.last
                 \/ e.claims[v].first = 0 /\ e.claims[v].last = 0
           \/ v \notin C /\ v # n.version /\ v \notin n.observed /\ e.claims[v] = NoSummary
  BY <1>1, EnsureParts
<1>3. n.evidence \in Summaries /\ n.observed \in SUBSET Values
      /\ \A v \in Values : n.claims[v] \in Summaries /\ e.claims[v] \in Summaries
  <2> HIDE DEF e
  <2> QED  BY <1>1, <1>2, NodeParts
<1> HIDE DEF e
<1>4. ASSUME NEW v \in Values
      PROVE  v \notin C => n.claims[v] = NoSummary
  <2>1. v \notin C => ~ n.claims[v].count > 0  BY DEF Candidates
  <2> QED  BY <1>1, <2>1 DEF GoodClaims, Neat
<1>5. ASSUME NEW v \in Values
      PROVE  Neat(e.claims[v]) /\ Backed(n.evidence, e.claims[v])
  <2>1. CASE e.claims[v] = n.claims[v]  BY <1>1, <2>1 DEF GoodClaims
  <2>2. CASE e.claims[v] = NoSummary  BY <2>2, <1>3, NothingIsBacked
  <2>3. CASE e.claims[v] # n.claims[v] /\ e.claims[v] # NoSummary
    <3>1. /\ v = n.version \/ v \in n.observed
          /\ e.claims[v].level = 1 /\ e.claims[v].count = 1
          /\ e.claims[v].sources = n.evidence.sources
          /\ \/ e.claims[v].first = n.evidence.first /\ e.claims[v].last = n.evidence.last
             \/ e.claims[v].first = 0 /\ e.claims[v].last = 0
      BY <1>2, <2>3
    <3>2. n.evidence.count > 0 /\ n.evidence.level >= 1
      BY <3>1, <1>1, EvidenceAssumption DEF Firm
    <3> QED  BY <3>1, <3>2, <1>3, LegacyIsBacked
  <2> QED  BY <2>1, <2>2, <2>3
<1>6. GoodClaims(e) /\ Firm(e)
  BY <1>1, <1>2, <1>5 DEF GoodClaims, Firm
<1>7. e.observed \subseteq Candidates(e.claims)
  <2> SUFFICES ASSUME NEW v \in Values, v \in n.observed PROVE e.claims[v].count > 0
    BY <1>2, <1>3 DEF Candidates
  <2>1. v \in C => n.claims[v].count > 0  BY DEF Candidates
  <2> QED  BY <1>2, <2>1
<1>8. /\ Good(Upgraded(n)) /\ Whole(Upgraded(n))
      /\ Upgraded(n).claims = e.claims /\ Upgraded(n).evidence = e.evidence
      /\ e.observed \subseteq Upgraded(n).observed
  BY <1>2, <1>6, <1>7, ResolveIsGood DEF Upgraded, e
<1>9. ASSUME NEW v \in Values
      PROVE  /\ Covers(e.claims[v], n.claims[v])
             /\ e.claims[v].level >= n.claims[v].level
             /\ e.claims[v].level \in {n.claims[v].level, 1}
  <2>1. CASE v \in C
    <3>1. e.claims[v] = n.claims[v]  BY <1>2, <2>1
    <3> QED  BY <3>1, <1>3, CoversItself, SummaryNumbers
  <2>2. CASE v \notin C
    <3>1. n.claims[v] = NoSummary  BY <2>2, <1>4
    <3>2. e.claims[v] = NoSummary \/ e.claims[v].level = 1  BY <1>2, <2>2
    <3> QED  BY <3>1, <3>2, <1>3, CoversItself, SummaryNumbers, NothingSaid
  <2> QED  BY <2>1, <2>2
<1> QED  BY <1>2, <1>8, <1>9

LEMMA MergeNodeIsGood ==
  ASSUME NEW a, NEW b, Good(a), Whole(a), Good(b), Whole(b)
  PROVE  LET m == MergeNode(a, b) IN
           /\ Good(m) /\ Whole(m)
           /\ m.evidence = MergeEvidenceSummary(a.evidence, b.evidence)
           /\ \A v \in Values :
                m.claims[v] = MergeEvidenceSummary(a.claims[v], b.claims[v])
           /\ a.observed \subseteq m.observed
<1> DEFINE claims == MergeClaims(a.claims, b.claims)
           whole == MergeEvidenceSummary(a.evidence, b.evidence)
           both == [version |-> a.version, observed |-> a.observed \cup b.observed,
                    claims |-> claims, evidence |-> whole]
<1>1. /\ a \in AllNodes /\ GoodClaims(a) /\ Firm(a)
      /\ b \in AllNodes /\ GoodClaims(b) /\ Firm(b)
      /\ a.observed = Candidates(a.claims) /\ b.observed = Candidates(b.claims)
  BY DEF Good, Whole
<1>2. /\ a.evidence \in Summaries /\ b.evidence \in Summaries
      /\ \A v \in Values : a.claims[v] \in Summaries /\ b.claims[v] \in Summaries
  BY <1>1, NodeParts
<1>3. \A v \in Values :
        claims[v] = MergeEvidenceSummary(a.claims[v], b.claims[v])
  BY DEF MergeClaims
<1>4. ASSUME NEW v \in Values
      PROVE  /\ claims[v] \in Summaries /\ Neat(claims[v]) /\ Backed(whole, claims[v])
             /\ claims[v].count = a.claims[v].count + b.claims[v].count
  <2>1. /\ Neat(a.claims[v]) /\ Backed(a.evidence, a.claims[v])
        /\ Neat(b.claims[v]) /\ Backed(b.evidence, b.claims[v])
    BY <1>1 DEF GoodClaims
  <2>2. /\ a.claims[v] \in Summaries /\ b.claims[v] \in Summaries
        /\ claims[v] = MergeEvidenceSummary(a.claims[v], b.claims[v])
    BY <1>2, <1>3
  <2> HIDE DEF claims
  <2>3. claims[v] \in Summaries /\ Neat(claims[v])
    BY <2>1, <2>2, MergeType, MergeIsNeat
  <2>4. Backed(whole, claims[v])
    BY <1>2, <2>1, <2>2, MergeIsBacked
  <2>5. claims[v].count = a.claims[v].count + b.claims[v].count
    BY <2>2, MergeParts
  <2> QED  BY <2>3, <2>4, <2>5
<1>5. claims = [v \in Values |-> claims[v]]  BY DEF MergeClaims
<1>6. MergeNode(a, b) = ResolveFieldEvidence(both)  BY DEF MergeNode
<1> HIDE DEF claims
<1>7. claims \in AllClaims  BY <1>4, <1>5 DEF AllClaims
<1>8. whole \in Summaries /\ Covers(whole, a.evidence) /\ whole.level >= a.evidence.level
  BY <1>2, MergeType, MergeCovers
<1>9. Covers(whole, b.evidence) /\ whole.level >= b.evidence.level
  BY <1>2, MergeCommutes, MergeCovers
<1> HIDE DEF whole
<1>10. /\ both \in AllNodes /\ both.version = a.version
       /\ both.observed = a.observed \cup b.observed
       /\ both.claims = claims /\ both.evidence = whole
  BY <1>1, <1>7, <1>8, NodeParts DEF AllNodes
<1> HIDE DEF both
<1>11. GoodClaims(both)  BY <1>4, <1>10 DEF GoodClaims
<1>12. Firm(both)
  <2> SUFFICES ASSUME both.version # 0 \/ both.observed # {}
               PROVE  whole.count > 0 /\ whole.level >= 1
    BY <1>10 DEF Firm
  <2>1. CASE a.version # 0 \/ a.observed # {}
    <3>1. a.evidence.count > 0 /\ a.evidence.level >= 1  BY <1>1, <2>1 DEF Firm
    <3> QED  BY <1>2, <1>8, <3>1, SummaryNumbers DEF Covers
  <2>2. CASE a.version = 0 /\ a.observed = {}
    <3>1. b.observed # {}  BY <1>10, <2>2
    <3>2. b.evidence.count > 0 /\ b.evidence.level >= 1  BY <1>1, <3>1 DEF Firm
    <3> QED  BY <1>2, <1>8, <1>9, <3>2, SummaryNumbers DEF Covers
  <2> QED  BY <2>1, <2>2
<1>13. both.observed \subseteq Candidates(claims)
  <2> SUFFICES ASSUME NEW v \in Values, v \in a.observed \cup b.observed
               PROVE  claims[v].count > 0
    BY <1>1, <1>10, NodeParts DEF Candidates
  <2>1. a.claims[v].count > 0 \/ b.claims[v].count > 0
    BY <1>1 DEF Candidates
  <2> QED  BY <1>2, <1>4, <2>1, SummaryNumbers
<1>14. /\ Good(MergeNode(a, b)) /\ Whole(MergeNode(a, b))
       /\ MergeNode(a, b).claims = claims /\ MergeNode(a, b).evidence = whole
       /\ both.observed \subseteq MergeNode(a, b).observed
  BY <1>6, <1>10, <1>11, <1>12, <1>13, ResolveIsGood
<1> QED  BY <1>3, <1>10, <1>14 DEF whole

\* A limit on trace identifiers changes neither what is shown nor what backs it.
LEMMA LimitedIsGood ==
  ASSUME NEW n, Good(n), Whole(n), NEW r, r \in AllNodes,
         r.version = n.version, r.observed = n.observed,
         r.evidence = LimitTraces(n.evidence),
         \A v \in Values : r.claims[v] = LimitTraces(n.claims[v])
  PROVE  Good(r) /\ Whole(r)
<1>1. /\ n \in AllNodes /\ GoodClaims(n) /\ Firm(n)
      /\ n.observed = Candidates(n.claims) /\ Tidy(n)
  BY DEF Good, Whole
<1>2. /\ n.evidence \in Summaries /\ n.claims \in AllClaims /\ r.claims \in AllClaims
      /\ \A v \in Values : n.claims[v] \in Summaries
  BY <1>1, NodeParts
<1>3. /\ r.evidence.level = n.evidence.level /\ r.evidence.count = n.evidence.count
      /\ r.evidence.sources = n.evidence.sources
      /\ r.evidence.first = n.evidence.first /\ r.evidence.last = n.evidence.last
  BY <1>2, LimitKeeps
<1>4. ASSUME NEW v \in Values
      PROVE  /\ r.claims[v].level = n.claims[v].level
             /\ r.claims[v].count = n.claims[v].count
             /\ r.claims[v].sources = n.claims[v].sources
             /\ r.claims[v].first = n.claims[v].first
             /\ r.claims[v].last = n.claims[v].last
             /\ Neat(r.claims[v])
  <2>1. n.claims[v] \in Summaries /\ Neat(n.claims[v])
    BY <1>1, <1>2 DEF GoodClaims
  <2> QED  BY <2>1, LimitKeeps, LimitIsNeat
<1>5. GoodClaims(r)
  <2> SUFFICES ASSUME NEW v \in Values
               PROVE  Neat(r.claims[v]) /\ Backed(r.evidence, r.claims[v])
    BY DEF GoodClaims
  <2>1. Backed(n.evidence, n.claims[v])  BY <1>1 DEF GoodClaims
  <2> QED  BY <1>3, <1>4, <2>1 DEF Backed
<1>6. Firm(r)  BY <1>1, <1>3 DEF Firm
<1>7. /\ Candidates(r.claims) = Candidates(n.claims)
      /\ Candidates(n.claims) # {} => Selected(n.claims) = Selected(r.claims)
  BY <1>2, <1>4, SameSelection
<1>8. Tidy(r)  BY <1>1, <1>7 DEF Tidy
<1> QED  BY <1>1, <1>5, <1>6, <1>7, <1>8 DEF Good, Whole

\* Merge.
LEMMA MergedIsGood ==
  ASSUME NEW a, NEW b, Good(a), Good(b)
  PROVE  LET m == Merge(a, b) IN
           /\ Good(m) /\ Whole(m)
           /\ Covers(m.evidence, a.evidence) /\ m.evidence.level >= a.evidence.level
           /\ a.observed \subseteq m.observed
           /\ \A v \in Values :
                /\ Covers(m.claims[v], a.claims[v])
                /\ m.claims[v].level >= a.claims[v].level
                /\ m.claims[v].level \in {a.claims[v].level, b.claims[v].level, 1}
<1> DEFINE x == Upgraded(a)
           y == Upgraded(b)
           n == MergeNode(x, y)
           m == Merge(a, b)
           claims == [v \in Values |-> LimitTraces(n.claims[v])]
           whole == LimitTraces(n.evidence)
<1>1. /\ Good(x) /\ Whole(x) /\ x.evidence = a.evidence /\ a.observed \subseteq x.observed
      /\ \A v \in Values :
           /\ Covers(x.claims[v], a.claims[v])
           /\ x.claims[v].level >= a.claims[v].level
           /\ x.claims[v].level \in {a.claims[v].level, 1}
  BY UpgradedIsGood
<1>2. /\ Good(y) /\ Whole(y) /\ y.evidence = b.evidence
      /\ \A v \in Values : y.claims[v].level \in {b.claims[v].level, 1}
  BY UpgradedIsGood
<1>3. m = [n EXCEPT !.claims = [v \in Values |-> LimitTraces(@[v])],
                    !.evidence = LimitTraces(@)]
  BY DEF Merge, Upgraded
<1> HIDE DEF x, y
<1>4. /\ Good(n) /\ Whole(n)
      /\ n.evidence = MergeEvidenceSummary(x.evidence, y.evidence)
      /\ \A v \in Values :
           n.claims[v] = MergeEvidenceSummary(x.claims[v], y.claims[v])
      /\ x.observed \subseteq n.observed
  BY <1>1, <1>2, MergeNodeIsGood
<1> HIDE DEF n, m
<1>5. n \in AllNodes  BY <1>4 DEF Good
<1>6. n = [version |-> n.version, observed |-> n.observed,
           claims |-> n.claims, evidence |-> n.evidence]
  BY <1>5 DEF AllNodes
<1>7. m = [version |-> n.version, observed |-> n.observed,
           claims |-> claims, evidence |-> whole]
  BY <1>3, <1>6
<1>8. n.evidence \in Summaries /\ \A v \in Values : n.claims[v] \in Summaries
  BY <1>5, NodeParts
<1>9. \A v \in Values : claims[v] = LimitTraces(n.claims[v]) /\ claims[v] \in Summaries
  BY <1>8, LimitKeeps
<1>10. claims = [v \in Values |-> claims[v]]  OBVIOUS
<1>11. whole \in Summaries  BY <1>8, LimitKeeps
<1> HIDE DEF claims
<1>12. claims \in AllClaims  BY <1>9, <1>10 DEF AllClaims
<1>13. /\ m \in AllNodes /\ m.version = n.version /\ m.observed = n.observed
       /\ m.claims = claims /\ m.evidence = LimitTraces(n.evidence)
  <2> HIDE DEF whole
  <2>1. /\ m \in AllNodes /\ m.version = n.version /\ m.observed = n.observed
        /\ m.claims = claims /\ m.evidence = whole
    BY <1>5, <1>7, <1>11, <1>12, NodeParts DEF AllNodes
  <2> QED  BY <2>1 DEF whole
<1>14. Good(m) /\ Whole(m)
  BY <1>4, <1>9, <1>13, LimitedIsGood
<1>15. /\ x \in AllNodes /\ y \in AllNodes /\ a \in AllNodes /\ b \in AllNodes
  BY <1>1, <1>2 DEF Good
<1>16. Covers(m.evidence, a.evidence) /\ m.evidence.level >= a.evidence.level
  <2>1. x.evidence \in Summaries /\ y.evidence \in Summaries  BY <1>15, NodeParts
  <2>2. Covers(n.evidence, a.evidence) /\ n.evidence.level >= a.evidence.level
    BY <1>1, <1>4, <2>1, MergeCovers
  <2> QED  BY <1>8, <1>13, <2>2, LimitKeeps, CoversByParts
<1>17. ASSUME NEW v \in Values
       PROVE  /\ Covers(m.claims[v], a.claims[v])
              /\ m.claims[v].level >= a.claims[v].level
              /\ m.claims[v].level \in {a.claims[v].level, b.claims[v].level, 1}
  <2> DEFINE s == x.claims[v]
             t == y.claims[v]
  <2>1. /\ s \in Summaries /\ t \in Summaries
        /\ a.claims[v] \in Summaries /\ b.claims[v] \in Summaries
    BY <1>15, NodeParts
  <2>2. /\ Covers(s, a.claims[v]) /\ s.level >= a.claims[v].level
        /\ s.level \in {a.claims[v].level, 1} /\ t.level \in {b.claims[v].level, 1}
    BY <1>1, <1>2
  <2>3. n.claims[v] = MergeEvidenceSummary(s, t) /\ n.claims[v] \in Summaries
    BY <1>4, <1>8
  <2> HIDE DEF s, t
  <2>4. Covers(n.claims[v], s) /\ n.claims[v].level >= s.level
    BY <2>1, <2>3, MergeCovers
  <2>5. n.claims[v].level \in {s.level, t.level}
    BY <2>3, MergeParts DEF StrongerLevel
  <2>6. Covers(n.claims[v], a.claims[v])
    BY <2>1, <2>2, <2>3, <2>4, CoversTransitive
  <2>7. n.claims[v].level >= a.claims[v].level
    BY <2>1, <2>2, <2>3, <2>4, SummaryNumbers
  <2>8. /\ m.claims[v].level = n.claims[v].level /\ m.claims[v].count = n.claims[v].count
        /\ m.claims[v].sources = n.claims[v].sources
        /\ m.claims[v].first = n.claims[v].first /\ m.claims[v].last = n.claims[v].last
    BY <1>9, <1>13, <2>3, LimitKeeps
  <2>9. Covers(m.claims[v], a.claims[v])  BY <2>6, <2>8, CoversByParts
  <2> QED  BY <2>2, <2>5, <2>7, <2>8, <2>9
<1> QED  BY <1>1, <1>4, <1>13, <1>14, <1>16, <1>17 DEF m

\* CapNode: a claim has no fewer sources than it had, so what backs it still does.
LEMMA CapNodeIsGood ==
  ASSUME NEW p \in TrustPolicies, NEW n, Good(n), Tidy(n),
         \A v \in Values : n.claims[v].sources = {} => n.claims[v].level <= Inferred
  PROVE  LET c == CapNode(p, n) IN
           /\ Good(c) /\ Tidy(c)
           /\ Covers(c.evidence, n.evidence)
           /\ n.observed \subseteq c.observed
           /\ \A v \in Values : /\ Covers(c.claims[v], n.claims[v])
                                /\ c.claims[v].level <= n.claims[v].level
<1> DEFINE claims == [v \in Values |-> CapSummary(p, n.claims[v])]
           whole == CapSummary(p, n.evidence)
           capped == [version |-> n.version, observed |-> n.observed,
                      claims |-> claims, evidence |-> whole]
<1>1. n \in AllNodes /\ GoodClaims(n) /\ Firm(n)  BY DEF Good
<1>2. n.evidence \in Summaries /\ \A v \in Values : n.claims[v] \in Summaries
  BY <1>1, NodeParts
<1>3. n = [version |-> n.version, observed |-> n.observed,
           claims |-> n.claims, evidence |-> n.evidence]
  BY <1>1 DEF AllNodes
<1> DEFINE c == [n EXCEPT !.claims = claims, !.evidence = whole]
<1>4. CapNode(p, n) = ResolveFieldEvidence(c)  BY DEF CapNode
<1>5. c = capped
  <2>1. c = [n EXCEPT !.claims = claims, !.evidence = whole]  OBVIOUS
  <2> HIDE DEF c, claims, whole
  <2> QED  BY <2>1, <1>3
<1>6. ASSUME NEW v \in Values
      PROVE  /\ claims[v] \in Summaries /\ Neat(claims[v]) /\ Backed(whole, claims[v])
             /\ claims[v].count = n.claims[v].count
             /\ claims[v].level <= n.claims[v].level
             /\ Covers(claims[v], n.claims[v])
  <2> DEFINE s == n.claims[v]
  <2>1. /\ s \in Summaries /\ Neat(s) /\ Backed(n.evidence, s)
        /\ s.sources = {} => s.level <= Inferred
    BY <1>1, <1>2 DEF GoodClaims
  <2>2. claims[v] = CapSummary(p, s)  OBVIOUS
  <2> HIDE DEF s, claims
  <2>3. /\ CapSummary(p, s) \in Summaries /\ CapSummary(p, s).level <= s.level
        /\ CapSummary(p, s).sources = s.sources /\ CapSummary(p, s).count = s.count
        /\ CapSummary(p, s).first = s.first /\ CapSummary(p, s).last = s.last
    BY <2>1, CapParts
  <2>4. Neat(CapSummary(p, s))  BY <2>1, CapIsNeat
  <2>5. Backed(whole, CapSummary(p, s))  BY <1>2, <2>1, CapIsBacked
  <2>6. Covers(CapSummary(p, s), s)  BY <2>1, <2>3, CoversItself, CoversByParts
  <2> QED  BY <2>2, <2>3, <2>4, <2>5, <2>6 DEF s
<1>7. claims = [v \in Values |-> claims[v]]  OBVIOUS
<1>8. /\ whole \in Summaries /\ whole.count = n.evidence.count
      /\ whole.level \in {n.evidence.level, Ceiling(p, n.evidence.sources)}
      /\ whole.sources = n.evidence.sources
      /\ whole.first = n.evidence.first /\ whole.last = n.evidence.last
  BY <1>2, CapParts
<1>9. Ceiling(p, n.evidence.sources) \in 1..4
  BY CeilingType DEF Inferred, Verified
<1> HIDE DEF claims, whole, c
<1>10. claims \in AllClaims  BY <1>6, <1>7 DEF AllClaims
<1>11. /\ capped \in AllNodes /\ capped.version = n.version
       /\ capped.observed = n.observed /\ capped.claims = claims
       /\ capped.evidence = whole
  BY <1>1, <1>8, <1>10, NodeParts DEF AllNodes
<1> HIDE DEF capped
<1>12. GoodClaims(capped)  BY <1>6, <1>11 DEF GoodClaims
<1>13. Firm(capped)  BY <1>1, <1>8, <1>9, <1>11 DEF Firm
<1>14. Candidates(claims) = Candidates(n.claims)  BY <1>6 DEF Candidates
<1>15. Candidates(claims) # {} => n.observed \subseteq Candidates(claims)
  BY <1>14 DEF Tidy
<1>16. /\ Good(CapNode(p, n)) /\ Tidy(CapNode(p, n))
       /\ CapNode(p, n).claims = claims /\ CapNode(p, n).evidence = whole
       /\ n.observed \subseteq CapNode(p, n).observed
  BY <1>4, <1>5, <1>11, <1>12, <1>13, <1>15, ResolveIsGood
<1>17. Covers(whole, n.evidence)
  BY <1>2, <1>8, CoversItself, CoversByParts
<1> QED  BY <1>6, <1>16, <1>17

\* What a request has said of the node so far.
GoodBatch(b) ==
  /\ b \in Batches
  /\ \A v \in Values : Neat(b.claims[v]) /\ Backed(b.evidence, b.claims[v])

LEMMA EmptyBatchIsGood == GoodBatch(EmptyBatch)
<1>1. NoSummary \in Summaries  BY NoSummaryType
<1>2. 0 \in 0..MaxTraceIDs  BY EvidenceAssumption
<1>3. NoClaims \in AllClaims  BY <1>1 DEF NoClaims, AllClaims
<1>4. EmptyBatch \in Batches  BY <1>1, <1>2, <1>3 DEF EmptyBatch, Batches
<1>5. ASSUME NEW v \in Values
      PROVE  Neat(EmptyBatch.claims[v]) /\ Backed(EmptyBatch.evidence, EmptyBatch.claims[v])
  <2>1. EmptyBatch.claims[v] = NoSummary /\ EmptyBatch.evidence = NoSummary
    BY DEF EmptyBatch, NoClaims
  <2> QED  BY <2>1, <1>1, NothingIsBacked
<1> QED  BY <1>4, <1>5 DEF GoodBatch

LEMMA BuiltIsGood ==
  ASSUME NEW b, GoodBatch(b)
  PROVE  /\ Good(Build(b)) /\ Tidy(Build(b))
         /\ \A v \in Values : Build(b).claims[v].level = b.claims[v].level
<1> DEFINE claims == [v \in Values |-> LimitTraces(b.claims[v])]
           n == [version |-> 0, observed |-> {}, evidence |-> b.evidence,
                 claims |-> claims]
<1>1. /\ b.evidence \in Summaries
      /\ \A v \in Values : b.claims[v] \in Summaries /\ Neat(b.claims[v])
                           /\ Backed(b.evidence, b.claims[v])
  BY BatchParts DEF GoodBatch
<1>2. ASSUME NEW v \in Values
      PROVE  /\ claims[v] \in Summaries /\ Neat(claims[v])
             /\ Backed(b.evidence, claims[v]) /\ claims[v].level = b.claims[v].level
  <2> DEFINE s == b.claims[v]
  <2>1. s \in Summaries /\ Neat(s) /\ Backed(b.evidence, s)  BY <1>1
  <2>2. claims[v] = LimitTraces(s)  OBVIOUS
  <2> HIDE DEF s, claims
  <2>3. /\ LimitTraces(s) \in Summaries
        /\ LimitTraces(s).level = s.level /\ LimitTraces(s).count = s.count
        /\ LimitTraces(s).sources = s.sources
        /\ LimitTraces(s).first = s.first /\ LimitTraces(s).last = s.last
    BY <2>1, LimitKeeps
  <2>4. Neat(LimitTraces(s))  BY <2>1, LimitIsNeat
  <2>5. Backed(b.evidence, LimitTraces(s))  BY <2>1, <2>3 DEF Backed
  <2> QED  BY <2>2, <2>3, <2>4, <2>5 DEF s
<1>3. claims = [v \in Values |-> claims[v]]  OBVIOUS
<1>4. Build(b) = ResolveFieldEvidence(n)  BY DEF Build
<1> HIDE DEF claims
<1>5. claims \in AllClaims  BY <1>2, <1>3 DEF AllClaims
<1>6. /\ n \in AllNodes /\ n.version = 0 /\ n.observed = {}
      /\ n.claims = claims /\ n.evidence = b.evidence
  BY <1>1, <1>5 DEF AllNodes
<1> HIDE DEF n
<1>7. GoodClaims(n) /\ Firm(n)  BY <1>2, <1>6 DEF GoodClaims, Firm
<1>8. Good(Build(b)) /\ Tidy(Build(b)) /\ Build(b).claims = claims
  BY <1>4, <1>6, <1>7, ResolveIsGood
<1> QED  BY <1>2, <1>8

\* AddNode.
LEMMA AddedIsGood ==
  ASSUME NEW p \in TrustPolicies, NEW o \in Observations, NEW b, GoodBatch(b),
         AddNode(b, Apply(p, o)) \in Batches
  PROVE  LET a == AddNode(b, Apply(p, o)) IN
           /\ GoodBatch(a)
           /\ \A v \in Values :
                \/ a.claims[v].level = b.claims[v].level
                \/ v = o.value /\ a.claims[v].level <= o.level
<1> DEFINE x == Apply(p, o)
           claim == ObservationEvidence(x)
           kept == IF b.slots < MaxTraceIDs THEN claim.traces ELSE {}
           part == [claim EXCEPT !.traces = kept]
           a == AddNode(b, x)
<1>1. /\ x.level \in 1..4 /\ x.source = o.source /\ x.source \in Sources
      /\ x.trace \in Nat /\ x.time \in Nat \ {0}
  BY ApplyParts
<1>2. x.level <= o.level /\ x.value = o.value
  <2>1. o \in [level : 1..4, source : Sources, trace : Nat, time : Nat \ {0},
               value : Values \cup {0}]
    BY GraphAssumption DEF Inferred, Verified
  <2>2. MaximumFor(p, o.source) \in 1..4  BY MaximumType DEF Inferred, Verified
  <2> DEFINE max == MaximumFor(p, o.source)
  <2>3. x = IF o.level > max THEN [o EXCEPT !.level = max] ELSE o
    BY DEF Apply
  <2> HIDE DEF x, max
  <2>4. CASE o.level > max
    <3>1. x = [o EXCEPT !.level = max]  BY <2>3, <2>4
    <3>2. x.level = max /\ x.value = o.value  BY <3>1, <2>1
    <3> QED  BY <3>2, <2>1, <2>2, <2>4 DEF max
  <2>5. CASE ~ (o.level > max)
    BY <2>3, <2>5, <2>1
  <2> QED  BY <2>4, <2>5
<1> HIDE DEF x
<1>3. /\ claim.level = x.level /\ claim.count = 1 /\ claim.sources = {x.source}
      /\ claim.traces \in SUBSET Nat
      /\ claim.first = x.time /\ claim.last = x.time
      /\ claim = [level |-> claim.level, count |-> claim.count,
                  sources |-> claim.sources, traces |-> claim.traces,
                  first |-> claim.first, last |-> claim.last]
  BY <1>1 DEF ObservationEvidence
<1>4. a.evidence = MergeEvidenceSummary(b.evidence, part)
      /\ \A v \in Values :
           a.claims[v] = IF v = x.value THEN MergeEvidenceSummary(b.claims[v], claim)
                         ELSE b.claims[v]
  BY DEF AddNode
<1> HIDE DEF claim, a
<1>5. kept \in SUBSET Nat  BY <1>3
<1> HIDE DEF kept
<1>6. /\ part = [level |-> claim.level, count |-> claim.count,
                 sources |-> claim.sources, traces |-> kept,
                 first |-> claim.first, last |-> claim.last]
  BY <1>3
<1>7. /\ part.level = claim.level /\ part.count = claim.count
      /\ part.sources = claim.sources
      /\ part.first = claim.first /\ part.last = claim.last
  BY <1>6
<1>8. claim \in Summaries
  BY <1>1, <1>3 DEF Summaries, Ranks, Verified
<1>9. part \in Summaries
  BY <1>1, <1>3, <1>5, <1>6 DEF Summaries, Ranks, Verified
<1> HIDE DEF part
<1>10. Neat(claim)  BY <1>1, <1>3 DEF Neat, Inferred
<1>11. Backed(part, claim)
  BY <1>1, <1>3, <1>7 DEF Backed
<1>12. /\ b.evidence \in Summaries
       /\ \A v \in Values : b.claims[v] \in Summaries /\ Neat(b.claims[v])
                            /\ Backed(b.evidence, b.claims[v])
  BY BatchParts DEF GoodBatch
<1>13. ASSUME NEW v \in Values
       PROVE  /\ Neat(a.claims[v]) /\ Backed(a.evidence, a.claims[v])
              /\ \/ a.claims[v].level = b.claims[v].level
                 \/ v = o.value /\ a.claims[v].level <= o.level
  <2>1. CASE v = x.value
    <3>1. a.claims[v] = MergeEvidenceSummary(b.claims[v], claim)  BY <1>4, <2>1
    <3>2. Neat(a.claims[v])  BY <1>8, <1>10, <1>12, <3>1, MergeIsNeat
    <3>3. Backed(a.evidence, a.claims[v])
      BY <1>4, <1>8, <1>9, <1>11, <1>12, <3>1, MergeIsBacked
    <3>4. a.claims[v].level \in {b.claims[v].level, claim.level}
      BY <3>1, MergeParts DEF StrongerLevel
    <3> QED  BY <1>2, <1>3, <2>1, <3>2, <3>3, <3>4
  <2>2. CASE v # x.value
    <3>1. a.claims[v] = b.claims[v]  BY <1>4, <2>2
    <3>2. Backed(a.evidence, b.claims[v])  BY <1>4, <1>9, <1>12, StaysBacked
    <3> QED  BY <1>12, <3>1, <3>2
  <2> QED  BY <2>1, <2>2
<1>14. a \in Batches  BY DEF a, x
<1> QED  BY <1>13, <1>14 DEF GoodBatch, a, x

-----------------------------------------------------------------------------
(***************************************************************************)
(* The specification.                                                      *)
(***************************************************************************)

\* What holds besides types and ceilings: the batch and the node are good, the node
\* shows its claims, and a scan has nothing to add to.
SelectionInv ==
  /\ GoodBatch(batch) /\ Good(node) /\ Tidy(node)
  /\ process = "scan" => node = NoNode

LEMMA UnclaimedIsGood ==
  ASSUME NEW n \in AllNodes, n.claims = NoClaims, Firm(n)
  PROVE  Good(n) /\ Tidy(n)
<1>1. \A v \in Values : n.claims[v] = NoSummary  BY DEF NoClaims
<1>2. n.evidence \in Summaries  BY NodeParts
<1>3. GoodClaims(n)  BY <1>1, <1>2, NothingIsBacked DEF GoodClaims
<1>4. Candidates(n.claims) = {}  BY <1>1, NothingSaid DEF Candidates
<1> QED  BY <1>3, <1>4 DEF Good, Tidy

LEMMA FirstNodesAreGood ==
  /\ Good(NoNode) /\ Tidy(NoNode)
  /\ \A n \in Stored : Good(n) /\ Tidy(n)
<1>1. Good(NoNode) /\ Tidy(NoNode)
  <2>1. NoNode.claims = NoClaims /\ Firm(NoNode)  BY DEF NoNode, Firm
  <2> QED  BY <2>1, NoNodeType, UnclaimedIsGood
<1>2. ASSUME NEW n \in Stored, n # NoNode
      PROVE  Good(n) /\ Tidy(n)
  <2>1. n \in AllNodes /\ n.claims = NoClaims
        /\ n.evidence.level # 0 /\ n.evidence.count > 0
    BY <1>2, StoredAssumption
  <2>2. n.evidence \in Summaries  BY <2>1, NodeParts
  <2>3. Firm(n)  BY <2>1, <2>2, SummaryNumbers DEF Firm
  <2> QED  BY <2>1, <2>3, UnclaimedIsGood
<1> QED  BY <1>1, <1>2

LEMMA InitSelection == Init => SelectionInv
<1> SUFFICES ASSUME Init PROVE SelectionInv
  OBVIOUS
<1>1. GoodBatch(batch)  BY EmptyBatchIsGood DEF Init
<1>2. CASE process = "scan"
  <2>1. node = NoNode  BY <1>2 DEF Init
  <2> QED  BY <1>1, <2>1, FirstNodesAreGood DEF SelectionInv
<1>3. CASE process # "scan"
  <2>1. PICK n \in Stored : node = CapNode(policy, n)  BY <1>3 DEF Init
  <2>2. policy \in TrustPolicies  BY PolicyType DEF Init
  <2>3. Good(n) /\ Tidy(n)  BY FirstNodesAreGood
  <2>4. \A v \in Values : n.claims[v].sources = {} => n.claims[v].level <= Inferred
    BY StoredIsNamed
  <2>5. Good(node) /\ Tidy(node)  BY <2>1, <2>2, <2>3, <2>4, CapNodeIsGood
  <2> QED  BY <1>1, <1>3, <2>5 DEF SelectionInv
<1> QED  BY <1>2, <1>3

\* One step takes nothing back.
Grows(old, new) ==
  /\ Covers(new.evidence, old.evidence)
  /\ \A v \in Values : Covers(new.claims[v], old.claims[v])
  /\ old.observed \subseteq new.observed

Strengthens(old, new) ==
  /\ new.evidence.level >= old.evidence.level
  /\ \A v \in Values : new.claims[v].level >= old.claims[v].level

\* What the node says is what spans said: Apply, Build, Merge and CapNode add no
\* strength.
Said(v, level) == level <= Inferred \/ \E o \in claimed : o.value = v /\ o.level >= level
HeardInv ==
  \A v \in Values : Said(v, batch.claims[v].level) /\ Said(v, node.claims[v].level)

LEMMA NextSelection ==
  TypeOK /\ TypeOK' /\ SoundState /\ SelectionInv /\ [Next]_vars
    => /\ SelectionInv' /\ Grows(node, node')
       /\ restarts' = restarts => Strengthens(node, node')
       /\ HeardInv => HeardInv'
<1> DEFINE Goal == /\ SelectionInv' /\ Grows(node, node')
                   /\ restarts' = restarts => Strengthens(node, node')
                   /\ HeardInv => HeardInv'
<1> SUFFICES ASSUME TypeOK, TypeOK', SoundState, SelectionInv, [Next]_vars
             PROVE  Goal
  OBVIOUS
<1>1. /\ policy \in TrustPolicies /\ batch \in Batches /\ node \in AllNodes
      /\ claimed \subseteq Observations /\ batch' \in Batches
      /\ restarts \in Nat
  BY PolicyType, GraphAssumption DEF TypeOK, Batches
<1>2. /\ GoodBatch(batch) /\ Good(node) /\ Tidy(node)
      /\ process = "scan" => node = NoNode
  BY DEF SelectionInv
<1>3. /\ node.evidence \in Summaries /\ \A v \in Values : node.claims[v] \in Summaries
      /\ \A v \in Values : batch.claims[v] \in Summaries
  BY <1>1, NodeParts, BatchParts
<1>4. \A v \in Values : EmptyBatch.claims[v].level = 0
  BY NothingSaid DEF EmptyBatch, NoClaims
<1>5. Grows(node, node) /\ Strengthens(node, node)
  <2>1. Covers(node.evidence, node.evidence) /\ node.evidence.level >= node.evidence.level
    BY <1>3, CoversItself, SummaryNumbers
  <2>2. \A v \in Values : /\ Covers(node.claims[v], node.claims[v])
                          /\ node.claims[v].level >= node.claims[v].level
    BY <1>3, CoversItself, SummaryNumbers
  <2> QED  BY <2>1, <2>2 DEF Grows, Strengthens
<1>6. ASSUME NEW o \in Observations, AddObservation(o)
      PROVE  Goal
  <2>1. /\ batch' = AddNode(batch, Apply(policy, o)) /\ claimed' = claimed \cup {o}
        /\ node' = node /\ process' = process /\ restarts' = restarts
    BY <1>6 DEF AddObservation
  <2>2. /\ GoodBatch(batch')
        /\ \A v \in Values : \/ batch'.claims[v].level = batch.claims[v].level
                             \/ v = o.value /\ batch'.claims[v].level <= o.level
    BY <1>1, <1>2, <2>1, AddedIsGood
  <2>3. SelectionInv'  BY <1>2, <2>1, <2>2 DEF SelectionInv
  <2>4. o \in [level : 1..4, source : Sources, trace : Nat, time : Nat \ {0},
               value : Values \cup {0}]
    BY GraphAssumption DEF Inferred, Verified
  <2>5. ASSUME HeardInv, NEW v \in Values
        PROVE  /\ Said(v, batch.claims[v].level)' /\ Said(v, node.claims[v].level)'
    <3>1. Said(v, batch.claims[v].level) /\ Said(v, node.claims[v].level)
      BY <2>5 DEF HeardInv
    <3>2. Said(v, node.claims[v].level)'  BY <2>1, <3>1 DEF Said
    <3>3. batch.claims[v].level \in Nat /\ batch'.claims[v].level \in Nat
      <4>1. batch'.claims[v] \in Summaries  BY <1>1, BatchParts
      <4> QED  BY <4>1, <1>3, SummaryNumbers
    <3>4. CASE batch'.claims[v].level = batch.claims[v].level
      BY <2>1, <3>1, <3>4 DEF Said
    <3>5. CASE v = o.value /\ batch'.claims[v].level <= o.level
      <4>1. o \in claimed' /\ o.level >= batch'.claims[v].level
        BY <2>1, <2>4, <3>3, <3>5
      <4> QED  BY <3>2, <3>5, <4>1 DEF Said
    <3> QED  BY <2>2, <3>2, <3>4, <3>5
  <2>6. HeardInv => HeardInv'  BY <2>5 DEF HeardInv
  <2> QED  BY <1>5, <2>1, <2>3, <2>6
<1>7. CASE MergeBatch
  <2>1. /\ process = "collect" /\ process' = process /\ batch' = EmptyBatch
        /\ node' = Merge(node, Build(batch)) /\ claimed' = claimed
    BY <1>7 DEF MergeBatch, BatchIsDone
  <2>2. /\ Good(Build(batch))
        /\ \A v \in Values : Build(batch).claims[v].level = batch.claims[v].level
    BY <1>2, BuiltIsGood
  <2>3. /\ Good(node') /\ Whole(node')
        /\ Covers(node'.evidence, node.evidence)
        /\ node'.evidence.level >= node.evidence.level
        /\ node.observed \subseteq node'.observed
        /\ \A v \in Values :
             /\ Covers(node'.claims[v], node.claims[v])
             /\ node'.claims[v].level >= node.claims[v].level
             /\ node'.claims[v].level
                  \in {node.claims[v].level, Build(batch).claims[v].level, 1}
    BY <1>2, <2>1, <2>2, MergedIsGood
  <2>4. SelectionInv'
    BY <2>1, <2>3, EmptyBatchIsGood DEF SelectionInv, Whole
  <2>5. Grows(node, node') /\ Strengthens(node, node')
    BY <2>3 DEF Grows, Strengthens
  <2>6. HeardInv => HeardInv'
    BY <1>4, <2>1, <2>2, <2>3 DEF HeardInv, Said, Inferred
  <2> QED  BY <2>4, <2>5, <2>6
<1>8. CASE WriteScan
  <2>1. /\ process = "scan" /\ process' = "scanned" /\ batch' = EmptyBatch
        /\ node' = Build(batch) /\ claimed' = claimed
    BY <1>8 DEF WriteScan, BatchIsDone
  <2>2. /\ Good(node') /\ Tidy(node')
        /\ \A v \in Values : node'.claims[v].level = batch.claims[v].level
    BY <1>2, <2>1, BuiltIsGood
  <2>3. SelectionInv'  BY <2>1, <2>2, EmptyBatchIsGood DEF SelectionInv
  <2>4. /\ node.evidence = NoSummary /\ node.observed = {}
        /\ \A v \in Values : node.claims[v] = NoSummary
    BY <1>2, <2>1 DEF NoNode, NoClaims
  <2>5. /\ node'.evidence \in Summaries
        /\ \A v \in Values : node'.claims[v] \in Summaries
    BY <2>2, NodeParts DEF Good
  <2>6. Grows(node, node') /\ Strengthens(node, node')
    BY <2>4, <2>5, CoversItself, NothingSaid, SummaryNumbers DEF Grows, Strengthens
  <2>7. HeardInv => HeardInv'
    BY <1>4, <2>1, <2>2 DEF HeardInv, Said, Inferred
  <2> QED  BY <2>3, <2>6, <2>7
<1>9. ASSUME NEW p \in Policies, Restart(p)
      PROVE  Goal
  <2>1. /\ process' = "collect" /\ batch' = EmptyBatch /\ node' = CapNode(p, node)
        /\ claimed' = claimed /\ restarts' = restarts + 1 /\ p \in TrustPolicies
    BY <1>9, PolicyType DEF Restart
  <2>2. \A v \in Values :
          node.claims[v].sources = {} => node.claims[v].level <= Inferred
    BY DEF SoundState, SoundNode, SoundClaims, Sound
  <2>3. /\ Good(node') /\ Tidy(node')
        /\ Covers(node'.evidence, node.evidence)
        /\ node.observed \subseteq node'.observed
        /\ \A v \in Values : /\ Covers(node'.claims[v], node.claims[v])
                             /\ node'.claims[v].level <= node.claims[v].level
    BY <1>2, <2>1, <2>2, CapNodeIsGood
  <2>4. SelectionInv'  BY <2>1, <2>3, EmptyBatchIsGood DEF SelectionInv
  <2>5. Grows(node, node')  BY <2>3 DEF Grows
  <2>6. restarts' # restarts  BY <1>1, <2>1
  <2>7. ASSUME HeardInv, NEW v \in Values
        PROVE  Said(v, node.claims[v].level)'
    <3>1. Said(v, node.claims[v].level)  BY <2>7 DEF HeardInv
    <3>2. /\ node'.claims[v].level \in Nat /\ node.claims[v].level \in Nat
          /\ node'.claims[v].level <= node.claims[v].level
      <4>1. node'.claims[v] \in Summaries  BY <2>3, NodeParts DEF Good
      <4> QED  BY <4>1, <1>3, <2>3, SummaryNumbers
    <3>3. CASE node.claims[v].level <= 1
      BY <3>2, <3>3 DEF Said, Inferred
    <3>4. CASE \E o \in claimed : o.value = v /\ o.level >= node.claims[v].level
      <4>1. PICK o \in claimed : o.value = v /\ o.level >= node.claims[v].level
        BY <3>4
      <4>2. o.level \in 1..4
        BY <1>1, GraphAssumption DEF Inferred, Verified
      <4>3. o.level >= node'.claims[v].level  BY <3>2, <4>1, <4>2
      <4> QED  BY <2>1, <4>1, <4>3 DEF Said
    <3> QED  BY <3>1, <3>3, <3>4 DEF Said, Inferred
  <2>8. HeardInv => HeardInv'
    BY <1>4, <2>1, <2>7 DEF HeardInv, Said, Inferred
  <2> QED  BY <2>4, <2>5, <2>6, <2>8
<1>10. CASE UNCHANGED vars
  <2>1. SelectionInv' /\ (HeardInv => HeardInv') /\ node' = node
    BY <1>10, <1>2 DEF vars, SelectionInv, HeardInv, Said
  <2> QED  BY <2>1, <1>5
<1> QED  BY <1>6, <1>7, <1>8, <1>9, <1>10 DEF Next

Inv == TypeOK /\ SoundState /\ SelectionInv

LEMMA InvHolds == Spec => []Inv
<1>1. Init => Inv  BY InitTypeSound, InitSelection DEF Inv
<1>2. Inv /\ [Next]_vars => Inv'  BY NextTypeSound, NextSelection DEF Inv
<1> QED  BY <1>1, <1>2, PTL DEF Spec

\* Whatever was merged, in any order and under any policies, the value a node shows is
\* its strongest claim, then the latest, then the smallest: ResolveFieldEvidence of
\* model.go, at the end of every operation that changes claims.
THEOREM ShowsTheStrongest == Spec => []SelectedIsStrongest
<1>1. Inv => SelectedIsStrongest
  <2> SUFFICES ASSUME Inv, NEW v \in Candidates(node.claims)
               PROVE  LET chosen == node.claims[node.version]
                          other  == node.claims[v]
                      IN  /\ other.level <= chosen.level
                          /\ other.level = chosen.level => other.last <= chosen.last
                          /\ other.level = chosen.level /\ other.last = chosen.last
                               => node.version <= v
    BY DEF SelectedIsStrongest
  <2> DEFINE x == Selected(node.claims)
             chosen == node.claims[x]
             other == node.claims[v]
  <2>1. Good(node) /\ Tidy(node)  BY DEF Inv, SelectionInv
  <2>2. node \in AllNodes /\ node.claims \in AllClaims  BY <2>1, NodeParts DEF Good
  <2>3. node.version = x  BY <2>1 DEF Tidy
  <2>4. v \in Values  BY DEF Candidates
  <2>5. /\ x \in Values
        /\ \A w \in Candidates(node.claims) \ {x} :
             FieldValuePreferred(node.claims, x, w)
    BY <2>2, SelectedIsPreferred
  <2>6. /\ x \in Nat /\ v \in Nat
        /\ chosen.level \in Nat /\ chosen.last \in Nat
        /\ other.level \in Nat /\ other.last \in Nat
    <3>1. chosen \in Summaries /\ other \in Summaries  BY <2>2, <2>4, <2>5, NodeParts
    <3> HIDE DEF x, chosen, other
    <3>2. x \in Nat /\ v \in Nat  BY <2>4, <2>5, EvidenceAssumption
    <3>3. /\ chosen.level \in Nat /\ chosen.last \in Nat
          /\ other.level \in Nat /\ other.last \in Nat
      BY <3>1, SummaryNumbers
    <3> QED  BY <3>2, <3>3
  <2>7. v = x \/ FieldValuePreferred(node.claims, x, v)  BY <2>5
  <2> HIDE DEF x
  <2>8. CASE v = x  BY <2>3, <2>6, <2>8
  <2>9. CASE FieldValuePreferred(node.claims, x, v)
    <3>1. \/ chosen.level > other.level
          \/ chosen.level = other.level /\ chosen.last > other.last
          \/ chosen.level = other.level /\ chosen.last = other.last /\ x < v
      BY <2>9 DEF FieldValuePreferred
    <3> HIDE DEF chosen, other
    <3>2. /\ other.level <= chosen.level
          /\ other.level = chosen.level => other.last <= chosen.last
          /\ other.level = chosen.level /\ other.last = chosen.last => x <= v
      BY <2>6, <3>1
    <3> QED  BY <2>3, <3>2 DEF chosen, other
  <2> QED  BY <2>7, <2>8, <2>9
<1> QED  BY <1>1, InvHolds, PTL

\* No claim about a field has more behind it than its node: addNode, mergeNode and
\* CapGraphInPlace keep the two in step.
THEOREM FieldIsBacked == Spec => []NodeBacksItsField
<1>1. Inv => NodeBacksItsField
  BY DEF Inv, SelectionInv, Good, GoodClaims, Backed, NodeBacksItsField, Candidates
<1> QED  BY <1>1, InvHolds, PTL

\* The signer's check of field claims (validateFieldEvidence of signing.go) refuses
\* nothing that scan or collect has written.
THEOREM GraphsCanBeSigned == Spec => []CanBeSigned
<1>1. Inv => CanBeSigned
  <2> SUFFICES ASSUME Inv, NEW v \in Candidates(node.claims)
               PROVE  node.claims[v].level \in Inferred..Verified
    BY DEF CanBeSigned, Signable, Inv, SelectionInv, Tidy
  <2>1. v \in Values /\ node.claims[v].count > 0  BY DEF Candidates
  <2>2. Good(node)  BY DEF Inv, SelectionInv
  <2>3. node.claims[v] \in Summaries /\ Neat(node.claims[v])
    BY <2>1, <2>2, NodeParts DEF Good, GoodClaims
  <2>4. node.claims[v].level >= 1  BY <2>1, <2>3, NothingSaid DEF Neat, Inferred
  <2> QED  BY <2>3, <2>4, SummaryNumbers DEF Inferred, Verified
<1> QED  BY <1>1, InvHolds, PTL

\* No level comes from nowhere: whatever the policies, groupings and restarts, a claim
\* is inferred or some span said as much of that very value.
THEOREM StrengthIsHeard == Spec => []NoInventedStrength
<1>1. Init => HeardInv
  <2> SUFFICES ASSUME Init, NEW v \in Values
               PROVE  batch.claims[v].level <= 1 /\ node.claims[v].level <= 1
    BY DEF HeardInv, Said, Inferred
  <2>1. NoSummary.level = 0  BY NothingSaid
  <2>2. batch.claims[v].level = 0  BY <2>1 DEF Init, EmptyBatch, NoClaims
  <2>3. CASE process = "scan"
    BY <2>1, <2>2, <2>3 DEF Init, NoNode, NoClaims
  <2>4. CASE process # "scan"
    <3>1. PICK n \in Stored : node = CapNode(policy, n)  BY <2>4 DEF Init
    <3>2. policy \in TrustPolicies  BY PolicyType DEF Init
    <3>3. /\ Good(n) /\ Tidy(n)
          /\ \A w \in Values : n.claims[w].sources = {} => n.claims[w].level <= Inferred
      BY FirstNodesAreGood, StoredIsNamed
    <3>4. Good(node) /\ node.claims[v].level <= n.claims[v].level
      BY <3>1, <3>2, <3>3, CapNodeIsGood
    <3>5. n.claims[v] = NoSummary
      <4>1. n = NoNode \/ n.claims = NoClaims  BY StoredAssumption
      <4> QED  BY <4>1 DEF NoNode, NoClaims
    <3>6. node.claims[v].level = 0
      <4>1. node.claims[v] \in Summaries  BY <3>4, NodeParts DEF Good
      <4> QED  BY <2>1, <3>4, <3>5, <4>1, SummaryNumbers
    <3> QED  BY <2>2, <3>6
  <2> QED  BY <2>3, <2>4
<1>2. Inv /\ HeardInv /\ [Next]_vars => (Inv /\ HeardInv)'
  BY NextTypeSound, NextSelection DEF Inv
<1>3. Init => Inv  BY InitTypeSound, InitSelection DEF Inv
<1>4. Inv /\ HeardInv => NoInventedStrength
  <2> SUFFICES ASSUME Inv, HeardInv, NEW v \in Candidates(node.claims)
               PROVE  \/ node.claims[v].level = Inferred
                      \/ \E o \in claimed : o.value = v /\ o.level >= node.claims[v].level
    BY DEF NoInventedStrength
  <2>1. v \in Values /\ node.claims[v].count > 0  BY DEF Candidates
  <2>2. Good(node)  BY DEF Inv, SelectionInv
  <2>3. node.claims[v] \in Summaries /\ Neat(node.claims[v])
    BY <2>1, <2>2, NodeParts DEF Good, GoodClaims
  <2>4. node.claims[v].level >= 1  BY <2>1, <2>3, NothingSaid DEF Neat, Inferred
  <2>5. Said(v, node.claims[v].level)  BY <2>1 DEF HeardInv
  <2> QED  BY <2>3, <2>4, <2>5, SummaryNumbers DEF Said, Inferred
<1> QED  BY <1>1, <1>2, <1>3, <1>4, PTL DEF Spec

\* Merging, upgrading, limiting and capping lose no evidence, and only a new process
\* takes strength away: aggregate.Merge and CapGraphInPlace.
THEOREM EvidenceOnlyGrows == Spec => EvidenceNeverShrinks
<1> DEFINE Step == /\ Covers(node'.evidence, node.evidence)
                   /\ \A v \in Values : Covers(node'.claims[v], node.claims[v])
                   /\ node.observed \subseteq node'.observed
                   /\ restarts' = restarts =>
                        /\ node'.evidence.level >= node.evidence.level
                        /\ \A v \in Values : node'.claims[v].level >= node.claims[v].level
<1>1. Inv /\ Inv' /\ [Next]_vars => Step
  BY NextSelection DEF Inv, Grows, Strengthens
<1> HIDE DEF Step
<1>2. Spec => [][Step]_vars  BY <1>1, InvHolds, PTL DEF Spec
<1> QED  BY <1>2 DEF EvidenceNeverShrinks, Step

-----------------------------------------------------------------------------
(***************************************************************************)
(* The graph as a function of what was merged.  A summary is compared with *)
(* the one that Reference computes at once, for any count of every         *)
(* observation: those of the batch and those of the node.                  *)
(***************************************************************************)
Counts == {f \in [CappedObservations -> Nat] :
             IsFiniteSet({o \in CappedObservations : f[o] > 0})}
Heard(f, values) == {o \in CappedObservations : f[o] > 0 /\ o.value \in values}
Names(told) == {o.trace : o \in told} \ {0}

\* s is base and what f counts about these values, up to trace identifiers.
SaysLevel(s, base, told) ==
  /\ s.level >= base.level /\ \A o \in told : s.level >= o.level
  /\ s.level = base.level \/ \E o \in told : s.level = o.level
SaysFirst(s, base, told) ==
  /\ base.first # 0 => s.first # 0 /\ s.first <= base.first
  /\ \A o \in told : s.first # 0 /\ s.first <= o.time
  /\ s.first = base.first \/ \E o \in told : s.first = o.time
SaysLast(s, base, told) ==
  /\ s.last >= base.last /\ \A o \in told : s.last >= o.time
  /\ s.last = base.last \/ \E o \in told : s.last = o.time
Says(s, base, f, values) ==
  LET told == Heard(f, values) IN
    /\ SaysLevel(s, base, told) /\ SaysFirst(s, base, told) /\ SaysLast(s, base, told)
    /\ s.count = base.count + SumFunctionOnSet(f, told)
    /\ s.sources = base.sources \cup {o.source : o \in told}

LEMMA CappedParts ==
  ASSUME NEW a \in CappedObservations
  PROVE  /\ a.level \in 1..4 /\ a.source \in Sources /\ a.trace \in Nat
         /\ a.time \in Nat \ {0} /\ a.value \in Values \cup {0}
<1>1. PICK p \in Policies, o \in Observations : a = Apply(p, o)
  BY DEF CappedObservations
<1>2. p \in TrustPolicies  BY PolicyType
<1> QED  BY <1>1, <1>2, ApplyParts

LEMMA HeardIsFinite ==
  ASSUME NEW f \in Counts, NEW W
  PROVE  /\ IsFiniteSet(Heard(f, W)) /\ Heard(f, W) \in SUBSET CappedObservations
         /\ \A o \in CappedObservations : f[o] \in Nat
         /\ SumFunctionOnSet(f, Heard(f, W)) \in Nat
<1>1. /\ IsFiniteSet({o \in CappedObservations : f[o] > 0})
      /\ \A o \in CappedObservations : f[o] \in Nat
  BY DEF Counts
<1>2. /\ Heard(f, W) \in SUBSET {o \in CappedObservations : f[o] > 0}
      /\ Heard(f, W) \in SUBSET CappedObservations
  BY DEF Heard
<1>3. IsFiniteSet(Heard(f, W))  BY <1>1, <1>2, FS_Subset
<1>4. \A o \in Heard(f, W) : f[o] \in Nat  BY <1>1, <1>2
<1> QED  BY <1>1, <1>2, <1>3, <1>4, SumTakesOut

\* What two counts tell is what their sum tells.
LEMMA HeardTogether ==
  ASSUME NEW f \in Counts, NEW g \in Counts, NEW h \in [CappedObservations -> Nat],
         \A o \in CappedObservations : h[o] = f[o] + g[o], NEW W
  PROVE  /\ h \in Counts
         /\ Heard(h, W) = Heard(f, W) \cup Heard(g, W)
         /\ SumFunctionOnSet(h, Heard(h, W))
              = SumFunctionOnSet(f, Heard(f, W)) + SumFunctionOnSet(g, Heard(g, W))
<1> DEFINE F == Heard(f, W)
           G == Heard(g, W)
           H == Heard(h, W)
<1>1. \A o \in CappedObservations :
        f[o] \in Nat /\ g[o] \in Nat /\ (h[o] > 0 <=> f[o] > 0 \/ g[o] > 0)
  <2>1. \A o \in CappedObservations : f[o] \in Nat /\ g[o] \in Nat
    BY HeardIsFinite
  <2> QED  BY <2>1
<1>2. h \in Counts
  <2> DEFINE P(e) == {o \in CappedObservations : e[o] > 0}
  <2>1. P(h) = P(f) \cup P(g)  BY <1>1
  <2>2. IsFiniteSet(P(f)) /\ IsFiniteSet(P(g))  BY DEF Counts
  <2>3. IsFiniteSet(P(h))
    <3> HIDE DEF P
    <3> QED  BY <2>1, <2>2, FS_Union
  <2> QED  BY <2>3 DEF Counts
<1>3. H = F \cup G  BY <1>1 DEF Heard
<1>4. /\ IsFiniteSet(F) /\ IsFiniteSet(G) /\ IsFiniteSet(H)
      /\ H \in SUBSET CappedObservations
      /\ \A o \in CappedObservations : f[o] \in Nat /\ g[o] \in Nat /\ h[o] \in Nat
  BY <1>2, HeardIsFinite
<1>5. /\ \A o \in H \ F : f[o] = 0
      /\ \A o \in H \ G : g[o] = 0
  BY <1>4 DEF Heard
<1> HIDE DEF F, G, H
<1>6. SumFunctionOnSet(h, H) = SumFunctionOnSet(f, H) + SumFunctionOnSet(g, H)
  <2>1. \A o \in H : f[o] \in Nat /\ g[o] \in Nat /\ h[o] = f[o] + g[o]  BY <1>4
  <2> QED  BY <1>4, <2>1, SumsOfSums
<1>7. SumFunctionOnSet(f, H) = SumFunctionOnSet(f, F)
  <2>1. \A o \in H : f[o] \in Nat  BY <1>4
  <2>2. F \in SUBSET H  BY <1>3
  <2> QED  BY <1>4, <1>5, <2>1, <2>2, SumOfSupport
<1>8. SumFunctionOnSet(g, H) = SumFunctionOnSet(g, G)
  <2>1. \A o \in H : g[o] \in Nat  BY <1>4
  <2>2. G \in SUBSET H  BY <1>3
  <2> QED  BY <1>4, <1>5, <2>1, <2>2, SumOfSupport
<1> QED  BY <1>2, <1>3, <1>6, <1>7, <1>8 DEF F, G, H

LEMMA NamesTogether ==
  ASSUME NEW S, NEW T
  PROVE  Names(S \cup T) = Names(S) \cup Names(T)
BY DEF Names

LEMMA NamesType ==
  ASSUME NEW f, NEW W
  PROVE  Names(Heard(f, W)) \in SUBSET Nat
BY CappedParts DEF Names, Heard

LEMMA SaysLevelMerges ==
  ASSUME NEW S, NEW T, \A o \in S \cup T : o \in CappedObservations,
         NEW a \in Summaries, NEW b \in Summaries, NEW base \in Summaries,
         SaysLevel(a, base, S), SaysLevel(b, NoSummary, T)
  PROVE  SaysLevel(MergeEvidenceSummary(a, b), base, S \cup T)
<1>1. MergeEvidenceSummary(a, b).level = StrongerLevel(a.level, b.level)
  BY MergeParts
<1>2. /\ a.level \in 0..4 /\ b.level \in 0..4 /\ base.level \in 0..4
      /\ \A o \in S \cup T : o.level \in 1..4
      /\ NoSummary.level = 0
  BY SummaryNumbers, CappedParts, NothingSaid
<1> DEFINE c == MergeEvidenceSummary(a, b).level
<1>3. c = IF b.level > a.level THEN b.level ELSE a.level
  BY <1>1 DEF StrongerLevel
<1> HIDE DEF c
<1>4. c >= a.level /\ c >= b.level /\ c \in {a.level, b.level} /\ c \in 0..4
  BY <1>2, <1>3
<1>5. c >= base.level  BY <1>2, <1>4 DEF SaysLevel
<1>6. \A o \in S \cup T : c >= o.level
  <2>1. ASSUME NEW o \in S PROVE c >= o.level
    <3>1. a.level >= o.level /\ o.level \in 1..4  BY <1>2 DEF SaysLevel
    <3> QED  BY <1>2, <1>4, <3>1
  <2>2. ASSUME NEW o \in T PROVE c >= o.level
    <3>1. b.level >= o.level /\ o.level \in 1..4  BY <1>2 DEF SaysLevel
    <3> QED  BY <1>2, <1>4, <3>1
  <2> QED  BY <2>1, <2>2
<1>7. c = base.level \/ \E o \in S \cup T : c = o.level
  <2>1. CASE c = a.level  BY <2>1 DEF SaysLevel
  <2>2. CASE c = b.level /\ c # a.level
    <3>1. b.level # 0  BY <1>2, <1>4, <2>2
    <3> QED  BY <1>2, <2>2, <3>1 DEF SaysLevel
  <2> QED  BY <1>4, <2>1, <2>2
<1> QED  BY <1>5, <1>6, <1>7 DEF SaysLevel, c

LEMMA SaysFirstMerges ==
  ASSUME NEW S, NEW T, \A o \in S \cup T : o \in CappedObservations,
         NEW a \in Summaries, NEW b \in Summaries, NEW base \in Summaries,
         SaysFirst(a, base, S), SaysFirst(b, NoSummary, T)
  PROVE  SaysFirst(MergeEvidenceSummary(a, b), base, S \cup T)
<1>1. MergeEvidenceSummary(a, b).first = Earlier(a.first, b.first)
  BY MergeParts
<1>2. /\ a.first \in Nat /\ b.first \in Nat /\ base.first \in Nat
      /\ \A o \in S \cup T : o.time \in Nat \ {0}
      /\ NoSummary.first = 0
  BY SummaryNumbers, CappedParts, NothingSaid
<1> DEFINE c == MergeEvidenceSummary(a, b).first
<1>3. c = IF a.first = 0 \/ (b.first # 0 /\ b.first < a.first) THEN b.first ELSE a.first
  BY <1>1 DEF Earlier
<1> HIDE DEF c
<1>4. /\ a.first # 0 => c # 0 /\ c <= a.first
      /\ b.first # 0 => c # 0 /\ c <= b.first
      /\ c = a.first \/ (c = b.first /\ c # 0)
      /\ c \in Nat
  BY <1>2, <1>3
<1>5. base.first # 0 => c # 0 /\ c <= base.first
  BY <1>2, <1>4 DEF SaysFirst
<1>6. \A o \in S \cup T : c # 0 /\ c <= o.time
  <2>1. ASSUME NEW o \in S PROVE c # 0 /\ c <= o.time
    <3>1. a.first # 0 /\ a.first <= o.time /\ o.time \in Nat  BY <1>2 DEF SaysFirst
    <3> QED  BY <1>2, <1>4, <3>1
  <2>2. ASSUME NEW o \in T PROVE c # 0 /\ c <= o.time
    <3>1. b.first # 0 /\ b.first <= o.time /\ o.time \in Nat  BY <1>2 DEF SaysFirst
    <3> QED  BY <1>2, <1>4, <3>1
  <2> QED  BY <2>1, <2>2
<1>7. c = base.first \/ \E o \in S \cup T : c = o.time
  <2>1. CASE c = a.first  BY <2>1 DEF SaysFirst
  <2>2. CASE c = b.first /\ c # 0  BY <1>2, <2>2 DEF SaysFirst
  <2> QED  BY <1>4, <2>1, <2>2
<1> QED  BY <1>5, <1>6, <1>7 DEF SaysFirst, c

LEMMA SaysLastMerges ==
  ASSUME NEW S, NEW T, \A o \in S \cup T : o \in CappedObservations,
         NEW a \in Summaries, NEW b \in Summaries, NEW base \in Summaries,
         SaysLast(a, base, S), SaysLast(b, NoSummary, T)
  PROVE  SaysLast(MergeEvidenceSummary(a, b), base, S \cup T)
<1>1. MergeEvidenceSummary(a, b).last = Later(a.last, b.last)
  BY MergeParts
<1>2. /\ a.last \in Nat /\ b.last \in Nat /\ base.last \in Nat
      /\ \A o \in S \cup T : o.time \in Nat \ {0}
      /\ NoSummary.last = 0
  BY SummaryNumbers, CappedParts, NothingSaid
<1> DEFINE c == MergeEvidenceSummary(a, b).last
<1>3. c = IF b.last > a.last THEN b.last ELSE a.last
  BY <1>1 DEF Later
<1> HIDE DEF c
<1>4. c >= a.last /\ c >= b.last /\ c \in Nat /\ (c = a.last \/ (c = b.last /\ c # 0))
  BY <1>2, <1>3
<1>5. c >= base.last  BY <1>2, <1>4 DEF SaysLast
<1>6. \A o \in S \cup T : c >= o.time
  <2>1. ASSUME NEW o \in S PROVE c >= o.time
    <3>1. a.last >= o.time /\ o.time \in Nat  BY <1>2 DEF SaysLast
    <3> QED  BY <1>2, <1>4, <3>1
  <2>2. ASSUME NEW o \in T PROVE c >= o.time
    <3>1. b.last >= o.time /\ o.time \in Nat  BY <1>2 DEF SaysLast
    <3> QED  BY <1>2, <1>4, <3>1
  <2> QED  BY <2>1, <2>2
<1>7. c = base.last \/ \E o \in S \cup T : c = o.time
  <2>1. CASE c = a.last  BY <2>1 DEF SaysLast
  <2>2. CASE c = b.last /\ c # 0  BY <1>2, <2>2 DEF SaysLast
  <2> QED  BY <1>4, <2>1, <2>2
<1> QED  BY <1>5, <1>6, <1>7 DEF SaysLast, c

\* A merge says what both say.
LEMMA SaysMerges ==
  ASSUME NEW f \in Counts, NEW g \in Counts, NEW h \in [CappedObservations -> Nat],
         \A o \in CappedObservations : h[o] = f[o] + g[o], NEW W,
         NEW a \in Summaries, NEW b \in Summaries, NEW base \in Summaries,
         Says(a, base, f, W), Says(b, NoSummary, g, W)
  PROVE  Says(MergeEvidenceSummary(a, b), base, h, W)
<1> DEFINE c == MergeEvidenceSummary(a, b)
           F == Heard(f, W)
           G == Heard(g, W)
           H == Heard(h, W)
<1>1. /\ H = F \cup G
      /\ SumFunctionOnSet(h, H) = SumFunctionOnSet(f, F) + SumFunctionOnSet(g, G)
  BY HeardTogether
<1>2. /\ \A o \in F \cup G : o \in CappedObservations
      /\ SumFunctionOnSet(f, F) \in Nat /\ SumFunctionOnSet(g, G) \in Nat
  BY HeardIsFinite
<1>3. c.count = a.count + b.count /\ c.sources = a.sources \cup b.sources
  BY MergeParts
<1>4. /\ SaysLevel(a, base, F) /\ SaysFirst(a, base, F) /\ SaysLast(a, base, F)
      /\ a.count = base.count + SumFunctionOnSet(f, F)
      /\ a.sources = base.sources \cup {o.source : o \in F}
  BY DEF Says
<1>5. /\ SaysLevel(b, NoSummary, G) /\ SaysFirst(b, NoSummary, G)
      /\ SaysLast(b, NoSummary, G)
      /\ b.count = NoSummary.count + SumFunctionOnSet(g, G)
      /\ b.sources = NoSummary.sources \cup {o.source : o \in G}
  BY DEF Says
<1> HIDE DEF c, F, G, H
<1>6. SaysLevel(c, base, H)  BY <1>1, <1>2, <1>4, <1>5, SaysLevelMerges DEF c
<1>7. SaysFirst(c, base, H)  BY <1>1, <1>2, <1>4, <1>5, SaysFirstMerges DEF c
<1>8. SaysLast(c, base, H)  BY <1>1, <1>2, <1>4, <1>5, SaysLastMerges DEF c
<1>9. c.count = base.count + SumFunctionOnSet(h, H)
  BY <1>1, <1>2, <1>3, <1>4, <1>5, SummaryNumbers, NothingSaid
<1>10. c.sources = base.sources \cup {o.source : o \in H}
  <2>1. b.sources = {o.source : o \in G}  BY <1>5, NothingSaid
  <2> QED  BY <1>1, <1>3, <1>4, <2>1
<1> QED  BY <1>6, <1>7, <1>8, <1>9, <1>10 DEF Says, c, H

\* Nothing was heard.
LEMMA SaysItself ==
  ASSUME NEW s \in Summaries, NEW f, NEW W, Heard(f, W) = {}
  PROVE  Says(s, s, f, W)
<1>1. SumFunctionOnSet(f, {}) = 0  BY SumTakesOut, FS_EmptySet
<1>2. s.level \in 0..4 /\ s.count \in Nat /\ s.first \in Nat /\ s.last \in Nat
  BY SummaryNumbers
<1> QED  BY <1>1, <1>2 DEF Says, SaysLevel, SaysFirst, SaysLast

\* Trace identifiers make no difference to it.
LEMMA SaysByParts ==
  ASSUME NEW s, NEW t, NEW base, NEW f, NEW W, Says(s, base, f, W),
         t.level = s.level, t.count = s.count, t.sources = s.sources,
         t.first = s.first, t.last = s.last
  PROVE  Says(t, base, f, W)
BY DEF Says, SaysLevel, SaysFirst, SaysLast

\* One observation.
One(a) == [o \in CappedObservations |-> IF o = a THEN 1 ELSE 0]

LEMMA OneIsCounted ==
  ASSUME NEW a \in CappedObservations, NEW W
  PROVE  /\ One(a) \in Counts
         /\ Heard(One(a), W) = IF a.value \in W THEN {a} ELSE {}
         /\ a.value \in W => SumFunctionOnSet(One(a), Heard(One(a), W)) = 1
<1>1. One(a) \in [CappedObservations -> Nat]  BY DEF One
<1>2. {o \in CappedObservations : One(a)[o] > 0} = {a}  BY DEF One
<1>3. One(a) \in Counts  BY <1>1, <1>2, FS_Singleton DEF Counts
<1>4. Heard(One(a), W) = IF a.value \in W THEN {a} ELSE {}  BY <1>2 DEF Heard
<1>5. SumFunctionOnSet(One(a), {a}) = 1
  <2>1. IsFiniteSet({a}) /\ One(a)[a] = 1  BY FS_Singleton DEF One
  <2>2. {a} \ {a} = {}  OBVIOUS
  <2>3. \A x \in {a} : One(a)[x] \in Nat  BY <2>1
  <2>4. /\ SumFunctionOnSet(One(a), {a}) = One(a)[a] + SumFunctionOnSet(One(a), {a} \ {a})
        /\ SumFunctionOnSet(One(a), {}) = 0
    BY <2>1, <2>3, SumTakesOut
  <2> QED  BY <2>1, <2>2, <2>4
<1> QED  BY <1>3, <1>4, <1>5

LEMMA ClaimParts ==
  ASSUME NEW a \in CappedObservations, NEW T \in SUBSET Nat
  PROVE  LET claim == ObservationEvidence(a)
             part  == [claim EXCEPT !.traces = T] IN
           /\ claim \in Summaries /\ claim.traces = {a.trace} \ {0}
           /\ claim.level = a.level /\ claim.count = 1 /\ claim.sources = {a.source}
           /\ claim.first = a.time /\ claim.last = a.time
           /\ part \in Summaries /\ part.traces = T
           /\ part.level = a.level /\ part.count = 1 /\ part.sources = {a.source}
           /\ part.first = a.time /\ part.last = a.time
<1>1. /\ a.level \in 1..4 /\ a.source \in Sources /\ a.trace \in Nat
      /\ a.time \in Nat \ {0}
  BY CappedParts
<1>2. ObservationEvidence(a) \in Summaries
  BY <1>1 DEF ObservationEvidence, Summaries, Ranks, Verified
<1> DEFINE claim == ObservationEvidence(a)
<1>3. /\ claim.traces = {a.trace} \ {0} /\ claim.level = a.level /\ claim.count = 1
      /\ claim.sources = {a.source} /\ claim.first = a.time /\ claim.last = a.time
  BY DEF ObservationEvidence
<1>4. claim \in Summaries  BY <1>2
<1> HIDE DEF claim
<1> DEFINE part == [claim EXCEPT !.traces = T]
<1>5. /\ part \in Summaries /\ part.traces = T
      /\ part.level = claim.level /\ part.count = claim.count
      /\ part.sources = claim.sources
      /\ part.first = claim.first /\ part.last = claim.last
  BY <1>4 DEF Summaries
<1> HIDE DEF part
<1> QED  BY <1>3, <1>4, <1>5 DEF claim, part

LEMMA SaysOne ==
  ASSUME NEW a \in CappedObservations, NEW W, a.value \in W, NEW s,
         s.level = a.level, s.count = 1, s.sources = {a.source},
         s.first = a.time, s.last = a.time
  PROVE  Says(s, NoSummary, One(a), W)
<1>1. Heard(One(a), W) = {a} /\ SumFunctionOnSet(One(a), {a}) = 1
  BY OneIsCounted
<1>2. a.level \in 1..4 /\ a.time \in Nat \ {0}  BY CappedParts
<1> QED  BY <1>1, <1>2, NothingSaid DEF Says, SaysLevel, SaysFirst, SaysLast

\* What a batch knows is what was observed since it was empty; its own identifiers
\* are some of those observed.
BatchSays(b, f) ==
  /\ Says(b.evidence, NoSummary, f, Values \cup {0})
  /\ b.evidence.traces \subseteq Names(Heard(f, Values \cup {0}))
  /\ IsFiniteSet(b.evidence.traces) /\ Cardinality(b.evidence.traces) <= b.slots
  /\ \A v \in Values : /\ Says(b.claims[v], NoSummary, f, {v})
                       /\ b.claims[v].traces = Names(Heard(f, {v}))

\* What a node knows, once it is upgraded, is what it was loaded with, upgraded, and
\* what was merged since.
NodeSays(n, base, f) ==
  LET claims == EnsureFieldEvidence(n).claims
      from   == EnsureFieldEvidence(base).claims
  IN  /\ Says(n.evidence, base.evidence, f, Values \cup {0})
      /\ n.evidence.traces
           \subseteq base.evidence.traces \cup Names(Heard(f, Values \cup {0}))
      /\ \A v \in Values :
           /\ Says(claims[v], from[v], f, {v})
           /\ Limited(claims[v].traces)
                = Limited(from[v].traces \cup Names(Heard(f, {v})))

\* An upgrade changes nothing of a node that was merged, and its identifiers are few.
Settled(n) ==
  /\ \A v \in Values : /\ EnsureFieldEvidence(n).claims[v] = n.claims[v]
                       /\ Limited(n.claims[v].traces) = n.claims[v].traces
  /\ Cardinality(n.evidence.traces) <= MaxTraceIDs

LEMMA NothingCounted ==
  /\ NoObservations \in Counts
  /\ \A W : Heard(NoObservations, W) = {}
<1>1. NoObservations \in [CappedObservations -> Nat]  BY DEF NoObservations
<1>2. {o \in CappedObservations : NoObservations[o] > 0} = {}  BY DEF NoObservations
<1>3. NoObservations \in Counts  BY <1>1, <1>2, FS_EmptySet DEF Counts
<1> QED  BY <1>2, <1>3 DEF Heard

LEMMA EmptyBatchSays == BatchSays(EmptyBatch, NoObservations)
<1>1. EmptyBatch.evidence = NoSummary /\ EmptyBatch.slots = 0
      /\ \A v \in Values : EmptyBatch.claims[v] = NoSummary
  BY DEF EmptyBatch, NoClaims
<1>2. \A W : Says(NoSummary, NoSummary, NoObservations, W)
  BY NothingCounted, SaysItself, NoSummaryType
<1>3. NoSummary.traces = {}  BY DEF NoSummary
<1>4. IsFiniteSet({}) /\ Cardinality({}) = 0  BY FS_EmptySet
<1>5. \A W : Names(Heard(NoObservations, W)) = {}  BY NothingCounted DEF Names
<1> QED  BY <1>1, <1>2, <1>3, <1>4, <1>5 DEF BatchSays

LEMMA LoadedSays ==
  ASSUME NEW n \in AllNodes
  PROVE  NodeSays(n, n, NoObservations)
<1> DEFINE claims == EnsureFieldEvidence(n).claims
<1>1. EnsureFieldEvidence(n) \in AllNodes  BY EnsureParts
<1>2. n.evidence \in Summaries /\ \A v \in Values : claims[v] \in Summaries
  BY <1>1, NodeParts
<1>3. \A W : Heard(NoObservations, W) = {} /\ Names(Heard(NoObservations, W)) = {}
  BY NothingCounted DEF Names
<1>4. \A s \in Summaries : \A W : Says(s, s, NoObservations, W)
  BY <1>3, SaysItself
<1> QED  BY <1>2, <1>3, <1>4 DEF NodeSays

\* What AddNode makes of a batch, part by part.
LEMMA AddNodeParts ==
  ASSUME NEW b \in Batches, NEW a \in CappedObservations
  PROVE  LET claim == ObservationEvidence(a)
             kept  == IF b.slots < MaxTraceIDs THEN claim.traces ELSE {}
             new   == AddNode(b, a)
         IN  /\ new.evidence = MergeEvidenceSummary(b.evidence, [claim EXCEPT !.traces = kept])
             /\ new.slots = b.slots + Cardinality(kept)
             /\ \A v \in Values :
                  new.claims[v] = IF v = a.value
                                  THEN MergeEvidenceSummary(b.claims[v], claim)
                                  ELSE b.claims[v]
BY DEF AddNode

LEMMA AddedSays ==
  ASSUME NEW b \in Batches, NEW f \in Counts, NEW a \in CappedObservations,
         BatchSays(b, f)
  PROVE  LET h == [f EXCEPT ![a] = @ + 1] IN h \in Counts /\ BatchSays(AddNode(b, a), h)
<1> DEFINE h == [f EXCEPT ![a] = @ + 1]
           claim == ObservationEvidence(a)
           kept == IF b.slots < MaxTraceIDs THEN claim.traces ELSE {}
           part == [claim EXCEPT !.traces = kept]
           new == AddNode(b, a)
           All == Values \cup {0}
           g == One(a)
<1>1. f \in [CappedObservations -> Nat]  BY DEF Counts
<1>2. /\ h \in [CappedObservations -> Nat]
      /\ \A o \in CappedObservations : h[o] = f[o] + g[o]
  BY <1>1 DEF One
<1>3. g \in Counts  BY OneIsCounted
<1> HIDE DEF h, g
<1>4. /\ h \in Counts
      /\ \A W : Heard(h, W) = Heard(f, W) \cup Heard(g, W)
  BY <1>2, <1>3, HeardTogether
<1>5. /\ new.evidence = MergeEvidenceSummary(b.evidence, part)
      /\ new.slots = b.slots + Cardinality(kept)
      /\ \A v \in Values : new.claims[v] = IF v = a.value
                                           THEN MergeEvidenceSummary(b.claims[v], claim)
                                           ELSE b.claims[v]
  BY AddNodeParts
<1>6. a.trace \in Nat /\ a.value \in All  BY CappedParts
<1>7. kept \in SUBSET Nat /\ kept \subseteq {a.trace} \ {0}
      /\ (kept = {} \/ kept = {a.trace})
  <2>1. claim.traces = {a.trace} \ {0}  BY DEF ObservationEvidence
  <2> HIDE DEF claim
  <2> QED  BY <1>6, <2>1
<1>8. /\ claim \in Summaries /\ claim.traces = {a.trace} \ {0}
      /\ claim.level = a.level /\ claim.count = 1 /\ claim.sources = {a.source}
      /\ claim.first = a.time /\ claim.last = a.time
      /\ part \in Summaries /\ part.traces = kept
      /\ part.level = a.level /\ part.count = 1 /\ part.sources = {a.source}
      /\ part.first = a.time /\ part.last = a.time
  <2> HIDE DEF kept
  <2> QED  BY <1>7, ClaimParts
<1>9. /\ b.evidence \in Summaries /\ b.slots \in Nat
      /\ \A v \in Values : b.claims[v] \in Summaries
  BY BatchParts, EvidenceAssumption
<1>10. NoSummary \in Summaries  BY NoSummaryType
<1> HIDE DEF claim, kept, part, new
<1>11. /\ Says(b.evidence, NoSummary, f, All)
       /\ b.evidence.traces \subseteq Names(Heard(f, All))
       /\ IsFiniteSet(b.evidence.traces) /\ Cardinality(b.evidence.traces) <= b.slots
       /\ \A v \in Values : /\ Says(b.claims[v], NoSummary, f, {v})
                            /\ b.claims[v].traces = Names(Heard(f, {v}))
  BY DEF BatchSays
<1>12. Says(new.evidence, NoSummary, h, All)
  <2>1. Says(part, NoSummary, g, All)  BY <1>6, <1>8, SaysOne DEF g
  <2> HIDE DEF All
  <2> QED  BY <1>2, <1>3, <1>5, <1>8, <1>9, <1>10, <1>11, <2>1, SaysMerges
<1>13. \A x, y : MergeEvidenceSummary(x, y).traces = x.traces \cup y.traces
  BY DEF MergeEvidenceSummary
<1>14. \A W : Names(Heard(g, W)) = IF a.value \in W THEN {a.trace} \ {0} ELSE {}
  <2>1. \A W : Heard(g, W) = IF a.value \in W THEN {a} ELSE {}
    BY OneIsCounted DEF g
  <2> QED  BY <2>1 DEF Names
<1>15. \A W : Names(Heard(h, W)) = Names(Heard(f, W)) \cup Names(Heard(g, W))
  BY <1>4, NamesTogether
<1>16. new.evidence.traces \subseteq Names(Heard(h, All))
  <2>1. new.evidence.traces = b.evidence.traces \cup kept  BY <1>5, <1>8, <1>13
  <2>2. Names(Heard(g, All)) = {a.trace} \ {0}  BY <1>6, <1>14
  <2>3. Names(Heard(h, All)) = Names(Heard(f, All)) \cup ({a.trace} \ {0})
    BY <1>15, <2>2
  <2> QED  BY <1>7, <1>11, <2>1, <2>3
<1>17. IsFiniteSet(new.evidence.traces) /\ Cardinality(new.evidence.traces) <= new.slots
  <2>1. new.evidence.traces = b.evidence.traces \cup kept  BY <1>5, <1>8, <1>13
  <2>2. Cardinality(b.evidence.traces) \in Nat  BY <1>11, FS_CardinalityType
  <2>3. CASE kept = {}
    <3>1. Cardinality(kept) = 0  BY <2>3, FS_EmptySet
    <3>2. new.evidence.traces = b.evidence.traces  BY <2>1, <2>3
    <3> QED  BY <1>5, <1>9, <1>11, <3>1, <3>2
  <2>4. CASE kept # {}
    <3>1. kept = {a.trace} /\ Cardinality(kept) = 1  BY <1>7, <2>4, FS_Singleton
    <3>2. /\ IsFiniteSet(b.evidence.traces \cup {a.trace})
          /\ Cardinality(b.evidence.traces \cup {a.trace})
               <= Cardinality(b.evidence.traces) + 1
      <4>1. /\ IsFiniteSet(b.evidence.traces \cup {a.trace})
            /\ Cardinality(b.evidence.traces \cup {a.trace}) =
                 IF a.trace \in b.evidence.traces THEN Cardinality(b.evidence.traces)
                 ELSE Cardinality(b.evidence.traces) + 1
        BY <1>11, FS_AddElement
      <4> QED  BY <2>2, <4>1
    <3>3. Cardinality(new.evidence.traces) \in Nat
      BY <2>1, <3>1, <3>2, FS_CardinalityType
    <3> QED  BY <1>5, <1>9, <1>11, <2>1, <2>2, <3>1, <3>2, <3>3
  <2> QED  BY <2>3, <2>4
<1>18. ASSUME NEW v \in Values
       PROVE  /\ Says(new.claims[v], NoSummary, h, {v})
              /\ new.claims[v].traces = Names(Heard(h, {v}))
  <2>1. CASE v = a.value
    <3>1. new.claims[v] = MergeEvidenceSummary(b.claims[v], claim)  BY <1>5, <2>1
    <3>2. Says(claim, NoSummary, g, {v})  BY <1>8, <2>1, SaysOne DEF g
    <3>3. Says(MergeEvidenceSummary(b.claims[v], claim), NoSummary, h, {v})
      BY <1>2, <1>3, <1>8, <1>9, <1>10, <1>11, <3>2, SaysMerges
    <3>4. new.claims[v].traces = b.claims[v].traces \cup claim.traces
      BY <3>1, <1>13
    <3>5. Names(Heard(g, {v})) = {a.trace} \ {0}  BY <1>14, <2>1
    <3>6. Names(Heard(h, {v})) = Names(Heard(f, {v})) \cup ({a.trace} \ {0})
      BY <1>15, <3>5
    <3>7. b.claims[v].traces = Names(Heard(f, {v}))  BY <1>11
    <3> QED  BY <1>8, <3>1, <3>3, <3>4, <3>6, <3>7
  <2>2. CASE v # a.value
    <3>1. new.claims[v] = b.claims[v]  BY <1>5, <2>2
    <3>2. Heard(g, {v}) = {}
      <4>1. Heard(g, {v}) = IF a.value \in {v} THEN {a} ELSE {}
        BY OneIsCounted DEF g
      <4> QED  BY <2>2, <4>1
    <3>3. Says(NoSummary, NoSummary, g, {v})  BY <1>10, <3>2, SaysItself
    <3>4. MergeEvidenceSummary(b.claims[v], NoSummary) = b.claims[v]
      BY <1>9, <1>10, MergeCommutes, MergeIdentity
    <3>5. Says(MergeEvidenceSummary(b.claims[v], NoSummary), NoSummary, h, {v})
      BY <1>2, <1>3, <1>9, <1>10, <1>11, <3>3, SaysMerges
    <3>6. Heard(h, {v}) = Heard(f, {v})  BY <1>4, <3>2
    <3> QED  BY <1>11, <3>1, <3>4, <3>5, <3>6
  <2> QED  BY <2>1, <2>2
<1>19. BatchSays(new, h)  BY <1>12, <1>16, <1>17, <1>18 DEF BatchSays
<1> QED  BY <1>4, <1>19 DEF h, new

\* A node whose values all have claims is not changed by an upgrade.
LEMMA UpgradedOnce ==
  ASSUME NEW n, Good(n), n.observed \subseteq Candidates(n.claims),
         n.version \in Values => n.version \in Candidates(n.claims)
  PROVE  \A v \in Values : EnsureFieldEvidence(n).claims[v] = n.claims[v]
<1> SUFFICES ASSUME NEW v \in Values
             PROVE  EnsureFieldEvidence(n).claims[v] = n.claims[v]
  OBVIOUS
<1>1. n \in AllNodes /\ Neat(n.claims[v])  BY DEF Good, GoodClaims
<1>2. v \notin Candidates(n.claims) => n.claims[v] = NoSummary
  BY <1>1 DEF Neat, Candidates
<1>3. v \notin Candidates(n.claims) => v # n.version /\ v \notin n.observed
  OBVIOUS
<1> DEFINE s == EnsureFieldEvidence(n).claims[v]
<1>4. \/ v \in Candidates(n.claims) /\ s = n.claims[v]
      \/ v \notin Candidates(n.claims) /\ (v = n.version \/ v \in n.observed)
      \/ v \notin Candidates(n.claims) /\ s = NoSummary
  BY <1>1, EnsureParts
<1> QED  BY <1>2, <1>3, <1>4

\* The value a node selects is one of its claims.
LEMMA SelectedIsClaimed ==
  ASSUME NEW n \in AllNodes, Candidates(n.claims) # {}
  PROVE  Selected(n.claims) \in Candidates(n.claims)
<1>1. n.claims \in AllClaims  BY NodeParts
<1> QED  BY <1>1, SelectedIsPreferred

\* The node that a batch becomes.
LEMMA BuiltSays ==
  ASSUME NEW b, GoodBatch(b), NEW f \in Counts, BatchSays(b, f)
  PROVE  LET n == Build(b) IN
           /\ NodeSays(n, NoNode, f) /\ Settled(n)
           /\ n.evidence = b.evidence
           /\ \A v \in Values : n.claims[v] = LimitTraces(b.claims[v])
<1> DEFINE claims == [v \in Values |-> LimitTraces(b.claims[v])]
           m == [version |-> 0, observed |-> {}, evidence |-> b.evidence,
                 claims |-> claims]
           n == Build(b)
<1>1. /\ b \in Batches /\ b.evidence \in Summaries /\ b.slots \in 0..MaxTraceIDs
      /\ \A v \in Values : b.claims[v] \in Summaries
  BY BatchParts DEF GoodBatch
<1>2. \A v \in Values : claims[v] = LimitTraces(b.claims[v]) /\ claims[v] \in Summaries
  BY <1>1, LimitKeeps
<1>3. claims = [v \in Values |-> claims[v]]  OBVIOUS
<1>4. n = ResolveFieldEvidence(m)  BY DEF Build
<1> HIDE DEF claims, n
<1>5. claims \in AllClaims  BY <1>2, <1>3 DEF AllClaims
<1>6. /\ m \in AllNodes /\ m.version = 0 /\ m.observed = {}
      /\ m.claims = claims /\ m.evidence = b.evidence
  BY <1>1, <1>5 DEF AllNodes
<1> HIDE DEF m
<1>7. n \in AllNodes /\ n.claims = claims /\ n.evidence = b.evidence
  BY <1>4, <1>6, ResolveParts
<1>8. Good(n)  BY BuiltIsGood DEF n
<1>9. /\ n.observed \subseteq Candidates(n.claims)
      /\ n.version \in Values => n.version \in Candidates(n.claims)
  <2>1. CASE Candidates(claims) = {}
    <3>1. n = m  BY <1>4, <1>6, <2>1, ResolveShows
    <3> QED  BY <1>6, <3>1, EvidenceAssumption
  <2>2. CASE Candidates(claims) # {}
    <3>1. n.version = Selected(claims) /\ n.observed = {} \cup Candidates(claims)
      BY <1>4, <1>6, <2>2, ResolveShows
    <3>2. Selected(claims) \in Candidates(claims)
      BY <1>6, <2>2, SelectedIsClaimed
    <3> QED  BY <1>7, <3>1, <3>2
  <2> QED  BY <2>1, <2>2
<1>10. \A v \in Values : EnsureFieldEvidence(n).claims[v] = n.claims[v]
  BY <1>8, <1>9, UpgradedOnce
<1>11. /\ NoNode.evidence = NoSummary
       /\ \A v \in Values : EnsureFieldEvidence(NoNode).claims[v] = NoSummary
  <2>1. /\ NoNode.evidence = NoSummary /\ NoNode.observed = {}
        /\ NoNode.version \notin Values
        /\ \A v \in Values : NoNode.claims[v] = NoSummary
    BY EvidenceAssumption DEF NoNode, NoClaims
  <2>2. Good(NoNode)  BY FirstNodesAreGood
  <2> QED  BY <2>1, <2>2, UpgradedOnce
<1>12. NoSummary.traces = {}  BY DEF NoSummary
<1>13. ASSUME NEW v \in Values
       PROVE  /\ Says(n.claims[v], NoSummary, f, {v})
              /\ n.claims[v].traces = Limited(Names(Heard(f, {v})))
              /\ Limited(n.claims[v].traces) = n.claims[v].traces
  <2> DEFINE s == b.claims[v]
             t == n.claims[v]
  <2>1. s \in Summaries /\ t = LimitTraces(s)  BY <1>1, <1>2, <1>7
  <2>2. Says(s, NoSummary, f, {v}) /\ s.traces = Names(Heard(f, {v}))
    BY DEF BatchSays
  <2>3. s.traces \in SUBSET Nat  BY <2>1, SummaryParts
  <2> HIDE DEF s, t
  <2>4. t.traces = Limited(s.traces)  BY <2>1 DEF LimitTraces, Summaries
  <2>5. Says(t, NoSummary, f, {v})  BY <2>1, <2>2, LimitKeeps, SaysByParts
  <2>6. Limited(t.traces) = t.traces  BY <2>3, <2>4, LimitedTwice
  <2> QED  BY <2>2, <2>4, <2>5, <2>6 DEF s, t
<1>14. NodeSays(n, NoNode, f)
  <2>1. /\ Says(n.evidence, NoNode.evidence, f, Values \cup {0})
        /\ n.evidence.traces \subseteq Names(Heard(f, Values \cup {0}))
    BY <1>7, <1>11 DEF BatchSays
  <2>2. ASSUME NEW v \in Values
        PROVE  /\ Says(EnsureFieldEvidence(n).claims[v],
                       EnsureFieldEvidence(NoNode).claims[v], f, {v})
               /\ Limited(EnsureFieldEvidence(n).claims[v].traces)
                    = Limited(EnsureFieldEvidence(NoNode).claims[v].traces
                                \cup Names(Heard(f, {v})))
    <3>1. EnsureFieldEvidence(NoNode).claims[v].traces \cup Names(Heard(f, {v}))
            = Names(Heard(f, {v}))
      BY <1>11, <1>12
    <3> QED  BY <1>10, <1>11, <1>13, <3>1
  <2> QED  BY <2>1, <2>2 DEF NodeSays
<1>15. Cardinality(n.evidence.traces) <= MaxTraceIDs
  <2>1. /\ Cardinality(b.evidence.traces) <= b.slots
        /\ Cardinality(b.evidence.traces) \in Nat
    BY FS_CardinalityType DEF BatchSays
  <2> QED  BY <1>1, <1>7, <2>1, EvidenceAssumption
<1>16. Settled(n)  BY <1>10, <1>13, <1>15 DEF Settled
<1> QED  BY <1>2, <1>7, <1>14, <1>16 DEF n

\* What Merge makes of two nodes, part by part.
LEMMA MergedParts ==
  ASSUME NEW a, NEW b, Good(a), Good(b)
  PROVE  LET m == Merge(a, b) IN
           /\ m.evidence = LimitTraces(MergeEvidenceSummary(a.evidence, b.evidence))
           /\ \A v \in Values :
                m.claims[v] = LimitTraces(MergeEvidenceSummary(
                                            EnsureFieldEvidence(a).claims[v],
                                            EnsureFieldEvidence(b).claims[v]))
           /\ m.version \in Values => m.version \in Candidates(m.claims)
<1> DEFINE d == EnsureFieldEvidence(a)
           e == EnsureFieldEvidence(b)
           x == Upgraded(a)
           y == Upgraded(b)
           both == [version |-> x.version, observed |-> x.observed \cup y.observed,
                    claims |-> MergeClaims(x.claims, y.claims),
                    evidence |-> MergeEvidenceSummary(x.evidence, y.evidence)]
           n == MergeNode(x, y)
           m == Merge(a, b)
           claims == [v \in Values |-> LimitTraces(n.claims[v])]
<1>1. a \in AllNodes /\ b \in AllNodes  BY DEF Good
<1>2. /\ d \in AllNodes /\ d.evidence = a.evidence /\ d.version = a.version
      /\ e \in AllNodes /\ e.evidence = b.evidence
      /\ a.version \in Values => d.claims[a.version].count > 0
  <2>1. /\ d \in AllNodes /\ d.evidence = a.evidence /\ d.version = a.version
        /\ e \in AllNodes /\ e.evidence = b.evidence
    BY <1>1, EnsureParts
  <2>2. ASSUME NEW v \in Values, v = a.version
        PROVE  d.claims[v].count > 0
    <3>1. \/ v \in Candidates(a.claims) /\ d.claims[v] = a.claims[v]
          \/ d.claims[v].count = 1
          \/ v # a.version
      BY <1>1, EnsureParts
    <3> HIDE DEF d
    <3> QED  BY <2>2, <3>1 DEF Candidates
  <2> QED  BY <2>1, <2>2
<1>3. x = ResolveFieldEvidence(d) /\ y = ResolveFieldEvidence(e)  BY DEF Upgraded
<1>4. Good(x) /\ Whole(x) /\ Good(y) /\ Whole(y)  BY UpgradedIsGood
<1>5. n = ResolveFieldEvidence(both)  BY DEF MergeNode
<1>6. m = [n EXCEPT !.claims = [v \in Values |-> LimitTraces(@[v])],
                    !.evidence = LimitTraces(@)]
  BY DEF Merge, Upgraded
<1> HIDE DEF d, e, x, y
<1>7. /\ x \in AllNodes /\ x.claims = d.claims /\ x.evidence = a.evidence
      /\ y \in AllNodes /\ y.claims = e.claims /\ y.evidence = b.evidence
  BY <1>2, <1>3, ResolveParts
<1>8. /\ Good(n) /\ Whole(n)
      /\ n.evidence = MergeEvidenceSummary(x.evidence, y.evidence)
      /\ \A v \in Values :
           n.claims[v] = MergeEvidenceSummary(x.claims[v], y.claims[v])
  BY <1>4, MergeNodeIsGood
<1> HIDE DEF n, m
<1>9. n \in AllNodes /\ n.evidence \in Summaries
      /\ \A v \in Values : n.claims[v] \in Summaries
  BY <1>8, NodeParts DEF Good
<1>10. n = [version |-> n.version, observed |-> n.observed,
            claims |-> n.claims, evidence |-> n.evidence]
  BY <1>9 DEF AllNodes
<1>11. m = [version |-> n.version, observed |-> n.observed,
            claims |-> claims, evidence |-> LimitTraces(n.evidence)]
  BY <1>6, <1>10
<1>12. \A v \in Values : claims[v] = LimitTraces(n.claims[v])  OBVIOUS
<1> HIDE DEF claims
<1>13. /\ m.version = n.version /\ m.claims = claims
       /\ m.evidence = LimitTraces(n.evidence)
  BY <1>11
<1>14. \A v \in Values : claims[v].count = n.claims[v].count
  BY <1>9, <1>12, LimitKeeps
<1>15. Candidates(m.claims) = Candidates(n.claims)
  BY <1>13, <1>14 DEF Candidates
<1>16. n.version \in Values => n.version \in Candidates(n.claims)
  <2>1. CASE Candidates(n.claims) # {}
    <3>1. n.version = Selected(n.claims)  BY <1>8, <2>1 DEF Whole, Tidy
    <3> QED  BY <1>9, <2>1, <3>1, SelectedIsClaimed
  <2>2. CASE Candidates(n.claims) = {}
    <3>1. \A v \in Values : ~(n.claims[v].count > 0)  BY <2>2 DEF Candidates
    <3>2. \A v \in Values : n.claims[v].count = x.claims[v].count + y.claims[v].count
      BY <1>8, MergeParts
    <3>3. \A v \in Values : x.claims[v].count \in Nat /\ y.claims[v].count \in Nat
      BY <1>7, NodeParts, SummaryNumbers
    <3>4. \A v \in Values : ~(x.claims[v].count > 0)  BY <3>1, <3>2, <3>3
    <3>5. a.version \notin Values  BY <1>2, <1>7, <3>4
    <3>6. Candidates(d.claims) = {}  BY <1>7, <3>4 DEF Candidates
    <3>7. x.version = a.version
      <4>1. x = d  BY <1>2, <1>3, <3>6, ResolveShows
      <4> QED  BY <1>2, <4>1
    <3>8. both \in AllNodes /\ both.claims = n.claims /\ both.version = x.version
      <4>1. both.claims = MergeClaims(x.claims, y.claims) /\ both.version = x.version
        OBVIOUS
      <4>2. \A v \in Values : MergeEvidenceSummary(x.claims[v], y.claims[v]) \in Summaries
        BY <1>7, NodeParts, MergeType
      <4>3. MergeClaims(x.claims, y.claims) \in AllClaims
        BY <4>2 DEF MergeClaims, AllClaims
      <4>4. MergeEvidenceSummary(x.evidence, y.evidence) \in Summaries
        BY <1>8, <1>9
      <4>5. both \in AllNodes
        <5> DEFINE c == MergeClaims(x.claims, y.claims)
                   s == MergeEvidenceSummary(x.evidence, y.evidence)
        <5>1. /\ c \in AllClaims /\ s \in Summaries
              /\ x.version \in Values \cup {0}
              /\ x.observed \cup y.observed \in SUBSET Values
          BY <1>7, <4>3, <4>4, NodeParts
        <5>2. both = [version |-> x.version, observed |-> x.observed \cup y.observed,
                      claims |-> c, evidence |-> s]
          OBVIOUS
        <5> HIDE DEF c, s, both
        <5> QED  BY <5>1, <5>2 DEF AllNodes
      <4>6. n.claims = both.claims  BY <1>5, <4>5, ResolveParts
      <4> QED  BY <4>1, <4>5, <4>6
    <3>9. n = both
      <4> HIDE DEF both
      <4> QED  BY <1>5, <2>2, <3>8, ResolveShows
    <3> QED  BY <3>5, <3>7, <3>8, <3>9
  <2> QED  BY <2>1, <2>2
<1> QED  BY <1>7, <1>8, <1>12, <1>13, <1>15, <1>16 DEF d, e, m

\* Merging a batch into a node.
LEMMA MergedSays ==
  ASSUME NEW n, Good(n), NEW base \in AllNodes, NEW f \in Counts, NodeSays(n, base, f),
         NEW b, GoodBatch(b), NEW g \in Counts, BatchSays(b, g),
         NEW h \in [CappedObservations -> Nat],
         \A o \in CappedObservations : h[o] = f[o] + g[o]
  PROVE  LET m == Merge(n, Build(b)) IN NodeSays(m, base, h) /\ Settled(m)
<1> DEFINE c == Build(b)
           m == Merge(n, c)
           All == Values \cup {0}
           e(v) == EnsureFieldEvidence(n).claims[v]
           from(v) == EnsureFieldEvidence(base).claims[v]
<1>1. Good(c)  BY BuiltIsGood
<1>2. /\ NodeSays(c, NoNode, g) /\ Settled(c) /\ c.evidence = b.evidence
      /\ \A v \in Values : c.claims[v] = LimitTraces(b.claims[v])
  BY BuiltSays
<1>3. \A v \in Values : EnsureFieldEvidence(c).claims[v] = c.claims[v]
  BY <1>2 DEF Settled
<1> HIDE DEF c
<1>4. /\ m.evidence = LimitTraces(MergeEvidenceSummary(n.evidence, c.evidence))
      /\ \A v \in Values :
           m.claims[v] = LimitTraces(MergeEvidenceSummary(e(v), c.claims[v]))
      /\ m.version \in Values => m.version \in Candidates(m.claims)
  BY <1>1, <1>3, MergedParts
<1>5. Good(m) /\ Whole(m)  BY <1>1, MergedIsGood
<1> HIDE DEF m
<1>6. \A v \in Values : EnsureFieldEvidence(m).claims[v] = m.claims[v]
  BY <1>4, <1>5, UpgradedOnce DEF Whole
<1>7. /\ n \in AllNodes /\ c \in AllNodes /\ b \in Batches
      /\ EnsureFieldEvidence(n) \in AllNodes /\ EnsureFieldEvidence(base) \in AllNodes
  BY <1>1, EnsureParts DEF Good, GoodBatch
<1>8. /\ n.evidence \in Summaries /\ c.evidence \in Summaries /\ base.evidence \in Summaries
      /\ \A v \in Values : /\ e(v) \in Summaries /\ from(v) \in Summaries
                           /\ c.claims[v] \in Summaries /\ b.claims[v] \in Summaries
  BY <1>7, NodeParts, BatchParts
<1>9. NoSummary \in Summaries  BY NoSummaryType
<1>10. \A x, y : MergeEvidenceSummary(x, y).traces = x.traces \cup y.traces
  BY DEF MergeEvidenceSummary
<1>11. \A s \in Summaries : LimitTraces(s).traces = Limited(s.traces)
  BY DEF LimitTraces, Summaries
<1>12. \A W : /\ Heard(h, W) = Heard(f, W) \cup Heard(g, W)
              /\ Names(Heard(h, W)) = Names(Heard(f, W)) \cup Names(Heard(g, W))
  BY HeardTogether, NamesTogether
<1>13. ASSUME NEW v \in Values
       PROVE  /\ Says(m.claims[v], from(v), h, {v})
              /\ Limited(m.claims[v].traces)
                   = Limited(from(v).traces \cup Names(Heard(h, {v})))
              /\ Limited(m.claims[v].traces) = m.claims[v].traces
  <2> DEFINE s == e(v)
             t == b.claims[v]
             u == LimitTraces(t)
             w == MergeEvidenceSummary(s, u)
             r == from(v)
             F == Names(Heard(f, {v}))
             G == Names(Heard(g, {v}))
  <2>1. m.claims[v] = LimitTraces(w)  BY <1>2, <1>4
  <2>2. s \in Summaries /\ t \in Summaries /\ r \in Summaries /\ u \in Summaries
    BY <1>8, LimitKeeps
  <2>3. /\ Says(s, r, f, {v}) /\ Limited(s.traces) = Limited(r.traces \cup F)
    BY DEF NodeSays
  <2>4. Says(t, NoSummary, g, {v}) /\ t.traces = G  BY DEF BatchSays
  <2>5. F \in SUBSET Nat /\ G \in SUBSET Nat  BY NamesType
  <2>6. Names(Heard(h, {v})) = F \cup G  BY <1>12
  <2>7. w.traces = s.traces \cup u.traces /\ u.traces = Limited(t.traces)
    BY <1>10, <1>11, <2>2
  <2> HIDE DEF s, t, r, F, G
  <2>8. Says(u, NoSummary, g, {v})  BY <2>2, <2>4, LimitKeeps, SaysByParts
  <2> HIDE DEF u
  <2>9. Says(w, r, h, {v})  BY <1>9, <2>2, <2>3, <2>8, SaysMerges
  <2>10. w \in Summaries  BY <2>2, MergeType
  <2> HIDE DEF w
  <2>11. Says(LimitTraces(w), r, h, {v})  BY <2>9, <2>10, LimitKeeps, SaysByParts
  <2>12. LimitTraces(w).traces = Limited(s.traces \cup Limited(G))
    BY <1>11, <2>4, <2>7, <2>10
  <2>13. Limited(s.traces \cup Limited(G)) = Limited(r.traces \cup (F \cup G))
    <3>1. s.traces \in SUBSET Nat /\ r.traces \in SUBSET Nat  BY <2>2, SummaryParts
    <3>2. Limited(G) \in SUBSET Nat /\ Limited(Limited(G)) = Limited(G)
      BY <2>5, LimitedTwice
    <3>3. Limited(s.traces \cup Limited(G)) = Limited(Limited(s.traces) \cup Limited(G))
      BY <3>1, <3>2, LimitedOfUnion
    <3>4. Limited((r.traces \cup F) \cup G)
            = Limited(Limited(r.traces \cup F) \cup Limited(G))
      <4>1. r.traces \cup F \in SUBSET Nat  BY <2>5, <3>1
      <4> QED  BY <2>5, <4>1, LimitedOfUnion
    <3>5. (r.traces \cup F) \cup G = r.traces \cup (F \cup G)  OBVIOUS
    <3> QED  BY <2>3, <3>3, <3>4, <3>5
  <2>14. Limited(LimitTraces(w).traces) = LimitTraces(w).traces
    <3>1. w.traces \in SUBSET Nat  BY <2>10, SummaryParts
    <3> QED  BY <1>11, <2>10, <3>1, LimitedTwice
  <2> QED  BY <2>1, <2>6, <2>11, <2>12, <2>13, <2>14 DEF r
<1>14. /\ Says(m.evidence, base.evidence, h, All)
       /\ m.evidence.traces \subseteq base.evidence.traces \cup Names(Heard(h, All))
       /\ Cardinality(m.evidence.traces) <= MaxTraceIDs
  <2> DEFINE w == MergeEvidenceSummary(n.evidence, c.evidence)
  <2>1. /\ Says(n.evidence, base.evidence, f, All)
        /\ n.evidence.traces \subseteq base.evidence.traces \cup Names(Heard(f, All))
    BY DEF NodeSays
  <2>2. /\ Says(c.evidence, NoSummary, g, All)
        /\ c.evidence.traces \subseteq Names(Heard(g, All))
    BY <1>2 DEF BatchSays
  <2>3. w \in Summaries  BY <1>8, MergeType
  <2>4. Says(w, base.evidence, h, All)
    <3> HIDE DEF All
    <3> QED  BY <1>8, <1>9, <2>1, <2>2, SaysMerges
  <2>5. w.traces \subseteq base.evidence.traces \cup Names(Heard(h, All))
    <3>1. w.traces = n.evidence.traces \cup c.evidence.traces  BY <1>10
    <3>2. Names(Heard(h, All)) = Names(Heard(f, All)) \cup Names(Heard(g, All))
      BY <1>12
    <3> QED  BY <2>1, <2>2, <3>1, <3>2
  <2>6. m.evidence = LimitTraces(w)  BY <1>4
  <2> HIDE DEF w, All
  <2>7. Says(m.evidence, base.evidence, h, All)
    BY <2>3, <2>4, <2>6, LimitKeeps, SaysByParts
  <2>8. w.traces \in SUBSET Nat /\ m.evidence.traces = Limited(w.traces)
    BY <1>11, <2>3, <2>6, SummaryParts
  <2>9. m.evidence.traces \subseteq w.traces
    <3>1. Limited(w.traces) \in SUBSET (w.traces \ {0})  BY <2>8, LimitedParts
    <3> QED  BY <2>8, <3>1
  <2>10. Cardinality(m.evidence.traces) <= MaxTraceIDs  BY <2>8, LimitedIsSmall
  <2> QED  BY <2>5, <2>7, <2>9, <2>10
<1>15. NodeSays(m, base, h)  BY <1>6, <1>13, <1>14 DEF NodeSays
<1>16. Settled(m)  BY <1>6, <1>13, <1>14 DEF Settled
<1> QED  BY <1>15, <1>16 DEF m, c

\* The graph and the batch say what was merged and gathered.  A scan starts from
\* nothing.
OriginInv ==
  /\ gathered \in Counts /\ arrived \in Counts
  /\ BatchSays(batch, gathered) /\ NodeSays(node, loaded, arrived)
  /\ arrived # NoObservations => Settled(node)
  /\ process = "scan" => loaded = NoNode /\ arrived = NoObservations

LEMMA InitOrigin == Init /\ TypeOK => OriginInv
<1> SUFFICES ASSUME Init, TypeOK PROVE OriginInv
  OBVIOUS
<1>1. /\ batch = EmptyBatch /\ gathered = NoObservations /\ arrived = NoObservations
      /\ loaded = node /\ node \in AllNodes
      /\ process = "scan" => node = NoNode
  BY DEF Init, TypeOK
<1>2. BatchSays(batch, gathered)  BY <1>1, EmptyBatchSays
<1>3. NodeSays(node, loaded, arrived)  BY <1>1, LoadedSays
<1> QED  BY <1>1, <1>2, <1>3, NothingCounted DEF OriginInv

LEMMA NextOrigin ==
  Inv /\ TypeOK' /\ OriginInv /\ [Next]_vars => OriginInv'
<1> SUFFICES ASSUME Inv, TypeOK', OriginInv, [Next]_vars
             PROVE  OriginInv'
  OBVIOUS
<1>1. /\ gathered \in Counts /\ arrived \in Counts
      /\ BatchSays(batch, gathered) /\ NodeSays(node, loaded, arrived)
      /\ arrived # NoObservations => Settled(node)
      /\ process = "scan" => loaded = NoNode /\ arrived = NoObservations
  BY DEF OriginInv
<1>2. /\ GoodBatch(batch) /\ Good(node) /\ batch \in Batches
      /\ loaded \in AllNodes /\ node' \in AllNodes
      /\ policy \in Policies
  BY DEF Inv, SelectionInv, TypeOK, GoodBatch
<1>3. ASSUME NEW o \in Observations, AddObservation(o)
      PROVE  OriginInv'
  <2> DEFINE a == Apply(policy, o)
             h == [gathered EXCEPT ![a] = @ + 1]
  <2>1. /\ batch' = AddNode(batch, a) /\ gathered' = h
        /\ node' = node /\ loaded' = loaded /\ arrived' = arrived /\ process' = process
    BY <1>3 DEF AddObservation
  <2>2. a \in CappedObservations  BY <1>2 DEF CappedObservations
  <2> HIDE DEF a
  <2>3. h \in Counts /\ BatchSays(AddNode(batch, a), h)
    BY <1>1, <1>2, <2>2, AddedSays
  <2> HIDE DEF h
  <2> QED  BY <1>1, <2>1, <2>3 DEF OriginInv
<1>4. ASSUME BatchIsDone
      PROVE  /\ batch' = EmptyBatch /\ gathered' = NoObservations /\ loaded' = loaded
             /\ BatchSays(batch, gathered)' /\ gathered' \in Counts
             /\ arrived' \in [CappedObservations -> Nat] /\ arrived' \in Counts
             /\ \A o \in CappedObservations : arrived'[o] = arrived[o] + gathered[o]
  <2>1. /\ batch' = EmptyBatch /\ gathered' = NoObservations /\ loaded' = loaded
        /\ arrived' = [o \in CappedObservations |-> arrived[o] + gathered[o]]
    BY <1>4 DEF BatchIsDone
  <2>2. \A o \in CappedObservations : arrived[o] \in Nat /\ gathered[o] \in Nat
    BY <1>1, HeardIsFinite
  <2>3. /\ arrived' \in [CappedObservations -> Nat]
        /\ \A o \in CappedObservations : arrived'[o] = arrived[o] + gathered[o]
    BY <2>1, <2>2
  <2>4. arrived' \in Counts  BY <1>1, <2>3, HeardTogether
  <2> QED  BY <2>1, <2>3, <2>4, EmptyBatchSays, NothingCounted
<1>5. CASE MergeBatch
  <2>1. BatchIsDone /\ node' = Merge(node, Build(batch)) /\ process' = process
        /\ process = "collect"
    BY <1>5 DEF MergeBatch
  <2>2. NodeSays(node', loaded, arrived') /\ Settled(node')
    BY <1>1, <1>2, <1>4, <2>1, MergedSays
  <2> QED  BY <1>4, <2>1, <2>2 DEF OriginInv
<1>6. CASE WriteScan
  <2>1. BatchIsDone /\ node' = Build(batch) /\ process' = "scanned" /\ process = "scan"
    BY <1>6 DEF WriteScan
  <2>2. arrived = NoObservations /\ loaded = NoNode  BY <1>1, <2>1
  <2>3. arrived' = gathered
    <3>1. \A o \in CappedObservations : arrived'[o] = gathered[o]
      <4> SUFFICES ASSUME NEW o \in CappedObservations PROVE arrived'[o] = gathered[o]
        OBVIOUS
      <4>1. arrived[o] = 0  BY <2>2 DEF NoObservations
      <4>2. gathered[o] \in Nat  BY <1>1, HeardIsFinite
      <4> QED  BY <1>4, <2>1, <4>1, <4>2
    <3>2. gathered \in [CappedObservations -> Nat]  BY <1>1 DEF Counts
    <3>3. arrived' \in [CappedObservations -> Nat]  BY <1>4, <2>1
    <3> QED  BY <3>1, <3>2, <3>3
  <2>4. NodeSays(node', NoNode, gathered) /\ Settled(node')
    BY <1>1, <1>2, <2>1, BuiltSays
  <2> QED  BY <1>4, <2>1, <2>2, <2>3, <2>4 DEF OriginInv
<1>7. ASSUME NEW p \in Policies, Restart(p)
      PROVE  OriginInv'
  <2>1. /\ process' = "collect" /\ batch' = EmptyBatch /\ loaded' = node'
        /\ gathered' = NoObservations /\ arrived' = NoObservations
    BY <1>7 DEF Restart
  <2>2. NodeSays(node', loaded', arrived')  BY <1>2, <2>1, LoadedSays
  <2> QED  BY <2>1, <2>2, EmptyBatchSays, NothingCounted DEF OriginInv
<1>8. CASE UNCHANGED vars
  BY <1>1, <1>8 DEF vars, OriginInv
<1> QED  BY <1>3, <1>5, <1>6, <1>7, <1>8 DEF Next

LEMMA MaxIs ==
  ASSUME NEW S \in SUBSET Nat, NEW m \in S, \A n \in S : n <= m
  PROVE  Sets!Max(S) = m
<1>1. PICK k : k = Sets!Max(S)  OBVIOUS
<1>2. k \in S /\ \A n \in S : k >= n  BY <1>1 DEF Sets!Max
<1> QED  BY <1>1, <1>2

LEMMA MinIs ==
  ASSUME NEW S \in SUBSET Nat, NEW m \in S, \A n \in S : m <= n
  PROVE  Sets!Min(S) = m
<1>1. PICK k : k = Sets!Min(S)  OBVIOUS
<1>2. k \in S /\ \A n \in S : k =< n  BY <1>1 DEF Sets!Min
<1> QED  BY <1>1, <1>2

\* The summary s and the computed summary r agree on everything but trace identifiers,
\* of which r names those of the set given.
Agrees(s, r, traces) ==
  /\ s = [level |-> r.level, count |-> r.count, sources |-> r.sources,
          traces |-> s.traces, first |-> r.first, last |-> r.last]
  /\ r.traces = traces
  /\ r = [level |-> r.level, count |-> r.count, sources |-> r.sources,
          traces |-> r.traces, first |-> r.first, last |-> r.last]

\* What a summary says is what Reference computes.
LEMMA SaysReference ==
  ASSUME NEW s \in Summaries, NEW base \in Summaries, arrived \in Counts, NEW W,
         Says(s, base, arrived, W)
  PROVE  Agrees(s, Reference(base, Told(W)),
                Limited(base.traces \cup {o.trace : o \in Told(W)}))
<1> DEFINE T == Told(W)
           r == Reference(base, T)
           levels == {base.level} \cup {o.level : o \in T}
           lasts == {base.last} \cup {o.time : o \in T}
           times == ({base.first} \cup {o.time : o \in T}) \ {0}
<1>1. T = Heard(arrived, W)  BY DEF Told, Heard
<1>2. \A o \in T : o \in CappedObservations  BY DEF Told
<1>3. r = [level   |-> Sets!Max(levels),
           count   |-> base.count + SumFunctionOnSet(arrived, T),
           sources |-> base.sources \cup {o.source : o \in T},
           traces  |-> Limited(base.traces \cup {o.trace : o \in T}),
           first   |-> IF times = {} THEN 0 ELSE Sets!Min(times),
           last    |-> Sets!Max(lasts)]
  BY DEF Reference
<1>4. /\ s.level \in Nat /\ s.first \in Nat /\ s.last \in Nat
      /\ base.level \in Nat /\ base.first \in Nat /\ base.last \in Nat
      /\ \A o \in T : o.level \in Nat /\ o.time \in Nat \ {0}
  BY <1>2, SummaryNumbers, CappedParts
<1> HIDE DEF T
<1>5. /\ SaysLevel(s, base, T) /\ SaysFirst(s, base, T) /\ SaysLast(s, base, T)
      /\ s.count = base.count + SumFunctionOnSet(arrived, T)
      /\ s.sources = base.sources \cup {o.source : o \in T}
  BY <1>1 DEF Says
<1>6. Sets!Max(levels) = s.level
  <2>1. levels \in SUBSET Nat  BY <1>4
  <2>2. s.level \in levels  BY <1>5 DEF SaysLevel
  <2>3. \A n \in levels : n <= s.level  BY <1>4, <1>5 DEF SaysLevel
  <2> HIDE DEF levels
  <2> QED  BY <2>1, <2>2, <2>3, MaxIs
<1>7. Sets!Max(lasts) = s.last
  <2>1. lasts \in SUBSET Nat  BY <1>4
  <2>2. s.last \in lasts  BY <1>5 DEF SaysLast
  <2>3. \A n \in lasts : n <= s.last  BY <1>4, <1>5 DEF SaysLast
  <2> HIDE DEF lasts
  <2> QED  BY <2>1, <2>2, <2>3, MaxIs
<1>8. (IF times = {} THEN 0 ELSE Sets!Min(times)) = s.first
  <2>1. CASE s.first = 0
    <3>1. base.first = 0 /\ T = {}  BY <1>5, <2>1 DEF SaysFirst
    <3> QED  BY <2>1, <3>1
  <2>2. CASE s.first # 0
    <3>1. times \in SUBSET Nat  BY <1>4
    <3>2. s.first \in times  BY <1>5, <2>2 DEF SaysFirst
    <3>3. \A n \in times : s.first <= n  BY <1>4, <1>5 DEF SaysFirst
    <3> HIDE DEF times
    <3> QED  BY <3>1, <3>2, <3>3, MinIs
  <2> QED  BY <2>1, <2>2
<1> HIDE DEF levels, lasts, times
<1>9. /\ r.level = s.level /\ r.count = s.count /\ r.sources = s.sources
      /\ r.first = s.first /\ r.last = s.last
      /\ r.traces = Limited(base.traces \cup {o.trace : o \in T})
      /\ r = [level |-> r.level, count |-> r.count, sources |-> r.sources,
              traces |-> r.traces, first |-> r.first, last |-> r.last]
  BY <1>3, <1>5, <1>6, <1>7, <1>8
<1> HIDE DEF r
<1>10. s = [level |-> s.level, count |-> s.count, sources |-> s.sources,
            traces |-> s.traces, first |-> s.first, last |-> s.last]
  BY DEF Summaries
<1>11. s = [level |-> r.level, count |-> r.count, sources |-> r.sources,
            traces |-> s.traces, first |-> r.first, last |-> r.last]
  BY <1>9, <1>10
<1> DEFINE limited == Limited(base.traces \cup {o.trace : o \in T})
<1>12. Agrees(s, r, limited)
  <2> HIDE DEF limited
  <2>1. r.traces = limited  BY <1>9 DEF limited
  <2> QED  BY <1>9, <1>11, <2>1 DEF Agrees
<1> QED  BY <1>12 DEF r, T, limited

\* What the graph says of the node is what Reference computes at once from what the
\* process started with and the multiset of what was merged since: the order of the
\* observations, their grouping into requests and empty requests between them make no
\* difference.
THEOREM GraphIsFunctionOfEvidence == Spec => []FunctionOfEvidence
<1>1. Inv /\ OriginInv => FunctionOfEvidence
  <2> SUFFICES ASSUME Inv, OriginInv, arrived # NoObservations
               PROVE  /\ \A v \in Values : node.claims[v]
                           = Reference(EnsureFieldEvidence(loaded).claims[v], Told({v}))
                      /\ node.evidence
                           = [Reference(loaded.evidence, Told(Values \cup {0}))
                                EXCEPT !.traces = node.evidence.traces]
                      /\ node.evidence.traces \subseteq loaded.evidence.traces
                              \cup {o.trace : o \in Told(Values \cup {0})}
                      /\ Cardinality(node.evidence.traces) <= MaxTraceIDs
    BY DEF FunctionOfEvidence
  <2>1. /\ arrived \in Counts /\ NodeSays(node, loaded, arrived) /\ Settled(node)
    BY DEF OriginInv
  <2>2. /\ node \in AllNodes /\ loaded \in AllNodes
        /\ EnsureFieldEvidence(loaded) \in AllNodes
    BY EnsureParts DEF Inv, TypeOK
  <2>3. \A W : Told(W) = Heard(arrived, W)  BY DEF Told, Heard
  <2>4. \A W : Names(Heard(arrived, W)) \ {0} = {o.trace : o \in Told(W)} \ {0}
    BY <2>3 DEF Names
  <2>5. ASSUME NEW v \in Values
        PROVE  node.claims[v]
                 = Reference(EnsureFieldEvidence(loaded).claims[v], Told({v}))
    <3> DEFINE s == node.claims[v]
               base == EnsureFieldEvidence(loaded).claims[v]
               r == Reference(base, Told({v}))
    <3>1. s \in Summaries /\ base \in Summaries  BY <2>2, NodeParts
    <3>2. /\ Says(s, base, arrived, {v})
          /\ s.traces = Limited(base.traces \cup Names(Heard(arrived, {v})))
      BY <2>1 DEF Settled, NodeSays
    <3> HIDE DEF s, base
    <3>3. Agrees(s, r, Limited(base.traces \cup {o.trace : o \in Told({v})}))
      BY <2>1, <3>1, <3>2, SaysReference
    <3>4. s.traces = r.traces
      <4> DEFINE A == base.traces \cup Names(Heard(arrived, {v}))
                 B == base.traces \cup {o.trace : o \in Told({v})}
      <4>1. A \ {0} = B \ {0}  BY <2>4
      <4> HIDE DEF A, B
      <4>2. Limited(A) = Limited(B)  BY <4>1 DEF Limited
      <4>3. r.traces = Limited(B)  BY <3>3 DEF Agrees, B
      <4> QED  BY <3>2, <4>2, <4>3 DEF A, B
    <3> HIDE DEF r
    <3>5. s = r  BY <3>3, <3>4 DEF Agrees
    <3> QED  BY <3>5 DEF s, base, r
  <2>6. node.evidence = [Reference(loaded.evidence, Told(Values \cup {0}))
                           EXCEPT !.traces = node.evidence.traces]
    <3> DEFINE s == node.evidence
               base == loaded.evidence
               r == Reference(base, Told(Values \cup {0}))
    <3>1. s \in Summaries /\ base \in Summaries  BY <2>2, NodeParts
    <3>2. Says(s, base, arrived, Values \cup {0})  BY <2>1 DEF NodeSays
    <3> HIDE DEF s, base
    <3>3. Agrees(s, r, Limited(base.traces \cup {o.trace : o \in Told(Values \cup {0})}))
      BY <2>1, <3>1, <3>2, SaysReference
    <3> HIDE DEF r
    <3>4. [r EXCEPT !.traces = s.traces] =
            [level |-> r.level, count |-> r.count, sources |-> r.sources,
             traces |-> s.traces, first |-> r.first, last |-> r.last]
      BY <3>3 DEF Agrees
    <3>5. s = [r EXCEPT !.traces = s.traces]  BY <3>3, <3>4 DEF Agrees
    <3> QED  BY <3>5 DEF s, base, r
  <2>7. node.evidence.traces \subseteq loaded.evidence.traces
                              \cup {o.trace : o \in Told(Values \cup {0})}
    <3>1. node.evidence.traces
            \subseteq loaded.evidence.traces \cup Names(Heard(arrived, Values \cup {0}))
      BY <2>1 DEF NodeSays
    <3> QED  BY <2>3, <3>1 DEF Names
  <2>8. Cardinality(node.evidence.traces) <= MaxTraceIDs  BY <2>1 DEF Settled
  <2> QED  BY <2>5, <2>6, <2>7, <2>8
<1>2. Init => OriginInv  BY InitOrigin, InitTypeSound
<1>3. Inv /\ Inv' /\ OriginInv /\ [Next]_vars => OriginInv'
  BY NextOrigin DEF Inv
<1> QED  BY <1>1, <1>2, <1>3, InvHolds, PTL DEF Spec
=============================================================================
