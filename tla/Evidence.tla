------------------------------ MODULE Evidence ------------------------------
(***************************************************************************)
(* Evidence summaries and field claims: internal/model/model.go, the trace *)
(* limit of internal/aggregate/merge.go and the ceilings of                *)
(* internal/trust/policy.go, as pure definitions.                          *)
(*                                                                         *)
(* Strings matter only for their order and for being empty, so field       *)
(* values and trace identifiers are numbers, 0 the empty string; a time is *)
(* a number, 0 the zero time; a level is its Rank.                         *)
(***************************************************************************)
EXTENDS Integers, FiniteSets

CONSTANTS
  Sources,      \* exact source names
  Values,       \* what a mutable field of a node may hold
  MaxTraceIDs   \* maxTraceIDs, 20 in the code

ASSUME EvidenceAssumption ==
  /\ Values \subseteq Nat \ {0} /\ IsFiniteSet(Values)
  /\ MaxTraceIDs \in Nat \ {0}

Inferred == 1
Declared == 2
Observed == 3
Verified == 4
Ranks == 0..Verified

Summaries == [level : Ranks, count : Nat, sources : SUBSET Sources,
              traces : SUBSET Nat, first : Nat, last : Nat]

\* The zero EvidenceSummary.
NoSummary == [level |-> 0, count |-> 0, sources |-> {}, traces |-> {},
              first |-> 0, last |-> 0]

StrongerLevel(a, b) == IF b > a THEN b ELSE a

\* Mutant: the zero time counts as the earliest.
EarlierOrZero(current, incoming) ==
  IF incoming < current THEN incoming ELSE current

\* FirstSeen, for which the zero time is no time.
Earlier(current, incoming) ==
  IF current = 0 \/ (incoming # 0 /\ incoming < current)
  THEN incoming ELSE current

Later(current, incoming) == IF incoming > current THEN incoming ELSE current

\* Mutant: the incoming time replaces the current one.
MergeLatestArrival(current, incoming) ==
  [level   |-> StrongerLevel(current.level, incoming.level),
   count   |-> current.count + incoming.count,
   sources |-> current.sources \cup incoming.sources,
   traces  |-> current.traces \cup incoming.traces,
   first   |-> Earlier(current.first, incoming.first),
   last    |-> incoming.last]

MergeEvidenceSummary(current, incoming) ==
  [level   |-> StrongerLevel(current.level, incoming.level),
   count   |-> current.count + incoming.count,
   sources |-> current.sources \cup incoming.sources,
   traces  |-> current.traces \cup incoming.traces,
   first   |-> Earlier(current.first, incoming.first),
   last    |-> Later(current.last, incoming.last)]

\* limited: the lexically smallest identifiers that are not empty.
Limited(traces) ==
  LET named == traces \ {0} IN
    {t \in named : Cardinality({u \in named : u < t}) < MaxTraceIDs}

LimitTraces(s) == [s EXCEPT !.traces = Limited(@)]

-----------------------------------------------------------------------------
(***************************************************************************)
(* The claims about one field: the summary of every value, NoSummary for a *)
(* value nobody claimed.                                                   *)
(***************************************************************************)
AllClaims == [Values -> Summaries]
NoClaims == [v \in Values |-> NoSummary]
Candidates(claims) == {v \in Values : claims[v].count > 0}

MergeClaims(a, b) == [v \in Values |-> MergeEvidenceSummary(a[v], b[v])]

\* fieldValuePreferred: the stronger level, then the later time, then the
\* smaller value.
FieldValuePreferred(claims, v, w) ==
  \/ claims[v].level > claims[w].level
  \/ /\ claims[v].level = claims[w].level
     /\ claims[v].last > claims[w].last
  \/ /\ claims[v].level = claims[w].level
     /\ claims[v].last = claims[w].last
     /\ v < w

\* The candidate ResolveFieldEvidence selects.
Selected(claims) ==
  CHOOSE v \in Candidates(claims) :
    \A w \in Candidates(claims) \ {v} : FieldValuePreferred(claims, v, w)

-----------------------------------------------------------------------------
(***************************************************************************)
(* Source trust.  A policy maps the sources it has rules for to their      *)
(* maximum level.                                                          *)
(***************************************************************************)
TrustPolicies == UNION {[ruled -> Inferred..Verified] : ruled \in SUBSET Sources}

MaximumFor(policy, source) ==
  IF source \in DOMAIN policy THEN policy[source] ELSE Observed

\* The strongest maximum of a summary's sources; a summary without sources has
\* the default.
Ceiling(policy, sources) ==
  IF sources = {} THEN Observed
  ELSE CHOOSE max \in {MaximumFor(policy, s) : s \in sources} :
         \A s \in sources : MaximumFor(policy, s) <= max

CapSummary(policy, s) ==
  LET maximum == Ceiling(policy, s.sources) IN
    IF s.level <= maximum THEN s ELSE [s EXCEPT !.level = maximum]
=============================================================================
