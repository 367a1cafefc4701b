------------------------- MODULE AgentSummaryProofs -------------------------
(***************************************************************************)
(* What collect makes of the spans of a trace, for any spans, attributes,  *)
(* order and grouping: no call is lost, and the graph is the one a scan    *)
(* makes of them all at once, as far as reduced spans can tell.            *)
(***************************************************************************)
EXTENDS AgentSummary, FiniteSetTheorems, SequenceTheorems, TLAPS

USE SpansAssumption, NullsAssumption, SummaryAssumption

Contexts == AgentContexts \cup {Unknown}
Works == Seq(Observations)
Knowns == [Keys -> Contexts]

-----------------------------------------------------------------------------
(***************************************************************************)
(* Spans above one another.                                                *)
(***************************************************************************)

LEMMA SpanParts ==
  ASSUME NEW s \in Spans
  PROVE  /\ s.key \in Keys /\ s.parent \in Keys \cup {NoKey}
         /\ s.agent \in AgentContexts /\ s.source \in Sources
BY DEF AgentContexts

Itself(B) == [t \in B |-> t]

\* A set of spans of B that holds the parents of its members, except of those that
\* are marked.
ParentsIn(B, mark, S) ==
  \A m \in S, p \in B :
    mark[m] = NoAgent /\ m.parent # NoKey /\ p.key = m.parent => p \in S

\* The lineage of a span is the least such set that has the span.
LEMMA LineageFacts ==
  ASSUME NEW B, NEW mark, NEW n \in B
  PROVE  /\ Lineage(Itself(B), mark, n) \subseteq B
         /\ n \in Lineage(Itself(B), mark, n)
         /\ ParentsIn(B, mark, Lineage(Itself(B), mark, n))
         /\ \A S \in SUBSET B : n \in S /\ ParentsIn(B, mark, S)
              => Lineage(Itself(B), mark, n) \subseteq S
<1> DEFINE L == Lineage(Itself(B), mark, n)
<1>1. \A S \in SUBSET B : LineageClosed(Itself(B), mark, S) <=> ParentsIn(B, mark, S)
  BY DEF LineageClosed, ParentsIn, Itself
<1>2. DOMAIN Itself(B) = B  BY DEF Itself
<1>3. L = {m \in B : \A S \in SUBSET B :
                       n \in S /\ ParentsIn(B, mark, S) => m \in S}
  BY <1>1, <1>2 DEF Lineage
<1> HIDE DEF L
<1>4. ParentsIn(B, mark, L)
  <2> SUFFICES ASSUME NEW m \in L, NEW p \in B,
                      mark[m] = NoAgent, m.parent # NoKey, p.key = m.parent,
                      NEW S \in SUBSET B, n \in S, ParentsIn(B, mark, S)
               PROVE  p \in S
    BY <1>3 DEF ParentsIn
  <2>1. m \in S  BY <1>3
  <2> QED  BY <2>1 DEF ParentsIn
<1> QED  BY <1>3, <1>4 DEF L

-----------------------------------------------------------------------------
(***************************************************************************)
(* The reference answer.                                                   *)
(***************************************************************************)
Own == [t \in Spans |-> t.agent]

Ancestry(s) == Lineage(Itself(Spans), Own, s)
Found(s) == {Own[m] : m \in Ancestry(s)} \ {NoAgent}

LEMMA TrueAgentIs ==
  ASSUME NEW s \in Spans
  PROVE  TrueAgent[s] = IF Found(s) = {} THEN NoAgent ELSE CHOOSE a \in Found(s) : TRUE
BY DEF TrueAgent, InheritedAgent, Found, Ancestry, Own, Itself

\* A span with an identity, or without a parent, has its own.
LEMMA TrueAgentOfTop ==
  ASSUME NEW s \in Spans, s.agent # NoAgent \/ s.parent = NoKey
  PROVE  TrueAgent[s] = s.agent
<1>1. ParentsIn(Spans, Own, {s})  BY DEF ParentsIn, Own
<1>2. Ancestry(s) = {s}  BY <1>1, LineageFacts DEF Ancestry
<1>3. Found(s) = {s.agent} \ {NoAgent}  BY <1>2 DEF Found, Own
<1>4. CASE s.agent = NoAgent  BY <1>3, <1>4, TrueAgentIs
<1>5. CASE s.agent # NoAgent
  <2>1. Found(s) = {s.agent} /\ Found(s) # {}  BY <1>3, <1>5
  <2> QED  BY <2>1, TrueAgentIs
<1> QED  BY <1>4, <1>5

\* A span without an identity has the one its parent has.
LEMMA TrueAgentOfChild ==
  ASSUME NEW s \in Spans, NEW p \in Spans, s.agent = NoAgent, p.key = s.parent
  PROVE  TrueAgent[s] = TrueAgent[p]
<1>1. s.parent # NoKey  OBVIOUS
<1>2. /\ Ancestry(p) \subseteq Spans /\ p \in Ancestry(p)
      /\ ParentsIn(Spans, Own, Ancestry(p))
  BY LineageFacts DEF Ancestry
<1>3. /\ Ancestry(s) \subseteq Spans /\ s \in Ancestry(s)
      /\ ParentsIn(Spans, Own, Ancestry(s))
  BY LineageFacts DEF Ancestry
<1>4. Ancestry(s) \subseteq {s} \cup Ancestry(p)
  <2>1. ParentsIn(Spans, Own, {s} \cup Ancestry(p))
    BY <1>2 DEF ParentsIn
  <2>2. {s} \cup Ancestry(p) \in SUBSET Spans  BY <1>2
  <2> QED  BY <2>1, <2>2, LineageFacts DEF Ancestry
<1>5. Ancestry(p) \subseteq Ancestry(s)
  <2>1. Own[s] = NoAgent  BY DEF Own
  <2>2. p \in Ancestry(s)  BY <1>1, <1>3, <2>1 DEF ParentsIn
  <2> QED  BY <1>3, <2>2, LineageFacts DEF Ancestry
<1>6. Own[s] = NoAgent  BY DEF Own
<1>7. Found(s) = Found(p)  BY <1>4, <1>5, <1>6 DEF Found
<1> QED  BY <1>7, TrueAgentIs

-----------------------------------------------------------------------------
(***************************************************************************)
(* Suppression.                                                            *)
(***************************************************************************)
Stops(B) == [s \in B |-> IF IsSummary(s) THEN s.key ELSE NoAgent]
Above(B, s) == Lineage(Itself(B), Stops(B), s)

\* From a call up to the first summary.
LEMMA AboveFacts ==
  ASSUME NEW B \in SUBSET Spans, NEW n \in B
  PROVE  /\ Above(B, n) \subseteq B /\ n \in Above(B, n)
         /\ \A m \in Above(B, n), p \in B :
              ~IsSummary(m) /\ p.key = m.parent => p \in Above(B, n)
         /\ \A S \in SUBSET B :
              /\ n \in S
              /\ \A m \in S, p \in B : ~IsSummary(m) /\ p.key = m.parent => p \in S
              => Above(B, n) \subseteq S
<1>1. \A m \in B : Stops(B)[m] = NoAgent <=> ~IsSummary(m)
  BY SpanParts DEF Stops
<1>2. \A p \in B : p.key # NoKey  OBVIOUS
<1>3. \A S \in SUBSET B :
        ParentsIn(B, Stops(B), S)
          <=> \A m \in S, p \in B : ~IsSummary(m) /\ p.key = m.parent => p \in S
  BY <1>1, <1>2 DEF ParentsIn
<1>4. /\ Above(B, n) \subseteq B
      /\ n \in Above(B, n)
      /\ ParentsIn(B, Stops(B), Above(B, n))
      /\ \A S \in SUBSET B : n \in S /\ ParentsIn(B, Stops(B), S) => Above(B, n) \subseteq S
  BY LineageFacts DEF Above
<1> QED  BY <1>3, <1>4

LEMMA SuppressedIs ==
  ASSUME NEW B \in SUBSET Spans, NEW s
  PROVE  s \in Suppressed(B)
         <=> IsSummary(s) /\ \E c \in B : IsConcrete(c) /\ s \in Above(B, c)
BY DEF Suppressed, Above, Stops, Itself

\* What is above in a batch is above in the trace.
LEMMA AboveInMore ==
  ASSUME NEW B \in SUBSET Spans, NEW n \in B
  PROVE  Above(B, n) \subseteq Above(Spans, n)
<1>1. /\ Above(Spans, n) \subseteq Spans /\ n \in Above(Spans, n)
      /\ \A m \in Above(Spans, n), p \in Spans :
           ~IsSummary(m) /\ p.key = m.parent => p \in Above(Spans, n)
  BY AboveFacts
<1> DEFINE S == Above(Spans, n) \cap B
<1>2. S \in SUBSET B /\ n \in S
      /\ \A m \in S, p \in B : ~IsSummary(m) /\ p.key = m.parent => p \in S
  BY <1>1
<1> HIDE DEF S
<1>3. Above(B, n) \subseteq S  BY <1>2, AboveFacts
<1> QED  BY <1>3 DEF S

\* A set of spans that holds what is below s, as Below closes it.
ChildrenIn(s, S) ==
  \A u \in Spans :
     \/ u.parent = s.key
     \/ \E v \in S : ~IsSummary(v) /\ u.parent = v.key
     => u \in S

LEMMA BelowFacts ==
  ASSUME NEW s
  PROVE  /\ Below(s) \subseteq Spans
         /\ ChildrenIn(s, Below(s))
         /\ \A S \in SUBSET Spans : ChildrenIn(s, S) => Below(s) \subseteq S
<1>1. Below(s) = {t \in Spans : \A S \in SUBSET Spans : ChildrenIn(s, S) => t \in S}
  BY DEF Below, ChildrenIn
<1>2. ChildrenIn(s, Below(s))
  <2> SUFFICES ASSUME NEW u \in Spans,
                      \/ u.parent = s.key
                      \/ \E v \in Below(s) : ~IsSummary(v) /\ u.parent = v.key,
                      NEW S \in SUBSET Spans, ChildrenIn(s, S)
               PROVE  u \in S
    BY <1>1 DEF ChildrenIn
  <2>1. Below(s) \subseteq S  BY <1>1
  <2> QED  BY <2>1 DEF ChildrenIn
<1> QED  BY <1>1, <1>2

\* What a call's lineage meets above the call has the call below it.
LEMMA AboveHasBelow ==
  ASSUME NEW B \in SUBSET Spans, NEW c \in B, NEW s \in Above(B, c), s # c
  PROVE  c \in Below(s)
<1> DEFINE T == {m \in B : m = c \/ c \in Below(m)}
<1>1. ASSUME NEW m \in T, NEW p \in B, ~IsSummary(m), p.key = m.parent
      PROVE  p \in T
  <2>1. ChildrenIn(p, Below(p)) /\ Below(p) \subseteq Spans  BY BelowFacts
  <2>2. m \in Below(p)  BY <1>1, <2>1 DEF ChildrenIn
  <2>3. CASE m = c  BY <2>2, <2>3
  <2>4. CASE c \in Below(m)
    <3>1. ChildrenIn(m, Below(p))  BY <1>1, <2>1, <2>2 DEF ChildrenIn
    <3>2. Below(m) \subseteq Below(p)  BY <2>1, <3>1, BelowFacts
    <3> QED  BY <2>4, <3>2
  <2> QED  BY <2>3, <2>4
<1>2. T \in SUBSET B /\ c \in T  OBVIOUS
<1> HIDE DEF T
<1>3. Above(B, c) \subseteq T  BY <1>1, <1>2, AboveFacts
<1> QED  BY <1>3 DEF T

\* What is below a span in a set that has it with its children, has it above.
LEMMA BelowHasAbove ==
  ASSUME NEW B \in SUBSET Spans, NEW s \in B, NEW c \in Below(s), ~IsSummary(c),
         \A v \in B, u \in Spans : u.parent = v.key /\ ~IsSummary(u) => u \in B
  PROVE  c \in B /\ s \in Above(B, c)
<1> DEFINE S == {u \in Spans : IsSummary(u) \/ (u \in B /\ s \in Above(B, u))}
<1>1. ChildrenIn(s, S)
  <2> SUFFICES ASSUME NEW u \in Spans, ~IsSummary(u),
                      \/ u.parent = s.key
                      \/ \E v \in S : ~IsSummary(v) /\ u.parent = v.key
               PROVE  u \in B /\ s \in Above(B, u)
    BY DEF ChildrenIn
  <2>1. CASE u.parent = s.key
    <3>1. u \in B  BY <2>1
    <3> QED  BY <2>1, <3>1, AboveFacts
  <2>2. ASSUME NEW v \in S, ~IsSummary(v), u.parent = v.key
        PROVE  u \in B /\ s \in Above(B, u)
    <3>1. v \in B /\ s \in Above(B, v)  BY <2>2
    <3>2. u \in B  BY <2>2, <3>1
    <3>3. v \in Above(B, u)  BY <2>2, <3>1, <3>2, AboveFacts
    <3>4. Above(B, v) \subseteq Above(B, u)  BY <3>1, <3>2, <3>3, AboveFacts
    <3> QED  BY <3>1, <3>2, <3>4
  <2> QED  BY <2>1, <2>2
<1>2. S \in SUBSET Spans  OBVIOUS
<1> HIDE DEF S
<1>3. Below(s) \subseteq S  BY <1>1, <1>2, BelowFacts
<1> QED  BY <1>3 DEF S

-----------------------------------------------------------------------------
(***************************************************************************)
(* One resolution.                                                         *)
(***************************************************************************)

LEMMA ItemParts ==
  ASSUME NEW w \in Works, NEW i \in DOMAIN w
  PROVE  /\ w[i].span \in Spans
         /\ w[i].span.key \in Keys
         /\ w[i].span.parent \in Keys \cup {NoKey}
         /\ w[i].span.agent \in AgentContexts
<1>1. w[i] \in Observations  BY DEF Works
<1>2. w[i].span \in Spans  BY <1>1 DEF Observations
<1> QED  BY <1>2, SpanParts

\* The order of what is left is a sequence that has each of it once.
LEMMA LeftInOrder ==
  ASSUME NEW S, IsFiniteSet(S), S \subseteq Nat, NEW order \in InOrder(S)
  PROVE  /\ order \in Seq(S) /\ Len(order) \in Nat /\ DOMAIN order = 1..Len(order)
         /\ \A i, j \in DOMAIN order : order[i] = order[j] => i = j
         /\ \A n \in S : \E i \in DOMAIN order : order[i] = n
<1> DEFINE m == Cardinality(S)
<1>1. m \in Nat  BY FS_CardinalityType
<1>2. /\ order \in [1..m -> S]
      /\ \A i, j \in 1..m : i < j => order[i] < order[j]
  BY DEF InOrder
<1>3. ASSUME NEW i \in DOMAIN order, NEW j \in DOMAIN order, i < j
      PROVE  order[i] # order[j]
  <2>1. order[i] \in Nat /\ order[j] \in Nat /\ order[i] < order[j]  BY <1>2, <1>3
  <2> QED  BY <2>1
<1>4. \A i, j \in DOMAIN order : i = j \/ i < j \/ j < i  BY <1>1, <1>2
<1>5. order \in Injection(1..m, S)
  BY <1>1, <1>2, <1>3, <1>4 DEF Injection, IsInjective
<1>6. Cardinality(1..m) = m  BY <1>1, FS_Interval
<1>7. order \in Surjection(1..m, S)  BY <1>5, <1>6, FS_Injection
<1> QED  BY <1>1, <1>2, <1>3, <1>4, <1>7 DEF Surjection

\* Every retained context is that of the span that has its key.
KnownRight(known) ==
  \A s \in Spans : known[s.key] # Unknown => known[s.key] = TrueAgent[s]

\* Contexts are retained for the keys of spans only.
KnownSpans(known) ==
  \A k \in Keys : known[k] # Unknown => \E s \in Spans : s.key = k

\* What a root releases has the agent of the root.
LEMMA ReleasedFacts ==
  ASSUME NEW w \in Works, NEW known, NEW r \in DOMAIN w
  PROVE  /\ \A i \in Released(w, known, r) :
              TrueAgent[w[i].span] = TrueAgent[w[r].span]
         /\ Released(w, known, r) \subseteq DOMAIN w /\ r \in Released(w, known, r)
         /\ ReleaseClosed(w, known, Released(w, known, r))
<1> DEFINE same == {i \in DOMAIN w : TrueAgent[w[i].span] = TrueAgent[w[r].span]}
<1>1. ReleaseClosed(w, known, same)
  <2> SUFFICES ASSUME NEW i \in DOMAIN w \ Roots(w, known), NEW j \in same,
                      w[j].span.key = w[i].span.parent
               PROVE  i \in same
    BY DEF ReleaseClosed
  <2>1. w[i].span.agent = NoAgent  BY DEF Roots
  <2>2. TrueAgent[w[i].span] = TrueAgent[w[j].span]
    BY <2>1, ItemParts, TrueAgentOfChild
  <2> QED  BY <2>2
<1>2. Released(w, known, r) \subseteq same
  <2>1. same \in SUBSET DOMAIN w /\ r \in same  OBVIOUS
  <2> HIDE DEF same
  <2> QED  BY <1>1, <2>1 DEF Released
<1>3. ReleaseClosed(w, known, Released(w, known, r))
  <2> SUFFICES ASSUME NEW i \in DOMAIN w \ Roots(w, known),
                      NEW j \in Released(w, known, r),
                      w[j].span.key = w[i].span.parent,
                      NEW S \in SUBSET DOMAIN w, r \in S, ReleaseClosed(w, known, S)
               PROVE  i \in S
    BY DEF ReleaseClosed, Released
  <2>1. j \in S  BY DEF Released
  <2> QED  BY <2>1 DEF ReleaseClosed
<1> QED  BY <1>2, <1>3 DEF Released

\* What is released that is no root waits for something that is released with it.
LEMMA ReleasedByParent ==
  ASSUME NEW w, NEW known, NEW r \in DOMAIN w, NEW i \in Released(w, known, r), i # r
  PROVE  \E j \in Released(w, known, r) : w[j].span.key = w[i].span.parent
<1> DEFINE R == Released(w, known, r)
           S == {r} \cup {n \in R : \E j \in R : w[j].span.key = w[n].span.parent}
<1>1. r \in R /\ R \subseteq DOMAIN w  BY DEF Released
<1>2. S \in SUBSET DOMAIN w /\ r \in S /\ S \subseteq R  BY <1>1
<1>3. ReleaseClosed(w, known, S)
  <2> SUFFICES ASSUME NEW n \in DOMAIN w \ Roots(w, known), NEW j \in S,
                      w[j].span.key = w[n].span.parent
               PROVE  n \in S
    BY DEF ReleaseClosed
  <2>1. j \in R  BY <1>2
  <2>2. n \in R
    <3> SUFFICES ASSUME NEW T \in SUBSET DOMAIN w, r \in T, ReleaseClosed(w, known, T)
                 PROVE  n \in T
      BY DEF Released
    <3>1. j \in T  BY <2>1 DEF Released
    <3> QED  BY <3>1 DEF ReleaseClosed
  <2> QED  BY <2>1, <2>2
<1>4. i \in S
  <2> HIDE DEF S
  <2> QED  BY <1>2, <1>3 DEF Released
<1> QED  BY <1>4

\* What leaves the queue has its agent, and leaves because it needs no context,
\* because its parent's is known or because its parent leaves too; nothing that
\* stays could.
LEMMA ReadyFacts ==
  ASSUME NEW w \in Works, NEW known \in Knowns, KnownRight(known), KnownSpans(known)
  PROVE  /\ Resolved(w, known) \subseteq DOMAIN w
         /\ \A i \in Resolved(w, known) :
              /\ ResolvedContext(w, known, i) = TrueAgent[w[i].span]
              /\ ResolvedContext(w, known, i) \in AgentContexts
              /\ w[i].span.agent # NoAgent \/ w[i].span.parent = NoKey
                 \/ known[w[i].span.parent] # Unknown
                 \/ \E j \in Resolved(w, known) : w[j].span.key = w[i].span.parent
         /\ \A i \in DOMAIN w \ Resolved(w, known) :
              /\ w[i].span.agent = NoAgent /\ w[i].span.parent # NoKey
              /\ known[w[i].span.parent] = Unknown
              /\ \A j \in Resolved(w, known) : w[j].span.key # w[i].span.parent
<1> DEFINE R == Resolved(w, known)
<1>1. R \subseteq DOMAIN w  BY DEF Resolved, Released
<1>2. ASSUME NEW r \in Roots(w, known)
      PROVE  /\ RootContext(w, known, r) = TrueAgent[w[r].span]
             /\ RootContext(w, known, r) \in AgentContexts
  <2> DEFINE s == w[r].span
  <2>1. r \in DOMAIN w  BY DEF Roots
  <2>2. s \in Spans /\ s.parent \in Keys \cup {NoKey} /\ s.agent \in AgentContexts
    BY <2>1, ItemParts
  <2>3. CASE s.agent # NoAgent
    BY <2>2, <2>3, TrueAgentOfTop DEF RootContext
  <2>4. CASE s.agent = NoAgent /\ s.parent = NoKey
    BY <2>2, <2>4, TrueAgentOfTop DEF RootContext
  <2>5. CASE s.agent = NoAgent /\ s.parent # NoKey
    <3>1. s.parent \in Keys  BY <2>2, <2>5
    <3>2. known[s.parent] # Unknown  BY <2>5 DEF Roots
    <3>3. PICK p \in Spans : p.key = s.parent  BY <3>1, <3>2 DEF KnownSpans
    <3>4. known[s.parent] = TrueAgent[p]  BY <3>2, <3>3 DEF KnownRight
    <3>5. TrueAgent[s] = TrueAgent[p]  BY <2>2, <2>5, <3>3, TrueAgentOfChild
    <3>6. known[s.parent] \in AgentContexts  BY <3>1, <3>2 DEF Knowns, Contexts
    <3>7. RootContext(w, known, r) = known[s.parent]  BY <2>5 DEF RootContext
    <3> QED  BY <3>4, <3>5, <3>6, <3>7
  <2> QED  BY <2>3, <2>4, <2>5
<1>3. ASSUME NEW i \in R
      PROVE  \E r \in Roots(w, known) :
               /\ r \in DOMAIN w /\ i \in Released(w, known, r)
               /\ ResolvedContext(w, known, i) = RootContext(w, known, r)
  <2>1. \E r \in Roots(w, known) : i \in Released(w, known, r)
    BY <1>3 DEF Resolved
  <2> DEFINE r == CHOOSE r \in Roots(w, known) : i \in Released(w, known, r)
  <2>2. r \in Roots(w, known) /\ i \in Released(w, known, r)  BY <2>1
  <2>3. ResolvedContext(w, known, i) = RootContext(w, known, r)
    BY DEF ResolvedContext
  <2>4. r \in DOMAIN w  BY <2>2 DEF Roots
  <2> QED  BY <2>2, <2>3, <2>4
<1>4. ASSUME NEW i \in R
      PROVE  /\ ResolvedContext(w, known, i) = TrueAgent[w[i].span]
             /\ ResolvedContext(w, known, i) \in AgentContexts
  BY <1>2, <1>3, <1>4, ReleasedFacts
<1>5. ASSUME NEW i \in R
      PROVE  \/ w[i].span.agent # NoAgent \/ w[i].span.parent = NoKey
             \/ known[w[i].span.parent] # Unknown
             \/ \E j \in R : w[j].span.key = w[i].span.parent
  <2>1. PICK r \in Roots(w, known) : r \in DOMAIN w /\ i \in Released(w, known, r)
    BY <1>3, <1>5
  <2>2. CASE i = r  BY <2>2 DEF Roots
  <2>3. CASE i # r
    <3>1. PICK j \in Released(w, known, r) : w[j].span.key = w[i].span.parent
      BY <2>1, <2>3, ReleasedByParent
    <3>2. j \in R  BY <3>1 DEF Resolved
    <3> QED  BY <3>1, <3>2
  <2> QED  BY <2>2, <2>3
<1>6. ASSUME NEW i \in DOMAIN w \ R
      PROVE  /\ w[i].span.agent = NoAgent /\ w[i].span.parent # NoKey
             /\ known[w[i].span.parent] = Unknown
             /\ \A j \in R : w[j].span.key # w[i].span.parent
  <2>1. i \notin Roots(w, known)  BY <1>6, ReleasedFacts DEF Resolved, Roots
  <2>2. ASSUME NEW j \in R, w[j].span.key = w[i].span.parent PROVE FALSE
    <3>1. PICK r \in Roots(w, known) : r \in DOMAIN w /\ j \in Released(w, known, r)
      BY <1>3, <2>2
    <3>2. i \in Released(w, known, r)
      BY <1>6, <2>1, <2>2, <3>1, ReleasedFacts DEF ReleaseClosed
    <3> QED  BY <1>6, <3>2 DEF Resolved
  <2> QED  BY <1>6, <2>1, <2>2 DEF Roots
<1> QED  BY <1>1, <1>4, <1>5, <1>6

\* What is recorded is the agents of what left.
Learns(next, known, w, D) ==
  /\ next \in Knowns
  /\ \A i \in D : next[w[i].span.key] = TrueAgent[w[i].span]
  /\ \A k \in Keys : (\A i \in D : w[i].span.key # k) => next[k] = known[k]

LEMMA LearnFacts ==
  ASSUME NEW w \in Works, NEW known \in Knowns, NEW D \in SUBSET DOMAIN w,
         NEW agent \in [D -> AgentContexts],
         \A i \in D : agent[i] = TrueAgent[w[i].span]
  PROVE  Learns(Learn(known, w, agent, Keys), known, w, D)
<1> DEFINE holders(k) == {i \in D : w[i].span.key = k}
           next == Learn(known, w, agent, Keys)
<1>1. next = [k \in Keys |-> IF holders(k) # {} THEN agent[CHOOSE i \in holders(k) : TRUE]
                             ELSE known[k]]
  BY DEF Learn
<1> HIDE DEF next
<1>2. ASSUME NEW k \in Keys, NEW i \in D, w[i].span.key = k
      PROVE  next[k] = TrueAgent[w[i].span] /\ next[k] \in AgentContexts
  <2> DEFINE h == CHOOSE n \in holders(k) : TRUE
  <2>1. holders(k) # {}  BY <1>2
  <2>2. h \in D /\ w[h].span.key = k  BY <2>1
  <2>3. next[k] = agent[h]  BY <1>1, <2>1
  <2> HIDE DEF h
  <2>4. w[h].span = w[i].span  BY <1>2, <2>2, ItemParts
  <2> QED  BY <2>2, <2>3, <2>4
<1>3. ASSUME NEW k \in Keys, \A i \in D : w[i].span.key # k
      PROVE  next[k] = known[k]
  <2>1. holders(k) = {}  BY <1>3
  <2> QED  BY <1>1, <2>1
<1>4. next \in Knowns
  <2>1. ASSUME NEW k \in Keys PROVE next[k] \in Contexts
    <3>1. known[k] \in Contexts  BY DEF Knowns
    <3> QED  BY <1>2, <1>3, <3>1 DEF Contexts
  <2>2. DOMAIN next = Keys /\ next = [k \in Keys |-> next[k]]  BY <1>1
  <2> QED  BY <2>1, <2>2 DEF Knowns
<1>5. \A i \in D : w[i].span.key \in Keys  BY ItemParts
<1>6. Learns(next, known, w, D)  BY <1>2, <1>3, <1>4, <1>5 DEF Learns
<1> QED  BY <1>6 DEF next

-----------------------------------------------------------------------------
(***************************************************************************)
(* The invariant.                                                          *)
(***************************************************************************)
Waiting == {pending[i].span : i \in DOMAIN pending}
There == {e.span : e \in merged}

\* No span is twice in a sequence of observations.
Once(w) == \A i, j \in DOMAIN w : w[i].span = w[j].span => i = j

SummaryType ==
  /\ left \subseteq Spans /\ pending \in Works /\ contexts \in Knowns
  /\ merged \subseteq Merged /\ IsFiniteSet(merged) /\ inOrder \in BOOLEAN

\* Every span is in one place, once.
Places ==
  /\ Once(pending)
  /\ \A e, f \in merged : e.span = f.span => e = f
  /\ left \cup Waiting \cup There = Spans
  /\ left \cap Waiting = {} /\ left \cap There = {} /\ Waiting \cap There = {}

\* The retained contexts are those of the spans in the graph, as is their evidence.
Attributed ==
  /\ \A e \in merged : e.agent = TrueAgent[e.span]
  /\ \A s \in There : contexts[s.key] = TrueAgent[s]
  /\ \A k \in Keys : contexts[k] # Unknown => \E s \in There : s.key = k

\* A span without an agent of its own comes after its parent.
ParentsFirst ==
  \A s \in There : s.agent = NoAgent /\ s.parent # NoKey =>
    \E p \in There : p.key = s.parent

\* A summary is without its model beside the call that took it.
TakenByCall(e) ==
  /\ IsSummary(e.span) /\ e.span \in Suppressed(Spans)
  /\ \E c \in merged : c.whole /\ IsConcrete(c.span) /\ c.span \in Below(e.span)

Taken == \A e \in merged : ~e.whole => TakenByCall(e)

\* In order of ending, the spans below one that was exported have been too.
ChildrenExported ==
  inOrder => \A s \in left, t \in Spans : s.parent = t.key => t \in left

\* Then every batch has all it needs to know which summaries to take from.
TakenAsInScan ==
  inOrder /\ OnlySummariesAreNamed =>
    \A e \in merged : e.span \in Suppressed(Spans) => ~e.whole

Inv ==
  /\ SummaryType /\ Places /\ Attributed /\ ParentsFirst /\ Taken
  /\ ChildrenExported /\ TakenAsInScan

LEMMA InitInv == Init => Inv
<1> SUFFICES ASSUME Init PROVE Inv  OBVIOUS
<1>1. pending = <<>> /\ DOMAIN pending = {} /\ merged = {} /\ left = Spans
      /\ contexts = [k \in Keys |-> Unknown] /\ inOrder = TRUE
  BY DEF Init
<1>2. Waiting = {} /\ There = {}  BY <1>1 DEF Waiting, There
<1>3. SummaryType
  <2>1. pending \in Works  BY <1>1 DEF Works
  <2>2. contexts \in Knowns  BY <1>1 DEF Knowns, Contexts
  <2> QED  BY <1>1, <2>1, <2>2, FS_EmptySet DEF SummaryType
<1>4. Places  BY <1>1, <1>2 DEF Places, Once
<1>5. Attributed  BY <1>1, <1>2 DEF Attributed
<1>6. ParentsFirst /\ Taken /\ ChildrenExported /\ TakenAsInScan
  BY <1>1, <1>2 DEF ParentsFirst, Taken, ChildrenExported, TakenAsInScan
<1> QED  BY <1>3, <1>4, <1>5, <1>6 DEF Inv

-----------------------------------------------------------------------------
(***************************************************************************)
(* One request, as what it does to the sets of spans: those of new are     *)
(* exported, those of R leave the queue for the graph.                     *)
(***************************************************************************)
Moved(new, R) ==
  /\ new \subseteq left /\ left' = left \ new
  /\ R \subseteq Waiting \cup new /\ Waiting' = (Waiting \cup new) \ R
  /\ pending' \in Works /\ Once(pending')
  /\ inOrder' = (inOrder /\ \A t \in new, s \in left : s.parent = t.key => s \in new)

Recorded(R) ==
  /\ IsFiniteSet(R)
  /\ contexts' \in Knowns
  /\ \A s \in R : contexts'[s.key] = TrueAgent[s] /\ TrueAgent[s] \in AgentContexts
  /\ \A k \in Keys : (\A s \in R : s.key # k) => contexts'[k] = contexts[k]
  /\ merged' = merged \cup Built(R, [s \in Spans |-> contexts'[s.key]])

\* Why the ones leave and the others stay.
Parted(new, R) ==
  /\ \A s \in R : s.agent = NoAgent /\ s.parent # NoKey =>
       contexts[s.parent] # Unknown \/ \E p \in R : p.key = s.parent
  /\ \A s \in (Waiting \cup new) \ R :
       /\ s.agent = NoAgent /\ s.parent # NoKey /\ contexts[s.parent] = Unknown
       /\ \A p \in R : p.key # s.parent

Request(new, R) == Moved(new, R) /\ Recorded(R) /\ Parted(new, R)

LEMMA Joined ==
  ASSUME NEW T, NEW s \in Seq(T), NEW t \in Seq(T)
  PROVE  /\ s \o t \in Seq(T)
         /\ Len(s) \in Nat /\ Len(t) \in Nat
         /\ Len(s \o t) = Len(s) + Len(t)
         /\ DOMAIN s = 1..Len(s) /\ DOMAIN t = 1..Len(t)
         /\ DOMAIN (s \o t) = 1..(Len(s) + Len(t))
         /\ \A n \in DOMAIN s : n \in DOMAIN (s \o t) /\ (s \o t)[n] = s[n]
         /\ \A n \in DOMAIN t : /\ Len(s) + n \in DOMAIN (s \o t)
                                /\ (s \o t)[Len(s) + n] = t[n]
         /\ \A n \in DOMAIN (s \o t) : \/ n \in DOMAIN s
                                       \/ \E m \in DOMAIN t : n = Len(s) + m
<1>1. /\ s \o t \in Seq(T)
      /\ Len(s) \in Nat /\ Len(t) \in Nat
      /\ Len(s \o t) = Len(s) + Len(t)
      /\ DOMAIN s = 1..Len(s) /\ DOMAIN t = 1..Len(t)
      /\ DOMAIN (s \o t) = 1..(Len(s) + Len(t))
  OBVIOUS
<1>2. \A n \in DOMAIN s : n \in DOMAIN (s \o t) /\ (s \o t)[n] = s[n]
  BY <1>1
<1>3. ASSUME NEW n \in DOMAIN t
      PROVE  Len(s) + n \in DOMAIN (s \o t) /\ (s \o t)[Len(s) + n] = t[n]
  BY <1>1
<1>4. ASSUME NEW n \in DOMAIN (s \o t), n \notin DOMAIN s
      PROVE  \E m \in DOMAIN t : n = Len(s) + m
  <2>1. n - Len(s) \in DOMAIN t /\ n = Len(s) + (n - Len(s))  BY <1>1, <1>4
  <2> QED  BY <2>1
<1> QED  BY <1>1, <1>2, <1>3, <1>4

LEMMA ImageIsFinite ==
  ASSUME NEW S, IsFiniteSet(S), NEW h
  PROVE  IsFiniteSet({h[x] : x \in S})
<1> DEFINE g == [x \in S |-> h[x]]
           T == {h[x] : x \in S}
<1>1. g \in Surjection(S, T)  BY DEF Surjection
<1> HIDE DEF g, T
<1>2. IsFiniteSet(T)  BY <1>1, FS_Surjection
<1> QED  BY <1>2 DEF T

LEMMA ExportFacts ==
  ASSUME Inv, Next
  PROVE  \E new, R \in SUBSET Spans : Request(new, R)
<1> USE DEF Inv, SummaryType
<1>0. PICK size \in 1..MaxBatch : \E batch \in [1..size -> left] : Export(batch)
  BY DEF Next
<1>1. PICK batch \in [1..size -> left] : Export(batch)  BY <1>0
<1> DEFINE fresh == [i \in DOMAIN batch |-> [span |-> batch[i], source |-> batch[i].source]]
           w == pending \o fresh
           new == {batch[i] : i \in DOMAIN batch}
           D == Resolved(w, contexts)
           R == {w[i].span : i \in D}
           agent == [i \in D |-> ResolvedContext(w, contexts, i)]
<1>2. /\ \A i, j \in DOMAIN batch : i # j => batch[i] # batch[j]
      /\ inOrder' = (inOrder /\ \A i \in DOMAIN batch, s \in left :
           s.parent = batch[i].key => \E j \in DOMAIN batch : batch[j] = s)
      /\ left' = left \ new
      /\ Accept(batch)
  BY <1>1 DEF Export
<1>3. /\ contexts' = Learn(contexts, w, agent, Keys)
      /\ merged' = merged \cup Built(R, [s \in Spans |-> contexts'[s.key]])
      /\ \E waiting \in InOrder(DOMAIN w \ D) : pending' = At(w, waiting)
  BY <1>2 DEF Accept
<1>4. size \in Nat /\ DOMAIN batch = 1..size /\ \A i \in 1..size : batch[i] \in left
  BY SummaryAssumption
<1>5. /\ fresh \in Works /\ Len(fresh) = size /\ DOMAIN fresh = 1..size
      /\ \A i \in 1..size : fresh[i].span = batch[i]
  <2>1. \A i \in 1..size : fresh[i] \in Observations /\ fresh[i].span = batch[i]
    <3> SUFFICES ASSUME NEW i \in 1..size
                 PROVE  fresh[i] \in Observations /\ fresh[i].span = batch[i]
      OBVIOUS
    <3>1. batch[i] \in Spans  BY <1>4
    <3>2. batch[i].source \in Sources  BY <3>1, SpanParts
    <3>3. fresh[i] = [span |-> batch[i], source |-> batch[i].source]  BY <1>4
    <3> QED  BY <3>1, <3>2, <3>3 DEF Observations
  <2>2. DOMAIN fresh = 1..size  BY <1>4
  <2>3. fresh = [i \in 1..size |-> fresh[i]]  BY <2>2
  <2>4. fresh \in [1..size -> Observations]
    <3> HIDE DEF fresh
    <3> QED  BY <2>1, <2>3
  <2> HIDE DEF fresh
  <2>5. fresh \in Seq(Observations)  BY <1>4, <2>4
  <2>6. Len(fresh) = size  BY <1>4, <2>2, <2>5
  <2> QED  BY <2>1, <2>2, <2>5, <2>6 DEF Works
<1> HIDE DEF fresh
<1>6. /\ w \in Works
      /\ DOMAIN w = 1..(Len(pending) + size) /\ DOMAIN pending = 1..Len(pending)
      /\ Len(pending) \in Nat
      /\ \A i \in DOMAIN pending : w[i] = pending[i]
      /\ \A i \in 1..size : w[Len(pending) + i].span = batch[i]
  <2>1. pending \in Seq(Observations) /\ fresh \in Seq(Observations)
    BY <1>5 DEF Works
  <2>2. /\ w \in Seq(Observations)
        /\ Len(pending) \in Nat /\ DOMAIN pending = 1..Len(pending)
        /\ DOMAIN w = 1..(Len(pending) + Len(fresh))
        /\ \A n \in DOMAIN pending : w[n] = pending[n]
        /\ \A n \in DOMAIN fresh : w[Len(pending) + n] = fresh[n]
    <3> HIDE DEF Inv, SummaryType
    <3> QED  BY <2>1, Joined
  <2> HIDE DEF w
  <2> QED  BY <1>5, <2>2 DEF Works
<1> HIDE DEF w
<1>7. \A i \in DOMAIN w : i \in DOMAIN pending
                          \/ \E j \in 1..size : i = Len(pending) + j
  <2> SUFFICES ASSUME NEW i \in DOMAIN w, i \notin DOMAIN pending
               PROVE  \E j \in 1..size : i = Len(pending) + j
    OBVIOUS
  <2>1. i - Len(pending) \in 1..size /\ i = Len(pending) + (i - Len(pending))
    BY <1>4, <1>6
  <2> QED  BY <2>1
<1>8. {w[i].span : i \in DOMAIN w} = Waiting \cup new
  <2>1. \A i \in DOMAIN w : w[i].span \in Waiting \cup new
    <3>1. \A i \in DOMAIN pending : w[i].span \in Waiting  BY <1>6 DEF Waiting
    <3>2. \A j \in 1..size : w[Len(pending) + j].span \in new  BY <1>4, <1>6
    <3> HIDE DEF new
    <3> QED  BY <1>7, <3>1, <3>2
  <2>2. \A s \in new : \E i \in DOMAIN w : w[i].span = s
    <3> SUFFICES ASSUME NEW j \in 1..size PROVE \E i \in DOMAIN w : w[i].span = batch[j]
      BY <1>4
    <3>1. Len(pending) + j \in DOMAIN w  BY <1>4, <1>6
    <3> QED  BY <1>6, <3>1
  <2>3. \A i \in DOMAIN pending : i \in DOMAIN w  BY <1>4, <1>6
  <2>4. \A s \in Waiting : \E i \in DOMAIN w : w[i].span = s
    BY <1>6, <2>3 DEF Waiting
  <2> HIDE DEF new
  <2> QED  BY <2>1, <2>2, <2>4
<1>9. Once(w)
  <2> SUFFICES ASSUME NEW i \in DOMAIN w, NEW j \in DOMAIN w, w[i].span = w[j].span
               PROVE  i = j
    BY DEF Once
  <2>1. ASSUME NEW m \in DOMAIN pending, NEW n \in 1..size
        PROVE  pending[m].span # batch[n]
    BY <1>4 DEF Places, Waiting
  <2>2. CASE i \in DOMAIN pending /\ j \in DOMAIN pending
    BY <1>6, <2>2 DEF Places, Once
  <2>3. CASE i \notin DOMAIN pending /\ j \notin DOMAIN pending
    <3>1. PICK m \in 1..size : i = Len(pending) + m  BY <1>7, <2>3
    <3>2. PICK n \in 1..size : j = Len(pending) + n  BY <1>7, <2>3
    <3>3. batch[m] = batch[n]  BY <1>6, <3>1, <3>2
    <3>4. m = n  BY <1>2, <1>4, <3>3
    <3> QED  BY <3>1, <3>2, <3>4
  <2>4. CASE i \in DOMAIN pending /\ j \notin DOMAIN pending
    <3>1. PICK n \in 1..size : j = Len(pending) + n  BY <1>7, <2>4
    <3>2. pending[i].span = batch[n]  BY <1>6, <2>4, <3>1
    <3> QED  BY <2>1, <2>4, <3>2
  <2>5. CASE i \notin DOMAIN pending /\ j \in DOMAIN pending
    <3>1. PICK n \in 1..size : i = Len(pending) + n  BY <1>7, <2>5
    <3>2. pending[j].span = batch[n]  BY <1>6, <2>5, <3>1
    <3> QED  BY <2>1, <2>5, <3>2
  <2> QED  BY <2>2, <2>3, <2>4, <2>5
<1>10. KnownRight(contexts) /\ KnownSpans(contexts)
  <2>1. ASSUME NEW s \in Spans, contexts[s.key] # Unknown
        PROVE  contexts[s.key] = TrueAgent[s]
    <3>1. PICK t \in There : t.key = s.key  BY <2>1, SpanParts DEF Attributed
    <3>2. t \in Spans  BY DEF Places
    <3>3. t = s  BY <3>1, <3>2
    <3> QED  BY <3>3 DEF Attributed
  <2>2. There \subseteq Spans  BY DEF Places
  <2> QED  BY <2>1, <2>2 DEF KnownRight, KnownSpans, Attributed
<1>11. contexts \in Knowns  OBVIOUS
<1>12. /\ D \subseteq DOMAIN w
       /\ \A i \in D :
            /\ agent[i] = TrueAgent[w[i].span]
            /\ agent[i] \in AgentContexts
            /\ w[i].span.agent # NoAgent \/ w[i].span.parent = NoKey
               \/ contexts[w[i].span.parent] # Unknown
               \/ \E j \in D : w[j].span.key = w[i].span.parent
       /\ \A i \in DOMAIN w \ D :
            /\ w[i].span.agent = NoAgent /\ w[i].span.parent # NoKey
            /\ contexts[w[i].span.parent] = Unknown
            /\ \A j \in D : w[j].span.key # w[i].span.parent
  <2>1. w \in Works /\ contexts \in Knowns /\ KnownRight(contexts) /\ KnownSpans(contexts)
    BY <1>6, <1>10
  <2>2. \A i \in D : agent[i] = ResolvedContext(w, contexts, i)  OBVIOUS
  <2>3. D = Resolved(w, contexts)  OBVIOUS
  <2> HIDE DEF Inv, SummaryType, agent, D
  <2>4. /\ D \subseteq DOMAIN w
        /\ \A i \in D :
             /\ ResolvedContext(w, contexts, i) = TrueAgent[w[i].span]
             /\ ResolvedContext(w, contexts, i) \in AgentContexts
             /\ w[i].span.agent # NoAgent \/ w[i].span.parent = NoKey
                \/ contexts[w[i].span.parent] # Unknown
                \/ \E j \in D : w[j].span.key = w[i].span.parent
        /\ \A i \in DOMAIN w \ D :
             /\ w[i].span.agent = NoAgent /\ w[i].span.parent # NoKey
             /\ contexts[w[i].span.parent] = Unknown
             /\ \A j \in D : w[j].span.key # w[i].span.parent
    BY <2>1, <2>3, ReadyFacts
  <2> QED  BY <2>2, <2>4
<1>13. agent \in [D -> AgentContexts]
  <2>1. agent = [i \in D |-> agent[i]]  OBVIOUS
  <2> HIDE DEF agent
  <2> QED  BY <1>12, <2>1
<1> HIDE DEF D, agent
<1>14. /\ contexts' \in Knowns
       /\ \A i \in D : contexts'[w[i].span.key] = TrueAgent[w[i].span]
       /\ \A k \in Keys : (\A i \in D : w[i].span.key # k) => contexts'[k] = contexts[k]
  <2>1. /\ contexts' = Learn(contexts, w, agent, Keys)
        /\ w \in Works /\ contexts \in Knowns /\ D \in SUBSET DOMAIN w
        /\ agent \in [D -> AgentContexts]
        /\ \A i \in D : agent[i] = TrueAgent[w[i].span]
    BY <1>3, <1>6, <1>12, <1>13
  <2> HIDE DEF Inv, SummaryType, agent, D
  <2>2. Learns(contexts', contexts, w, D)  BY <2>1, LearnFacts
  <2> QED  BY <2>2 DEF Learns
<1>15. new \in SUBSET Spans /\ R \in SUBSET Spans /\ new \subseteq left
       /\ R \subseteq Waiting \cup new
  <2>1. new \subseteq left /\ new \subseteq Spans  BY <1>4
  <2>2. R \subseteq Waiting \cup new  BY <1>8, <1>12
  <2>3. Waiting \subseteq Spans  BY DEF Places
  <2> QED  BY <2>1, <2>2, <2>3
<1>16. IsFiniteSet(R)
  <2>1. IsFiniteSet(DOMAIN w)  BY <1>4, <1>6, FS_Interval
  <2>2. IsFiniteSet(D)  BY <1>12, <2>1, FS_Subset
  <2> DEFINE h == [i \in D |-> w[i].span]
  <2>3. R = {h[i] : i \in D}  OBVIOUS
  <2> HIDE DEF h, R
  <2> QED  BY <2>2, <2>3, ImageIsFinite
<1>17. PICK order \in InOrder(DOMAIN w \ D) : pending' = At(w, order)  BY <1>3
<1>18. /\ order \in Seq(DOMAIN w \ D) /\ Len(order) \in Nat
       /\ DOMAIN order = 1..Len(order)
       /\ \A i, j \in DOMAIN order : order[i] = order[j] => i = j
       /\ \A n \in DOMAIN w \ D : \E i \in DOMAIN order : order[i] = n
  <2>1. DOMAIN w \ D \subseteq Nat  BY <1>6
  <2>2. IsFiniteSet(DOMAIN w \ D)
    <3>1. IsFiniteSet(1..(Len(pending) + size))
      BY <1>4, <1>6, FS_Interval
    <3> HIDE DEF Inv, SummaryType
    <3> QED  BY <1>6, <3>1, FS_Subset
  <2> QED  BY <2>1, <2>2, LeftInOrder
<1>19. DOMAIN pending' = DOMAIN order /\ \A i \in DOMAIN order : pending'[i] = w[order[i]]
  BY <1>17 DEF At
<1>20. \A i \in DOMAIN order : order[i] \in DOMAIN w \ D  BY <1>18
<1>21. pending' \in Works
  <2>1. \A i \in DOMAIN order : w[order[i]] \in Observations
    BY <1>6, <1>20 DEF Works
  <2>2. pending' = [i \in 1..Len(order) |-> w[order[i]]]  BY <1>17, <1>18 DEF At
  <2>3. pending' \in [1..Len(order) -> Observations]  BY <1>18, <2>1, <2>2
  <2>4. pending' \in Seq(Observations)  BY <1>18, <2>3
  <2> QED  BY <2>4 DEF Works
<1>22. Once(pending')
  BY <1>9, <1>18, <1>19, <1>20 DEF Once
<1>23. Waiting' = (Waiting \cup new) \ R
  <2>1. Waiting' = {w[n].span : n \in DOMAIN w \ D}
    BY <1>18, <1>19, <1>20 DEF Waiting
  <2>2. \A m \in DOMAIN w, n \in D : w[m].span = w[n].span => m = n
    BY <1>9, <1>12 DEF Once
  <2>3. {w[n].span : n \in DOMAIN w \ D} = {w[i].span : i \in DOMAIN w} \ R
    BY <1>12, <2>2
  <2> QED  BY <1>8, <2>1, <2>3
<1>24. inOrder' = (inOrder /\ \A t \in new, s \in left : s.parent = t.key => s \in new)
  <2>1. (\A i \in DOMAIN batch, s \in left :
           s.parent = batch[i].key => \E j \in DOMAIN batch : batch[j] = s)
        <=> \A t \in new, s \in left : s.parent = t.key => s \in new
    OBVIOUS
  <2> QED  BY <1>2, <2>1
<1>25. Moved(new, R)
  BY <1>2, <1>15, <1>21, <1>22, <1>23, <1>24 DEF Moved
<1>26. Recorded(R)
  <2>1. \A s \in R : contexts'[s.key] = TrueAgent[s] /\ TrueAgent[s] \in AgentContexts
    BY <1>12, <1>14
  <2>2. \A k \in Keys : (\A s \in R : s.key # k) => contexts'[k] = contexts[k]
    BY <1>14
  <2> QED  BY <1>3, <1>14, <1>16, <2>1, <2>2 DEF Recorded
<1>27. Parted(new, R)
  <2>1. \A s \in R : s.agent = NoAgent /\ s.parent # NoKey =>
          contexts[s.parent] # Unknown \/ \E p \in R : p.key = s.parent
    BY <1>12
  <2>2. ASSUME NEW s \in (Waiting \cup new) \ R
        PROVE  /\ s.agent = NoAgent /\ s.parent # NoKey /\ contexts[s.parent] = Unknown
               /\ \A p \in R : p.key # s.parent
    <3>1. PICK i \in DOMAIN w : w[i].span = s  BY <1>8, <2>2
    <3>2. i \notin D  BY <2>2, <3>1
    <3> QED  BY <1>12, <3>1, <3>2
  <2> QED  BY <2>1, <2>2 DEF Parted
<1>28. Request(new, R)  BY <1>25, <1>26, <1>27 DEF Request
<1> HIDE DEF new, R
<1> QED  BY <1>15, <1>28

-----------------------------------------------------------------------------
(***************************************************************************)
(* The graph of a batch, and the steps of the invariant.                   *)
(***************************************************************************)
OfBatch(e, B, agent) ==
  /\ e.span \in B /\ e.agent = agent[e.span]
  /\ e.whole = (e.span \notin Suppressed(B))
  /\ e = [span |-> e.span, agent |-> e.agent, whole |-> e.whole]

LEMMA BuiltFacts ==
  ASSUME NEW B, NEW agent
  PROVE  /\ \A e \in Built(B, agent) : OfBatch(e, B, agent)
         /\ \A s \in B : \E e \in Built(B, agent) : e.span = s
         /\ IsFiniteSet(B) => IsFiniteSet(Built(B, agent))
<1> DEFINE h == [s \in B |-> [span |-> s, agent |-> agent[s], whole |-> s \notin Suppressed(B)]]
<1>1. Built(B, agent) = {h[s] : s \in B}  BY DEF Built
<1>2. \A s \in B : h[s] = [span |-> s, agent |-> agent[s], whole |-> s \notin Suppressed(B)]
  OBVIOUS
<1> HIDE DEF h
<1>3. ASSUME NEW s \in B
      PROVE  OfBatch(h[s], B, agent) /\ h[s].span = s
  <2> DEFINE w == s \notin Suppressed(B)
             e == h[s]
  <2>1. e = [span |-> s, agent |-> agent[s], whole |-> w]  BY <1>2
  <2>2. w = (s \notin Suppressed(B))  OBVIOUS
  <2> HIDE DEF e, w
  <2>3. e.span = s /\ e.agent = agent[s] /\ e.whole = w  BY <2>1
  <2> QED  BY <2>1, <2>2, <2>3 DEF OfBatch, e
<1>4. IsFiniteSet(B) => IsFiniteSet(Built(B, agent))  BY <1>1, ImageIsFinite
<1> QED  BY <1>1, <1>3, <1>4

\* What a request adds to the graph.
Added(R) == Built(R, [s \in Spans |-> contexts'[s.key]])

LEMMA AddedFacts ==
  ASSUME NEW new \in SUBSET Spans, NEW R \in SUBSET Spans, Request(new, R)
  PROVE  /\ merged' = merged \cup Added(R) /\ IsFiniteSet(Added(R))
         /\ There' = There \cup R
         /\ \A s \in R : \E e \in Added(R) : e.span = s
         /\ \A e \in Added(R) :
              /\ e.span \in R /\ e.agent = TrueAgent[e.span] /\ e \in Merged
              /\ e.whole = (e.span \notin Suppressed(R))
         /\ \A e, f \in Added(R) : e.span = f.span => e = f
<1> DEFINE agent == [s \in Spans |-> contexts'[s.key]]
<1>1. /\ IsFiniteSet(R)
      /\ \A s \in R : agent[s] = TrueAgent[s] /\ TrueAgent[s] \in AgentContexts
      /\ merged' = merged \cup Added(R)
      /\ Added(R) = Built(R, agent)
  BY DEF Request, Recorded, Added
<1> HIDE DEF agent
<1>2. /\ \A e \in Added(R) : OfBatch(e, R, agent)
      /\ \A s \in R : \E e \in Added(R) : e.span = s
      /\ IsFiniteSet(Added(R))
  BY <1>1, BuiltFacts
<1>3. ASSUME NEW e \in Added(R)
      PROVE  /\ e.span \in R /\ e.agent = TrueAgent[e.span] /\ e \in Merged
             /\ e.whole = (e.span \notin Suppressed(R))
  <2>1. OfBatch(e, R, agent)  BY <1>2
  <2>2. e.span \in R /\ e.agent = TrueAgent[e.span] /\ e.agent \in AgentContexts
    BY <1>1, <2>1 DEF OfBatch
  <2>3. e.whole = (e.span \notin Suppressed(R))  BY <2>1 DEF OfBatch
  <2>4. e.whole \in BOOLEAN  BY <2>3
  <2>5. e = [span |-> e.span, agent |-> e.agent, whole |-> e.whole]  BY <2>1 DEF OfBatch
  <2>6. e \in Merged  BY <2>2, <2>4, <2>5 DEF Merged
  <2> QED  BY <2>2, <2>3, <2>6
<1>4. ASSUME NEW e \in Added(R), NEW f \in Added(R), e.span = f.span
      PROVE  e = f
  <2>1. OfBatch(e, R, agent) /\ OfBatch(f, R, agent)  BY <1>2
  <2>2. e.agent = f.agent /\ e.whole = f.whole  BY <1>4, <2>1 DEF OfBatch
  <2>3. /\ e = [span |-> e.span, agent |-> e.agent, whole |-> e.whole]
        /\ f = [span |-> f.span, agent |-> f.agent, whole |-> f.whole]
    BY <2>1 DEF OfBatch
  <2> QED  BY <1>4, <2>2, <2>3
<1>5. There' = There \cup R
  <2>1. There' = There \cup {e.span : e \in Added(R)}  BY <1>1 DEF There
  <2>2. {e.span : e \in Added(R)} = R  BY <1>2, <1>3
  <2> QED  BY <2>1, <2>2
<1> QED  BY <1>1, <1>2, <1>3, <1>4, <1>5

LEMMA RequestPlaces ==
  ASSUME Inv, NEW new \in SUBSET Spans, NEW R \in SUBSET Spans, Request(new, R)
  PROVE  SummaryType' /\ Places' /\ R \cap There = {}
<1> USE DEF Inv
<1>1. /\ merged' = merged \cup Added(R) /\ IsFiniteSet(Added(R))
      /\ There' = There \cup R
      /\ \A e \in Added(R) : e.span \in R /\ e \in Merged
      /\ \A e, f \in Added(R) : e.span = f.span => e = f
  BY AddedFacts
<1>2. /\ new \subseteq left /\ left' = left \ new
      /\ R \subseteq Waiting \cup new /\ Waiting' = (Waiting \cup new) \ R
      /\ pending' \in Works /\ Once(pending')
      /\ inOrder' \in BOOLEAN
  BY DEF Request, Moved
<1>3. contexts' \in Knowns  BY DEF Request, Recorded
<1>4. IsFiniteSet(merged')  BY <1>1, FS_Union DEF SummaryType
<1>5. SummaryType'
  BY <1>1, <1>2, <1>3, <1>4 DEF SummaryType
<1>6. R \cap There = {}  BY <1>2 DEF Places
<1>7. \A e \in merged : e.span \in There  BY DEF There
<1>8. \A e, f \in merged' : e.span = f.span => e = f
  BY <1>1, <1>6, <1>7 DEF Places
<1>9. Places'  BY <1>1, <1>2, <1>6, <1>8 DEF Places, Once
<1> QED  BY <1>5, <1>6, <1>9

LEMMA RequestAttributed ==
  ASSUME Inv, NEW new \in SUBSET Spans, NEW R \in SUBSET Spans, Request(new, R)
  PROVE  Attributed' /\ ParentsFirst'
<1> USE DEF Inv
<1>1. /\ merged' = merged \cup Added(R) /\ There' = There \cup R
      /\ \A e \in Added(R) : e.agent = TrueAgent[e.span]
  BY AddedFacts
<1>2. There \subseteq Spans /\ R \cap There = {}
  BY RequestPlaces DEF Places
<1>3. /\ \A s \in R : contexts'[s.key] = TrueAgent[s]
      /\ \A k \in Keys : (\A s \in R : s.key # k) => contexts'[k] = contexts[k]
  BY DEF Request, Recorded
<1>4. \A e \in merged' : e.agent = TrueAgent[e.span]  BY <1>1 DEF Attributed
<1>5. ASSUME NEW s \in There'
      PROVE  contexts'[s.key] = TrueAgent[s]
  <2>1. CASE s \in R  BY <1>3, <2>1
  <2>2. CASE s \notin R
    <3>1. s \in There /\ s \in Spans  BY <1>1, <1>2, <2>2
    <3>2. \A t \in R : t.key # s.key  BY <2>2, <3>1
    <3>3. s.key \in Keys  BY <3>1, SpanParts
    <3>4. contexts'[s.key] = contexts[s.key]  BY <1>3, <3>2, <3>3
    <3> QED  BY <3>1, <3>4 DEF Attributed
  <2> QED  BY <2>1, <2>2
<1>6. ASSUME NEW k \in Keys, contexts'[k] # Unknown
      PROVE  \E s \in There' : s.key = k
  <2>1. CASE \E s \in R : s.key = k  BY <1>1, <2>1
  <2>2. CASE \A s \in R : s.key # k
    <3>1. contexts[k] # Unknown  BY <1>3, <1>6, <2>2
    <3> QED  BY <1>1, <3>1 DEF Attributed
  <2> QED  BY <2>1, <2>2
<1>7. Attributed'  BY <1>4, <1>5, <1>6 DEF Attributed
<1>8. ASSUME NEW s \in There', s.agent = NoAgent, s.parent # NoKey
      PROVE  \E p \in There' : p.key = s.parent
  <2>1. CASE s \in There  BY <1>1, <1>8, <2>1 DEF ParentsFirst
  <2>2. CASE s \in R
    <3>1. contexts[s.parent] # Unknown \/ \E p \in R : p.key = s.parent
      BY <1>8, <2>2 DEF Request, Parted
    <3>2. s.parent \in Keys  BY <1>8, <2>2, SpanParts
    <3> QED  BY <1>1, <3>1, <3>2 DEF Attributed
  <2> QED  BY <1>1, <2>1, <2>2
<1>9. ParentsFirst'  BY <1>8 DEF ParentsFirst
<1> QED  BY <1>7, <1>9

\* A batch takes the model from a summary for a call that it has too.
LEMMA RequestTaken ==
  ASSUME Inv, NEW new \in SUBSET Spans, NEW R \in SUBSET Spans, Request(new, R)
  PROVE  Taken'
<1> USE DEF Inv
<1>1. /\ merged' = merged \cup Added(R)
      /\ \A s \in R : \E e \in Added(R) : e.span = s
      /\ \A e \in Added(R) :
           e.span \in R /\ e.whole = (e.span \notin Suppressed(R))
  BY AddedFacts
<1>2. ASSUME NEW e \in merged, ~e.whole
      PROVE  TakenByCall(e)'
  BY <1>1, <1>2 DEF Taken, TakenByCall
<1>3. ASSUME NEW e \in Added(R), ~e.whole
      PROVE  TakenByCall(e)'
  <2> DEFINE s == e.span
  <2>1. s \in R /\ s \in Suppressed(R)  BY <1>1, <1>3
  <2>2. IsSummary(s)  BY <2>1, SuppressedIs
  <2>3. PICK c \in R : IsConcrete(c) /\ s \in Above(R, c)  BY <2>1, SuppressedIs
  <2>4. ~IsSummary(c)  BY <2>3 DEF IsSummary, IsConcrete
  <2>5. c \in Below(s)  BY <2>2, <2>3, <2>4, AboveHasBelow
  <2>6. PICK f \in Added(R) : f.span = c  BY <1>1, <2>3
  <2>7. f.whole
    <3>1. c \notin Suppressed(R)  BY <2>4, SuppressedIs
    <3> QED  BY <1>1, <2>6, <3>1
  <2>8. s \in Suppressed(Spans)
    <3>1. s \in Above(Spans, c) /\ c \in Spans  BY <2>3, AboveInMore
    <3> QED  BY <2>2, <2>3, <3>1, SuppressedIs
  <2> QED  BY <1>1, <2>2, <2>3, <2>5, <2>6, <2>7, <2>8 DEF TakenByCall
<1> QED  BY <1>1, <1>2, <1>3 DEF Taken

\* In order of ending a batch has, of each of its spans, all spans below that name no
\* agent, and suppresses what a scan does.
LEMMA RequestAsInScan ==
  ASSUME Inv, NEW new \in SUBSET Spans, NEW R \in SUBSET Spans, Request(new, R)
  PROVE  ChildrenExported' /\ TakenAsInScan'
<1> USE DEF Inv
<1>1. /\ new \subseteq left /\ left' = left \ new
      /\ R \subseteq Waiting \cup new
      /\ inOrder' = (inOrder /\ \A t \in new, s \in left : s.parent = t.key => s \in new)
  BY DEF Request, Moved
<1>2. ChildrenExported'
  <2> SUFFICES ASSUME inOrder', NEW s \in left', NEW t \in Spans, s.parent = t.key
               PROVE  t \in left'
    BY DEF ChildrenExported
  <2>1. t \in left  BY <1>1 DEF ChildrenExported
  <2>2. t \notin new  BY <1>1
  <2> QED  BY <1>1, <2>1, <2>2
<1>3. /\ merged' = merged \cup Added(R)
      /\ \A e \in Added(R) :
           e.span \in R /\ e.whole = (e.span \notin Suppressed(R))
  BY AddedFacts
<1>4. SUFFICES ASSUME inOrder', OnlySummariesAreNamed, NEW e \in merged',
                      e.span \in Suppressed(Spans)
               PROVE  ~e.whole
  BY <1>2 DEF TakenAsInScan, OnlySummariesAreNamed
<1>5. CASE e \in merged  BY <1>1, <1>4, <1>5 DEF TakenAsInScan
<1>6. CASE e \in Added(R)
  <2> DEFINE s == e.span
  <2>1. s \in R /\ IsSummary(s)  BY <1>3, <1>4, <1>6, SuppressedIs
  <2>2. PICK c \in Spans : IsConcrete(c) /\ s \in Above(Spans, c)
    BY <1>4, SuppressedIs
  <2>3. ~IsSummary(c)  BY <2>2 DEF IsSummary, IsConcrete
  <2>4. c \in Below(s)  BY <2>1, <2>2, <2>3, AboveHasBelow
  <2>5. ASSUME NEW v \in R, NEW u \in Spans, u.parent = v.key, ~IsSummary(u)
        PROVE  u \in R
    <3>1. u.parent # NoKey  BY <2>5
    <3>2. u.agent = NoAgent  BY <1>4, <2>5, <3>1 DEF OnlySummariesAreNamed
    <3>3. v \notin left'
      BY <1>1, <2>5 DEF Places
    <3>4. u \notin left'
      BY <1>2, <1>4, <2>5, <3>3 DEF ChildrenExported
    <3>5. u \notin There
      <4> SUFFICES ASSUME u \in There PROVE FALSE  OBVIOUS
      <4>1. PICK p \in There : p.key = u.parent  BY <3>1, <3>2 DEF ParentsFirst
      <4>2. p \in Spans  BY DEF Places
      <4>3. p = v  BY <2>5, <4>1, <4>2
      <4> QED  BY <2>5, <4>1, <4>3, RequestPlaces
    <3>6. u \in Waiting \cup new  BY <1>1, <3>4, <3>5 DEF Places
    <3> QED  BY <2>5, <3>6 DEF Request, Parted
  <2>6. c \in R /\ s \in Above(R, c)
    BY <2>1, <2>3, <2>4, <2>5, BelowHasAbove
  <2>7. s \in Suppressed(R)  BY <2>1, <2>2, <2>6, SuppressedIs
  <2> QED  BY <1>3, <1>6, <2>7
<1> QED  BY <1>3, <1>4, <1>5, <1>6

LEMMA NextInv == Inv /\ [Next]_vars => Inv'
<1> SUFFICES ASSUME Inv, [Next]_vars PROVE Inv'  OBVIOUS
<1>1. CASE Next
  <2>1. PICK new, R \in SUBSET Spans : Request(new, R)  BY <1>1, ExportFacts
  <2>2. SummaryType' /\ Places'  BY <2>1, RequestPlaces
  <2>3. Attributed' /\ ParentsFirst'  BY <2>1, RequestAttributed
  <2>4. Taken'  BY <2>1, RequestTaken
  <2>5. ChildrenExported' /\ TakenAsInScan'  BY <2>1, RequestAsInScan
  <2> QED  BY <2>2, <2>3, <2>4, <2>5 DEF Inv
<1>2. CASE UNCHANGED vars
  <2> USE <1>2 DEF vars, Inv
  <2>1. Waiting' = Waiting /\ There' = There  BY DEF Waiting, There
  <2>2. SummaryType'  BY DEF SummaryType
  <2>3. Places'  BY <2>1 DEF Places, Once
  <2>4. Attributed'  BY <2>1 DEF Attributed
  <2>5. ParentsFirst'  BY <2>1 DEF ParentsFirst
  <2>6. Taken'  BY DEF Taken, TakenByCall
  <2>7. ChildrenExported' /\ TakenAsInScan'
    BY DEF ChildrenExported, TakenAsInScan, OnlySummariesAreNamed
  <2> QED  BY <2>2, <2>3, <2>4, <2>5, <2>6, <2>7
<1> QED  BY <1>1, <1>2

LEMMA Invariance == Spec => []Inv
<1> QED  BY InitInv, NextInv, PTL DEF Spec

-----------------------------------------------------------------------------
(***************************************************************************)
(* No call is lost.                                                        *)
(***************************************************************************)
LEMMA MergedOnce ==
  ASSUME Inv
  PROVE  Cardinality(There) = Cardinality(merged)
<1> USE DEF Inv
<1> DEFINE g == [e \in merged |-> e.span]
<1>1. IsFiniteSet(merged)  BY DEF SummaryType
<1>2. There = {g[e] : e \in merged}  BY DEF There
<1>3. g \in Injection(merged, There)
  BY DEF Injection, IsInjective, Places, There
<1>4. g \in Surjection(merged, There)
  BY DEF Surjection, There
<1> HIDE DEF g
<1>5. IsFiniteSet(There)  BY <1>1, <1>2, ImageIsFinite
<1> QED  BY <1>3, <1>4, <1>5, FS_Injection

LEMMA PendingOnce ==
  ASSUME Inv
  PROVE  Cardinality(Waiting) = Len(pending)
<1> USE DEF Inv
<1> DEFINE n == Len(pending)
           g == [i \in 1..n |-> pending[i].span]
<1>1. n \in Nat /\ DOMAIN pending = 1..n  BY DEF SummaryType, Works
<1>2. Waiting = {g[i] : i \in 1..n}  BY <1>1 DEF Waiting
<1>3. g \in Injection(1..n, Waiting)
  BY <1>1 DEF Injection, IsInjective, Places, Once, Waiting
<1>4. g \in Surjection(1..n, Waiting)
  BY <1>1 DEF Surjection, Waiting
<1> HIDE DEF g
<1>5. IsFiniteSet(1..n) /\ Cardinality(1..n) = n  BY <1>1, FS_Interval
<1>6. IsFiniteSet(Waiting)  BY <1>2, <1>5, ImageIsFinite
<1>7. Cardinality(1..n) = Cardinality(Waiting)  BY <1>3, <1>4, <1>6, FS_Injection
<1> QED  BY <1>5, <1>7

\* However the spans of a trace are ordered and grouped, each of them is still to come,
\* waits or is in the graph, once, and a summary is there without its model only
\* beside a concrete operation below it that is there whole.
THEOREM NoCallIsLost == Spec => []NoCallUncounted
<1>1. Inv => NoCallUncounted
  <2> SUFFICES ASSUME Inv PROVE NoCallUncounted  OBVIOUS
  <2>1. Cardinality(There) = Cardinality(merged) /\ Cardinality(Waiting) = Len(pending)
    BY MergedOnce, PendingOnce
  <2>2. /\ merged \subseteq Merged
        /\ left \cup Waiting \cup There = Spans
        /\ left \cap (Waiting \cup There) = {} /\ Waiting \cap There = {}
    BY DEF Inv, SummaryType, Places
  <2>3. \A e \in merged : ~e.whole =>
          /\ IsSummary(e.span)
          /\ \E c \in merged : c.whole /\ IsConcrete(c.span) /\ c.span \in Below(e.span)
    BY DEF Inv, Taken, TakenByCall
  <2> QED  BY <2>1, <2>2, <2>3 DEF NoCallUncounted, Waiting, There
<1> QED  BY <1>1, Invariance, PTL

-----------------------------------------------------------------------------
(***************************************************************************)
(* What a span says, and what it says when it has been reduced.            *)
(***************************************************************************)
ModelNode(m) == [type |-> "model", name |-> m, provider |-> NoName]

OfModel(f, m) == f = ModelNode(m) \/ ("to" \in DOMAIN f /\ f.to = ModelNode(m))

\* The facts of a span that are about its model, and the others.
ModelFacts(name, m) ==
  Node("model", m, NoName)
  \cup [from : Node("agent", name, NoName), relation : {"uses"}, to : Node("model", m, NoName)]

OtherFacts(name, a) ==
  LET agent  == Node("agent", name, NoName)
      server == Node("mcp_server", a.server, NoName)
      tool   == Node("tool", ToolName(a), a.server)
      data   == Node("data_source", a.data, NoName)
      prompt == Node("prompt", PromptName(a), NoName)
  IN  agent \cup server \cup tool \cup data \cup prompt
      \cup [from : agent, relation : {"connects_to"}, to : server]
      \cup [from : agent, relation : {"invokes"}, to : tool]
      \cup [from : server, relation : {"provides"}, to : tool]
      \cup [from : agent, relation : {"reads_from"}, to : data]
      \cup [from : agent, relation : {"uses_prompt"}, to : prompt]

LEMMA FactsSplit ==
  ASSUME NEW a, NEW context
  PROVE  Facts(a, context) = OtherFacts(AgentName(a, context), a)
                             \cup ModelFacts(AgentName(a, context), a.model)
BY Zenon DEF Facts, OtherFacts, ModelFacts

LEMMA ModelFactsAreOfModel ==
  ASSUME NEW name, NEW m
  PROVE  \A f \in ModelFacts(name, m) : OfModel(f, m)
<1>1. \A n \in Node("model", m, NoName) : n = ModelNode(m)
  BY DEF Node, ModelNode
<1>2. ASSUME NEW f \in [from : Node("agent", name, NoName), relation : {"uses"},
                        to : Node("model", m, NoName)]
      PROVE  "to" \in DOMAIN f /\ f.to \in Node("model", m, NoName)
  OBVIOUS
<1> QED  BY <1>1, <1>2 DEF ModelFacts, OfModel

LEMMA NoModelNoFacts ==
  ASSUME NEW name
  PROVE  ModelFacts(name, NoName) = {}
<1>1. Node("model", NoName, NoName) = {}  BY DEF Node
<1>2. [from : Node("agent", name, NoName), relation : {"uses"}, to : {}] = {}
  OBVIOUS
<1> QED  BY <1>1, <1>2 DEF ModelFacts

\* Without an agent a span says less.
LEMMA AgentlessIsLess ==
  ASSUME NEW name, NEW a
  PROVE  /\ OtherFacts(NoName, a) \subseteq OtherFacts(name, a)
         /\ ModelFacts(NoName, a.model) \subseteq ModelFacts(name, a.model)
<1>1. Node("agent", NoName, NoName) = {}  BY DEF Node
<1>2. \A r, T : [from : {}, relation : {r}, to : T] = {}  OBVIOUS
<1>3. OtherFacts(NoName, a) \subseteq OtherFacts(name, a)
  BY <1>1, <1>2 DEF OtherFacts
<1>4. ModelFacts(NoName, a.model) \subseteq ModelFacts(name, a.model)
  BY <1>1, <1>2 DEF ModelFacts
<1> QED  BY <1>3, <1>4

\* Spans that say the same of everything but agents and models.
Like(a, b) ==
  /\ a.server = b.server /\ ToolName(a) = ToolName(b)
  /\ a.data = b.data /\ PromptName(a) = PromptName(b)

LEMMA LikeFacts ==
  ASSUME NEW a, NEW b, Like(a, b), NEW name
  PROVE  OtherFacts(name, a) = OtherFacts(name, b)
BY DEF Like, OtherFacts

\* A span as it was sent.
Sent(a) == a \in Attributes /\ a.content # "present"

LEMMA ReducedParts ==
  ASSUME NEW a, Sent(a)
  PROVE  /\ Reduced(a).operation = a.operation /\ Reduced(a).entity = a.entity
         /\ Reduced(a).service = a.service     /\ Reduced(a).model = a.model
         /\ Reduced(a).declared = a.declared   /\ Like(a, Reduced(a))
         /\ HasGenAIAttributes(Reduced(a)) => HasGenAIAttributes(a)
<1> DEFINE r == Reduced(a)
<1>1. r = [a EXCEPT !.content = IF a.content = "text" THEN "present" ELSE a.content,
                    !.other   = IF a.other = "discarded" THEN "none" ELSE a.other]
  BY DEF Reduced
<1> HIDE DEF r
<1>2. /\ r.operation = a.operation /\ r.entity = a.entity /\ r.service = a.service
      /\ r.model = a.model /\ r.server = a.server /\ r.tool = a.tool
      /\ r.data = a.data /\ r.template = a.template /\ r.declared = a.declared
      /\ r.content = IF a.content = "text" THEN "present" ELSE a.content
      /\ r.other = IF a.other = "discarded" THEN "none" ELSE a.other
  BY <1>1 DEF Sent, Attributes
<1>3. Like(a, r)  BY <1>2 DEF Like, ToolName, PromptName
<1>4. HasGenAIAttributes(r) => HasGenAIAttributes(a)
  BY <1>2 DEF HasGenAIAttributes
<1> QED  BY <1>2, <1>3, <1>4 DEF r

LEMMA WithoutModelParts ==
  ASSUME NEW a \in Attributes
  PROVE  /\ WithoutModel(a).operation = a.operation /\ WithoutModel(a).entity = a.entity
         /\ WithoutModel(a).service = a.service     /\ WithoutModel(a).model = NoName
         /\ WithoutModel(a).declared = a.declared   /\ Like(a, WithoutModel(a))
<1> DEFINE r == WithoutModel(a)
<1>1. r = [a EXCEPT !.model = NoName]  BY DEF WithoutModel
<1> HIDE DEF r
<1>2. /\ r.operation = a.operation /\ r.entity = a.entity /\ r.service = a.service
      /\ r.model = NoName /\ r.server = a.server /\ r.tool = a.tool
      /\ r.data = a.data /\ r.template = a.template /\ r.declared = a.declared
      /\ r.content = a.content
  BY <1>1 DEF Attributes
<1>3. Like(a, r)  BY <1>2 DEF Like, ToolName, PromptName
<1> QED  BY <1>2, <1>3 DEF r

LEMMA ReducedWithoutModelParts ==
  ASSUME NEW a, Sent(a)
  PROVE  LET x == WithoutModel(Reduced(a)) IN
         /\ x.operation = a.operation /\ x.entity = a.entity /\ x.service = a.service
         /\ x.model = NoName /\ x.declared = a.declared /\ Like(a, x)
<1> DEFINE r == Reduced(a)
           x == WithoutModel(r)
<1>1. r = [a EXCEPT !.content = IF a.content = "text" THEN "present" ELSE a.content,
                    !.other   = IF a.other = "discarded" THEN "none" ELSE a.other]
  BY DEF Reduced
<1>2. x = [r EXCEPT !.model = NoName]  BY DEF WithoutModel
<1> HIDE DEF r, x
<1>3. /\ x.operation = a.operation /\ x.entity = a.entity /\ x.service = a.service
      /\ x.model = NoName /\ x.server = a.server /\ x.tool = a.tool
      /\ x.data = a.data /\ x.template = a.template /\ x.declared = a.declared
      /\ x.content = IF a.content = "text" THEN "present" ELSE a.content
  BY <1>1, <1>2 DEF Sent, Attributes
<1>4. Like(a, x)  BY <1>3 DEF Like, ToolName, PromptName, Sent
<1> QED  BY <1>3, <1>4 DEF r, x

LEMMA WithoutServiceParts ==
  ASSUME NEW a \in Attributes
  PROVE  LET r == [a EXCEPT !.service = NoName] IN
         /\ r.operation = a.operation /\ r.entity = a.entity /\ r.model = a.model
         /\ r.service = NoName /\ Like(a, r)
<1> DEFINE r == [a EXCEPT !.service = NoName]
<1>1. r = [a EXCEPT !.service = NoName]  OBVIOUS
<1> HIDE DEF r
<1>2. /\ r.operation = a.operation /\ r.entity = a.entity /\ r.service = NoName
      /\ r.model = a.model /\ r.server = a.server /\ r.tool = a.tool
      /\ r.data = a.data /\ r.template = a.template /\ r.content = a.content
  BY <1>1 DEF Attributes
<1>3. Like(a, r)  BY <1>2 DEF Like, ToolName, PromptName
<1> QED  BY <1>2, <1>3 DEF r

\* A reduced span says the same, but for the agent that only its attributes gave away.
LEMMA ReducedFacts ==
  ASSUME NEW s \in Spans, Sent(Says[s]), NEW context
  PROVE  Facts(Reduced(Says[s]), context)
           = Facts(Says[s], context) \ KnownToScanOnly(s, context)
<1> DEFINE a == Says[s]
           r == Reduced(a)
           u == [a EXCEPT !.service = NoName]
           name == AgentName(a, context)
<1>1. /\ r.operation = a.operation /\ r.entity = a.entity /\ r.service = a.service
      /\ r.model = a.model /\ r.declared = a.declared /\ Like(a, r)
      /\ HasGenAIAttributes(r) => HasGenAIAttributes(a)
  BY ReducedParts
<1>2. /\ u.operation = a.operation /\ u.entity = a.entity /\ u.model = a.model
      /\ u.service = NoName /\ Like(a, u)
  BY WithoutServiceParts DEF Sent
<1> HIDE DEF r, u
<1>3. /\ Facts(a, context) = OtherFacts(name, a) \cup ModelFacts(name, a.model)
      /\ Facts(r, context) = OtherFacts(AgentName(r, context), a)
                             \cup ModelFacts(AgentName(r, context), a.model)
      /\ Facts(u, context) = OtherFacts(AgentName(u, context), a)
                             \cup ModelFacts(AgentName(u, context), a.model)
  BY <1>1, <1>2, FactsSplit, LikeFacts
<1>4. KnownToScanOnly(s, context) =
        IF name = AgentName(r, context) THEN {} ELSE Facts(a, context) \ Facts(u, context)
  BY DEF KnownToScanOnly, r, u
<1>5. ASSUME name = AgentName(r, context)
      PROVE  Facts(r, context) = Facts(a, context) \ KnownToScanOnly(s, context)
  BY <1>3, <1>4, <1>5
<1>6. ASSUME name # AgentName(r, context)
      PROVE  Facts(r, context) = Facts(a, context) \ KnownToScanOnly(s, context)
  <2>1. AgentName(r, context) = NoName /\ AgentName(u, context) = NoName
    BY <1>1, <1>2, <1>6 DEF AgentName
  <2>2. /\ OtherFacts(NoName, a) \subseteq OtherFacts(name, a)
        /\ ModelFacts(NoName, a.model) \subseteq ModelFacts(name, a.model)
    BY AgentlessIsLess
  <2>3. Facts(r, context) = Facts(u, context) /\ Facts(u, context) \subseteq Facts(a, context)
    BY <1>3, <2>1, <2>2
  <2> QED  BY <1>4, <1>6, <2>3
<1> QED  BY <1>5, <1>6 DEF r

\* A summary has its agent with and without its model, reduced or not.
LEMMA SummaryFacts ==
  ASSUME NEW s \in Spans, Sent(Says[s]), IsSummary(s), NEW context, NEW x,
         x.operation = Says[s].operation, x.entity = Says[s].entity,
         x.service = Says[s].service, x.declared = Says[s].declared, Like(Says[s], x)
  PROVE  Facts(x, context) = OtherFacts(AgentName(Says[s], context), Says[s])
                             \cup ModelFacts(AgentName(Says[s], context), x.model)
<1> DEFINE a == Says[s]
<1>1. a.operation = "invoke_agent"  BY DEF IsSummary
<1>2. HasGenAIAttributes(a) /\ HasGenAIAttributes(x)  BY <1>1 DEF HasGenAIAttributes
<1>3. AgentName(x, context) = AgentName(a, context)  BY <1>2 DEF AgentName
<1> QED  BY <1>3, FactsSplit, LikeFacts

\* What collect and what scan make of a span, whole or without its model.
Kept(s, whole) ==
  Facts(IF whole THEN Reduced(Says[s]) ELSE WithoutModel(Reduced(Says[s])), TrueAgent[s])
Seen(s, whole) ==
  Facts(IF whole THEN Says[s] ELSE WithoutModel(Says[s]), TrueAgent[s])
Lost(s) == KnownToScanOnly(s, TrueAgent[s])

LEMMA SaysIsSent ==
  ASSUME NEW s \in Spans
  PROVE  Sent(Says[s])
BY FactsAssumption DEF Sent

LEMMA SummaryTold ==
  ASSUME NEW s \in Spans, IsSummary(s), NEW whole \in BOOLEAN
  PROVE  LET name == AgentName(Says[s], TrueAgent[s])
             m == IF whole THEN Says[s].model ELSE NoName
             all == OtherFacts(name, Says[s]) \cup ModelFacts(name, m)
         IN  Kept(s, whole) = all /\ Seen(s, whole) = all /\ Lost(s) = {}
<1> DEFINE a == Says[s]
           r == Reduced(a)
           k == IF whole THEN r ELSE WithoutModel(r)
           n == IF whole THEN a ELSE WithoutModel(a)
           m == IF whole THEN a.model ELSE NoName
           name == AgentName(a, TrueAgent[s])
<1>1. Sent(a) /\ a \in Attributes  BY SaysIsSent DEF Sent
<1>2. /\ r.operation = a.operation /\ r.entity = a.entity /\ r.service = a.service
      /\ r.model = a.model /\ r.declared = a.declared /\ Like(a, r)
  BY <1>1, ReducedParts
<1>3. LET x == WithoutModel(r) IN
      /\ x.operation = a.operation /\ x.entity = a.entity /\ x.service = a.service
      /\ x.model = NoName /\ x.declared = a.declared /\ Like(a, x)
  BY <1>1, ReducedWithoutModelParts
<1> HIDE DEF r, a
<1>4. /\ n.operation = a.operation /\ n.entity = a.entity /\ n.service = a.service
      /\ n.model = m /\ n.declared = a.declared /\ Like(a, n)
  BY <1>1, WithoutModelParts DEF Like
<1>5. /\ k.operation = a.operation /\ k.entity = a.entity /\ k.service = a.service
      /\ k.model = m /\ k.declared = a.declared /\ Like(a, k)
  BY <1>2, <1>3
<1> HIDE DEF k, n, m
<1>6. Facts(n, TrueAgent[s]) = OtherFacts(name, a) \cup ModelFacts(name, m)
  BY <1>1, <1>4, SummaryFacts DEF a
<1>7. Facts(k, TrueAgent[s]) = OtherFacts(name, a) \cup ModelFacts(name, m)
  BY <1>1, <1>5, SummaryFacts DEF a
<1>8. Lost(s) = {}
  <2>1. a.operation = "invoke_agent"  BY DEF IsSummary, a
  <2>2. HasGenAIAttributes(a) /\ HasGenAIAttributes(r)
    BY <1>2, <2>1 DEF HasGenAIAttributes
  <2>3. AgentName(r, TrueAgent[s]) = AgentName(a, TrueAgent[s])
    BY <1>2, <2>2 DEF AgentName
  <2> QED  BY <2>3 DEF Lost, KnownToScanOnly, a, r
<1> QED  BY <1>6, <1>7, <1>8 DEF Kept, Seen, k, n, m, r, a

LEMMA ToldAlike ==
  ASSUME NEW s \in Spans, NEW v \in BOOLEAN, NEW w \in BOOLEAN,
         IsSummary(s) \/ (v /\ w)
  PROVE  /\ v = w => Kept(s, v) = Seen(s, w) \ Lost(s)
         /\ \A f : ~OfModel(f, Says[s].model) =>
              (f \in Kept(s, v) <=> f \in Seen(s, w) /\ f \notin Lost(s))
<1>1. CASE v /\ w
  <2>1. Kept(s, TRUE) = Seen(s, TRUE) \ Lost(s)
    BY SaysIsSent, ReducedFacts DEF Kept, Seen, Lost
  <2>2. v = TRUE /\ w = TRUE  BY <1>1
  <2> QED  BY <2>1, <2>2
<1>2. CASE IsSummary(s)
  <2> DEFINE name == AgentName(Says[s], TrueAgent[s])
             m(b) == IF b THEN Says[s].model ELSE NoName
             all(b) == OtherFacts(name, Says[s]) \cup ModelFacts(name, m(b))
  <2>1. Kept(s, v) = all(v) /\ Seen(s, w) = all(w) /\ Lost(s) = {}
    BY <1>2, SummaryTold
  <2>2. \A b \in BOOLEAN : \A f \in ModelFacts(name, m(b)) : OfModel(f, Says[s].model)
    BY ModelFactsAreOfModel, NoModelNoFacts
  <2> HIDE DEF m
  <2> QED  BY <2>1, <2>2
<1> QED  BY <1>1, <1>2

-----------------------------------------------------------------------------
(***************************************************************************)
(* Collect and scan.                                                       *)
(***************************************************************************)

\* The span is in the graph with what it says of a model.
Whole(s) == \E e \in merged : e.span = s /\ e.whole
WholeInScan(s) == s \notin Suppressed(Spans)

Fact(s, f) == [span |-> s, fact |-> f]

LEMMA CollectedIs ==
  ASSUME Inv, left = {}, pending = <<>>, NEW p
  PROVE  p \in Collected
         <=> \E s \in Spans : \E f \in Kept(s, Whole(s)) : p = Fact(s, f)
<1> USE DEF Inv
<1>1. There = Spans
  <2>1. Waiting = {}  BY DEF Waiting
  <2> QED  BY <2>1 DEF Places
<1>2. ASSUME NEW e \in merged
      PROVE  /\ e.span \in Spans /\ e.agent = TrueAgent[e.span]
             /\ e.whole = Whole(e.span)
  <2>1. e.whole \in BOOLEAN  BY DEF SummaryType, Merged
  <2>2. \A d \in merged : d.span = e.span => d = e  BY DEF Places
  <2>3. Whole(e.span) <=> e.whole  BY <2>2 DEF Whole
  <2>4. Whole(e.span) \in BOOLEAN  BY DEF Whole
  <2>5. e.whole = Whole(e.span)  BY <2>1, <2>3, <2>4
  <2> QED  BY <1>1, <2>5 DEF There, Attributed
<1>3. ASSUME NEW e \in merged
      PROVE  Facts(IF e.whole THEN Reduced(Says[e.span])
                   ELSE WithoutModel(Reduced(Says[e.span])), e.agent)
               = Kept(e.span, Whole(e.span))
  BY <1>2 DEF Kept
<1>4. p \in Collected <=> \E e \in merged : p \in Told(Reduced(Says[e.span]), e)
  BY DEF Collected
<1>5. ASSUME NEW e \in merged
      PROVE  p \in Told(Reduced(Says[e.span]), e)
             <=> \E f \in Kept(e.span, Whole(e.span)) : p = Fact(e.span, f)
  BY <1>3 DEF Told, Fact
<1>6. ASSUME NEW s \in Spans
      PROVE  \E e \in merged : e.span = s
  BY <1>1 DEF There
<1> QED  BY <1>2, <1>4, <1>5, <1>6

LEMMA ScannedIs ==
  ASSUME NEW p
  PROVE  p \in Scanned
         <=> \E s \in Spans : \E f \in Seen(s, WholeInScan(s)) : p = Fact(s, f)
<1> DEFINE B == Built(Spans, TrueAgent)
<1>1. /\ \A e \in B : OfBatch(e, Spans, TrueAgent)
      /\ \A s \in Spans : \E e \in B : e.span = s
  BY BuiltFacts
<1>2. p \in Scanned <=> \E e \in B : p \in Told(Says[e.span], e)
  BY DEF Scanned
<1> HIDE DEF B
<1>3. ASSUME NEW e \in B
      PROVE  /\ e.span \in Spans
             /\ p \in Told(Says[e.span], e)
                <=> \E f \in Seen(e.span, WholeInScan(e.span)) : p = Fact(e.span, f)
  <2>1. /\ e.span \in Spans /\ e.agent = TrueAgent[e.span]
        /\ e.whole = WholeInScan(e.span)
    BY <1>1 DEF OfBatch, WholeInScan
  <2>2. Facts(IF e.whole THEN Says[e.span] ELSE WithoutModel(Says[e.span]), e.agent)
          = Seen(e.span, WholeInScan(e.span))
    BY <2>1 DEF Seen
  <2> QED  BY <2>1, <2>2 DEF Told, Fact
<1> QED  BY <1>1, <1>2, <1>3

\* A span is without its model in either graph only if it is a summary, and in both
\* or neither when the spans came in order of ending.
LEMMA SuppressedAlike ==
  ASSUME Inv, left = {}, pending = <<>>, NEW s \in Spans
  PROVE  /\ Whole(s) \in BOOLEAN /\ WholeInScan(s) \in BOOLEAN
         /\ IsSummary(s) \/ (Whole(s) /\ WholeInScan(s))
         /\ inOrder /\ OnlySummariesAreNamed => Whole(s) = WholeInScan(s)
<1> USE DEF Inv
<1>1. PICK e \in merged : e.span = s
  <2>1. Waiting = {}  BY DEF Waiting
  <2> QED  BY <2>1 DEF Places, There
<1>2. Whole(s) \in BOOLEAN /\ WholeInScan(s) \in BOOLEAN  BY DEF Whole, WholeInScan
<1>3. \A d \in merged : d.span = s => d = e  BY <1>1 DEF Places
<1>4. Whole(s) <=> e.whole  BY <1>1, <1>3 DEF Whole
<1>5. ~e.whole => IsSummary(s) /\ s \in Suppressed(Spans)
  BY <1>1 DEF Taken, TakenByCall
<1>6. ~WholeInScan(s) => IsSummary(s)  BY SuppressedIs DEF WholeInScan
<1>7. inOrder /\ OnlySummariesAreNamed => (s \in Suppressed(Spans) => ~e.whole)
  BY <1>1 DEF TakenAsInScan
<1>8. inOrder /\ OnlySummariesAreNamed => (Whole(s) <=> WholeInScan(s))
  BY <1>4, <1>5, <1>7 DEF WholeInScan
<1> QED  BY <1>2, <1>4, <1>5, <1>6, <1>8

\* The two graphs, fact by fact.
LEMMA AgreesOnFacts ==
  ASSUME Inv, left = {}, pending = <<>>, NEW s \in Spans, NEW f
  PROVE  /\ ~OfModel(f, Says[s].model) =>
              (Fact(s, f) \in Collected
                 <=> Fact(s, f) \in Scanned /\ f \notin Lost(s))
         /\ inOrder /\ OnlySummariesAreNamed =>
              (Fact(s, f) \in Collected
                 <=> Fact(s, f) \in Scanned /\ f \notin Lost(s))
<1>1. \A t, g : Fact(s, f) = Fact(t, g) <=> s = t /\ f = g
  BY DEF Fact
<1>2. Fact(s, f) \in Collected <=> f \in Kept(s, Whole(s))
  BY <1>1, CollectedIs
<1>3. Fact(s, f) \in Scanned <=> f \in Seen(s, WholeInScan(s))
  BY <1>1, ScannedIs
<1>4. /\ Whole(s) \in BOOLEAN /\ WholeInScan(s) \in BOOLEAN
      /\ IsSummary(s) \/ (Whole(s) /\ WholeInScan(s))
      /\ inOrder /\ OnlySummariesAreNamed => Whole(s) = WholeInScan(s)
  BY SuppressedAlike
<1>5. /\ Whole(s) = WholeInScan(s) => Kept(s, Whole(s)) = Seen(s, WholeInScan(s)) \ Lost(s)
      /\ \A g : ~OfModel(g, Says[s].model) =>
           (g \in Kept(s, Whole(s)) <=> g \in Seen(s, WholeInScan(s)) /\ g \notin Lost(s))
  BY <1>4, ToldAlike
<1> QED  BY <1>2, <1>3, <1>4, <1>5

\* When everything has arrived, in whatever order and requests, the graph has the
\* facts of a scan of the same spans, but for models and for agents that only
\* discarded attributes gave away; in order of ending, and with no call that names
\* its agent, for models too.
THEOREM CollectFindsWhatScanFinds == Spec => []CollectAgreesWithScan
<1>1. Inv => CollectAgreesWithScan
  <2> SUFFICES ASSUME Inv, left = {}, pending = <<>> PROVE CollectAgreesWithScan
    BY DEF CollectAgreesWithScan
  <2> DEFINE ofModel == {p \in Scanned \cup Collected : OfModel(p.fact, Says[p.span].model)}
             lost == {p \in Scanned : p.fact \in Lost(p.span)}
  <2>1. ASSUME NEW p \in Scanned \cup Collected
        PROVE  \E s \in Spans : \E f : p = Fact(s, f)
    BY CollectedIs, ScannedIs
  <2>2. ASSUME NEW p \in Scanned \cup Collected
        PROVE  /\ ~OfModel(p.fact, Says[p.span].model) =>
                    (p \in Collected <=> p \in Scanned /\ p.fact \notin Lost(p.span))
               /\ inOrder /\ OnlySummariesAreNamed =>
                    (p \in Collected <=> p \in Scanned /\ p.fact \notin Lost(p.span))
    <3>1. PICK s \in Spans : \E f : p = Fact(s, f)  BY <2>1
    <3>2. PICK f : p = Fact(s, f)  BY <3>1
    <3>3. p.span = s /\ p.fact = f  BY <3>2 DEF Fact
    <3> QED  BY <3>2, <3>3, AgreesOnFacts
  <2>3. Collected \ ofModel = (Scanned \ ofModel) \ lost  BY <2>2
  <2>4. inOrder /\ OnlySummariesAreNamed
          => Collected \cap ofModel = (Scanned \cap ofModel) \ lost
    BY <2>2
  <2> QED  BY <2>3, <2>4 DEF CollectAgreesWithScan, OfModel, ModelNode, Lost
<1> QED  BY <1>1, Invariance, PTL

\* While spans come in order of ending, and no call names its agent, no summary is
\* counted beside a concrete call below it: the document's promise, where it holds.
THEOREM UnnamedCallsCountOnce == OnlySummariesAreNamed => (Spec => []NoCallCountedTwice)
<1>1. OnlySummariesAreNamed /\ Inv => NoCallCountedTwice
  <2> SUFFICES ASSUME OnlySummariesAreNamed, Inv, inOrder,
                      NEW d \in merged, NEW e \in merged, d.whole, e.whole,
                      Says[d.span].model # NoName,
                      IsSummary(d.span), IsConcrete(e.span), e.span \in Below(d.span)
               PROVE  FALSE
    BY DEF NoCallCountedTwice, Counted
  <2> DEFINE s == d.span
             c == e.span
  <2>1. s \in Spans /\ c \in Spans  BY DEF Inv, SummaryType, Merged
  <2>2. ~IsSummary(c)  BY DEF IsSummary, IsConcrete
  <2>3. s \in Above(Spans, c)  BY <2>1, <2>2, BelowHasAbove
  <2>4. s \in Suppressed(Spans)  BY <2>1, <2>3, SuppressedIs
  <2> QED  BY <2>4 DEF Inv, TakenAsInScan
<1>2. SUFFICES ASSUME OnlySummariesAreNamed PROVE Spec => []NoCallCountedTwice
  OBVIOUS
<1>3. Inv => NoCallCountedTwice  BY <1>1, <1>2
<1> QED  BY <1>3, Invariance, PTL
=============================================================================
