--------------------------- MODULE ReceiverProofs ---------------------------
(***************************************************************************)
(* Safety of the receiver for every set of exporters, spans and batches    *)
(* and every limit; and which agent it attributes a span to: in every      *)
(* order of arrival, eviction, overflow and restart that of TrueAgent or   *)
(* none, and exactly that one while nothing was evicted, forced out of the *)
(* queue or lost with a process.                                           *)
(***************************************************************************)
EXTENDS Receiver, FiniteSetTheorems, SequenceTheorems, WellFoundedInduction, TLAPS

Contexts == AgentContexts \cup {Unknown}
Works == Seq(Observations)
Knowns == [Keys -> Contexts]

-----------------------------------------------------------------------------
(***************************************************************************)
(* What the operators of TraceContext return.                              *)
(***************************************************************************)

\* An observation has the parts its span has.
LEMMA ObservationParts ==
  ASSUME NEW o \in Observations
  PROVE  /\ o.span \in Spans
         /\ o.source \in Sources
         /\ o.span.key \in Keys \cup {NoKey}
         /\ o.span.parent \in Keys \cup {NoKey}
         /\ o.span.agent \in AgentContexts
BY SpansAssumption DEF Observations, AgentContexts

\* A set of natural numbers that is not empty has a least element.
LEMMA LeastElement ==
  ASSUME NEW T, T \subseteq Nat, T # {}
  PROVE  \E m \in T : \A n \in T : m <= n
<1> DEFINE less == {p \in Nat \X Nat : p[1] < p[2]}
<1>1. IsWellFoundedOn(less, Nat)
  BY NatLessThanWellFounded DEF OpToRel
<1>2. PICK m \in T : \A n \in T : <<n, m>> \notin less
  <2> HIDE DEF less
  <2> QED  BY <1>1, WFMin
<1>3. \A n \in T : ~(n < m)  BY <1>2
<1>4. QED  BY <1>3

\* The enumeration of a finite set of positions is a sequence over it that
\* meets each of them, once.
LEMMA InOrderType ==
  ASSUME NEW S, IsFiniteSet(S), NEW order \in InOrder(S)
  PROVE  /\ Cardinality(S) \in Nat
         /\ order \in [1..Cardinality(S) -> S]
         /\ order \in Seq(S)
         /\ Len(order) = Cardinality(S)
<1>1. Cardinality(S) \in Nat  BY FS_CardinalityType
<1>2. order \in [1..Cardinality(S) -> S]  BY DEF InOrder
<1>3. QED  BY <1>1, <1>2

LEMMA InOrderInjective ==
  ASSUME NEW S, IsFiniteSet(S), S \subseteq Nat, NEW order \in InOrder(S),
         NEW i \in DOMAIN order, NEW j \in DOMAIN order, i # j
  PROVE  order[i] # order[j]
<1>1. /\ Cardinality(S) \in Nat
      /\ order \in [1..Cardinality(S) -> S]
  BY InOrderType
<1>2. \A m, n \in 1..Cardinality(S) : m < n => order[m] < order[n]
  BY DEF InOrder
<1>3. i \in 1..Cardinality(S) /\ j \in 1..Cardinality(S)  BY <1>1
<1>4. order[i] \in Nat /\ order[j] \in Nat  BY <1>1, <1>3
<1>5. i < j \/ j < i  BY <1>1, <1>3
<1>6. QED  BY <1>2, <1>3, <1>4, <1>5

LEMMA InOrderCovers ==
  ASSUME NEW S, IsFiniteSet(S), S \subseteq Nat, NEW order \in InOrder(S)
  PROVE  {order[i] : i \in DOMAIN order} = S
<1> DEFINE n == Cardinality(S)
<1>1. n \in Nat /\ order \in [1..n -> S]  BY InOrderType
<1>2. \A i, j \in 1..n : order[i] = order[j] => i = j
  BY <1>1, InOrderInjective
<1>3. order \in Injection(1..n, S)
  BY <1>1, <1>2 DEF Injection, IsInjective
<1>4. Cardinality(1..n) = n  BY <1>1, FS_Interval
<1>5. order \in Surjection(1..n, S)  BY <1>3, <1>4, FS_Injection
<1>6. QED  BY <1>1, <1>5 DEF Surjection

-----------------------------------------------------------------------------
\* Cutting a sequence at the limit keeps its newest items, at most
\* MaxDedupeItems of them, and loses none but the oldest.
LEMMA CutAtLimit ==
  ASSUME NEW T, NEW seq \in Seq(T)
  PROVE  /\ Overflow(seq) \in 0..Len(seq)
         /\ Newest(seq) \in Seq(T)
         /\ Len(Newest(seq)) = Len(seq) - Overflow(seq)
         /\ Len(Newest(seq)) <= MaxDedupeItems
         /\ \A i \in DOMAIN Newest(seq) :
              /\ i + Overflow(seq) \in DOMAIN seq
              /\ Newest(seq)[i] = seq[i + Overflow(seq)]
         /\ Oldest(seq) \subseteq T
<1> USE LimitAssumption
<1>1. Len(seq) \in Nat /\ seq \in [1..Len(seq) -> T]  OBVIOUS
<1>2. Overflow(seq) \in 0..Len(seq) /\ Len(seq) - Overflow(seq) <= MaxDedupeItems
  BY <1>1 DEF Overflow
<1>3. /\ Newest(seq) \in Seq(T)
      /\ Len(Newest(seq)) = Len(seq) - Overflow(seq)
      /\ \A i \in 1..Len(Newest(seq)) : Newest(seq)[i] = seq[i + Overflow(seq)]
  BY <1>1, <1>2 DEF Newest
<1>4. Oldest(seq) \subseteq T  BY <1>1, <1>2 DEF Oldest
<1>5. QED  BY <1>1, <1>2, <1>3, <1>4

-----------------------------------------------------------------------------
\* A root has a context, explicit or empty.
LEMMA RootContextType ==
  ASSUME NEW work \in Works, NEW known \in Knowns, NEW i \in Roots(work, known)
  PROVE  RootContext(work, known, i) \in AgentContexts
<1>1. i \in DOMAIN work /\ work[i] \in Observations
  BY DEF Works, Roots
<1>2. /\ work[i].span.parent \in Keys \cup {NoKey}
      /\ work[i].span.agent \in AgentContexts
  BY <1>1, ObservationParts
<1>3. CASE work[i].span.agent # NoAgent
  BY <1>2, <1>3 DEF RootContext
<1>4. CASE work[i].span.agent = NoAgent /\ work[i].span.parent = NoKey
  BY <1>4 DEF RootContext, AgentContexts
<1>5. CASE work[i].span.agent = NoAgent /\ work[i].span.parent # NoKey
  <2>1. work[i].span.parent \in Keys  BY <1>2, <1>5
  <2>2. known[work[i].span.parent] # Unknown  BY <1>5 DEF Roots
  <2>3. known[work[i].span.parent] \in AgentContexts
    BY <2>1, <2>2 DEF Knowns, Contexts
  <2>4. QED  BY <1>5, <2>3 DEF RootContext
<1>6. QED  BY <1>3, <1>4, <1>5

\* Every root leaves with the others it releases, and each of them has the
\* context of a root.
LEMMA ResolvedType ==
  ASSUME NEW work \in Works, NEW known \in Knowns
  PROVE  /\ Resolved(work, known) \subseteq DOMAIN work
         /\ Roots(work, known) \subseteq Resolved(work, known)
         /\ \A i \in Resolved(work, known) :
              \E r \in Roots(work, known) :
                /\ i \in Released(work, known, r)
                /\ ResolvedContext(work, known, i) = RootContext(work, known, r)
         /\ \A i \in Resolved(work, known) :
              ResolvedContext(work, known, i) \in AgentContexts
<1>1. Resolved(work, known) \subseteq DOMAIN work
  BY DEF Resolved, Released
<1>2. Roots(work, known) \subseteq Resolved(work, known)
  BY DEF Resolved, Released, Roots
<1>3. ASSUME NEW i \in Resolved(work, known)
      PROVE  \E r \in Roots(work, known) :
               /\ i \in Released(work, known, r)
               /\ ResolvedContext(work, known, i) = RootContext(work, known, r)
  <2>1. \E r \in Roots(work, known) : i \in Released(work, known, r)
    BY <1>3 DEF Resolved
  <2>2. QED  BY <2>1 DEF ResolvedContext
<1>4. \A i \in Resolved(work, known) :
        ResolvedContext(work, known, i) \in AgentContexts
  BY <1>3, RootContextType
<1>5. QED  BY <1>1, <1>2, <1>3, <1>4

LEMMA LeavingType ==
  ASSUME NEW work \in Works, NEW known \in Knowns,
         NEW forced \in SUBSET DOMAIN work
  PROVE  /\ Resolved(work, known) \cup forced \subseteq DOMAIN work
         /\ Leaving(work, known, forced)
              \in [Resolved(work, known) \cup forced -> AgentContexts]
BY ResolvedType DEF Leaving, AgentContexts

LEMMA LearnType ==
  ASSUME NEW known \in Knowns, NEW work, NEW D,
         NEW agent \in [D -> AgentContexts], NEW remembered
  PROVE  /\ Learn(known, work, agent, remembered) \in Knowns
         /\ \A k \in Keys : k \notin remembered
              => Learn(known, work, agent, remembered)[k] = Unknown
<1> DEFINE holders(k) == {i \in DOMAIN agent : work[i].span.key = k}
<1>1. ASSUME NEW k \in Keys, holders(k) # {}
      PROVE  agent[CHOOSE i \in holders(k) : TRUE] \in AgentContexts
  <2>1. (CHOOSE i \in holders(k) : TRUE) \in holders(k)  BY <1>1
  <2>2. QED  BY <2>1
<1>2. \A k \in Keys : known[k] \in Contexts  BY DEF Knowns
<1>3. QED  BY <1>1, <1>2 DEF Learn, Knowns, Contexts

LEMMA InheritedAgentType ==
  ASSUME NEW span, NEW agent \in [DOMAIN span -> AgentContexts], NEW n
  PROVE  InheritedAgent(span, agent, n) \in AgentContexts
<1> DEFINE found == {agent[m] : m \in Lineage(span, agent, n)} \ {NoAgent}
<1>1. found \subseteq AgentContexts  BY DEF Lineage
<1>2. found # {} => (CHOOSE a \in found : TRUE) \in found  OBVIOUS
<1>3. QED  BY <1>1, <1>2 DEF InheritedAgent, AgentContexts

-----------------------------------------------------------------------------
(***************************************************************************)
(* The accepting step.                                                     *)
(***************************************************************************)
USE SpansAssumption, NullsAssumption, LimitAssumption, ReceiverAssumption

\* What the deduplication loop lets through of a batch, and the keys it adds.
LEMMA FreshFacts ==
  ASSUME TypeOK, NEW batch \in Seq(Observations),
         NEW order \in InOrder(Fresh(batch)),
         NEW named \in InOrder({i \in Fresh(batch) : batch[i].span.key # NoKey})
  PROVE  LET unique == At(batch, order)
             keys   == [n \in DOMAIN named |-> batch[named[n]].span.key]
         IN /\ unique \in Seq(Observations)
            /\ Len(unique) \in 0..Len(batch)
            /\ keys \in Seq(Keys)
            /\ \A i, j \in DOMAIN keys : keys[i] = keys[j] => i = j
            /\ Elements(keys) = KeysOf(unique)
            /\ Elements(keys) \cap seen = {}
            /\ KeysOf(batch) \subseteq seen \cup KeysOf(unique)
<1> DEFINE F == Fresh(batch)
           G == {i \in F : batch[i].span.key # NoKey}
           unique == At(batch, order)
           keys == [n \in DOMAIN named |-> batch[named[n]].span.key]
<1>1. /\ Len(batch) \in Nat /\ DOMAIN batch = 1..Len(batch)
      /\ \A i \in DOMAIN batch : batch[i] \in Observations
  OBVIOUS
<1>2. /\ F \subseteq 1..Len(batch) /\ G \subseteq F
      /\ \A i \in F : /\ i \in DOMAIN batch
                      /\ \/ batch[i].span.key = NoKey
                         \/ /\ batch[i].span.key \notin seen
                            /\ \A j \in 1..(i - 1) :
                                 batch[j].span.key # batch[i].span.key
  BY <1>1 DEF Fresh
<1>3. /\ IsFiniteSet(F) /\ IsFiniteSet(G)
      /\ F \subseteq Nat /\ G \subseteq Nat
      /\ Cardinality(F) \in 0..Len(batch)
  <2>1. IsFiniteSet(1..Len(batch)) /\ Cardinality(1..Len(batch)) = Len(batch)
    BY <1>1, FS_Interval
  <2>2. QED  BY <1>1, <1>2, <2>1, FS_Subset, FS_CardinalityType
<1>4. /\ order \in [1..Cardinality(F) -> F]
      /\ {order[i] : i \in DOMAIN order} = F
  BY <1>3, InOrderType, InOrderCovers
<1>5. /\ Cardinality(G) \in Nat
      /\ named \in [1..Cardinality(G) -> G]
      /\ {named[i] : i \in DOMAIN named} = G
      /\ \A i, j \in DOMAIN named : named[i] = named[j] => i = j
  BY <1>3, InOrderType, InOrderCovers, InOrderInjective
<1>6. unique \in Seq(Observations) /\ Len(unique) = Cardinality(F)
  <2>1. /\ unique = [n \in 1..Cardinality(F) |-> batch[order[n]]]
        /\ \A n \in 1..Cardinality(F) : batch[order[n]] \in Observations
        /\ Cardinality(F) \in Nat
    BY <1>1, <1>2, <1>3, <1>4 DEF At
  <2> HIDE DEF F, unique
  <2>2. unique \in [1..Cardinality(F) -> Observations]  BY <2>1
  <2>3. QED  BY <2>1, <2>2
<1>7. keys \in Seq(Keys)
  <2>1. \A n \in 1..Cardinality(G) : batch[named[n]].span.key \in Keys
    BY <1>1, <1>2, <1>5, ObservationParts
  <2>2. keys \in [1..Cardinality(G) -> Keys]
    <3> HIDE DEF G
    <3> QED  BY <1>5, <2>1
  <2>3. QED
    <3> HIDE DEF G, keys
    <3> QED  BY <1>5, <2>2
<1>8. \A i, j \in G : batch[i].span.key = batch[j].span.key => i = j
  BY <1>1, <1>2, <1>3
<1>9. \A i, j \in DOMAIN keys : keys[i] = keys[j] => i = j
  BY <1>5, <1>8
<1>10. KeysOf(unique) = {batch[i].span.key : i \in G}
  <2>1. Elements(unique) = {batch[i] : i \in F}  BY <1>4 DEF Elements, At
  <2>2. QED  BY <2>1 DEF KeysOf
<1>11. Elements(keys) = {batch[i].span.key : i \in G}
  <2>1. Elements(keys) = {batch[named[n]].span.key : n \in DOMAIN named}
    BY DEF Elements
  <2>2. \A n \in DOMAIN named : named[n] \in G  BY <1>5
  <2>3. \A i \in G : \E n \in DOMAIN named : named[n] = i  BY <1>5
  <2>4. QED  BY <2>1, <2>2, <2>3
<1>12. Elements(keys) \cap seen = {}  BY <1>2, <1>11
<1>13. KeysOf(batch) \subseteq seen \cup KeysOf(unique)
  <2>1. KeysOf(batch) = {batch[i].span.key : i \in DOMAIN batch} \ {NoKey}
    BY DEF KeysOf, Elements
  <2>2. ASSUME NEW i \in DOMAIN batch,
               batch[i].span.key # NoKey, batch[i].span.key \notin seen
        PROVE  \E m \in G : batch[m].span.key = batch[i].span.key
    <3> DEFINE same == {j \in 1..Len(batch) :
                          batch[j].span.key = batch[i].span.key}
    <3>1. same \subseteq Nat /\ same # {}  BY <1>1
    <3>2. PICK m \in same : \A j \in same : m <= j
      <4> HIDE DEF same
      <4> QED  BY <3>1, LeastElement
    <3>3. \A j \in 1..(m - 1) : batch[j].span.key # batch[m].span.key
      BY <1>1, <3>2
    <3>4. m \in G  BY <1>1, <2>2, <3>2, <3>3 DEF Fresh
    <3>5. QED  BY <3>2, <3>4
  <2>3. QED  BY <1>10, <2>1, <2>2
<1>14. QED  BY <1>3, <1>6, <1>7, <1>9, <1>10, <1>11, <1>12, <1>13

-----------------------------------------------------------------------------
\* The evidence merged for what leaves the queue: no count goes down, and each
\* observation that leaves is in the graph afterwards.
LEMMA MergeFacts ==
  ASSUME NEW bag \in [Entries -> Nat], NEW work \in Works,
         NEW D \in SUBSET DOMAIN work, NEW agent \in [D -> AgentContexts]
  PROVE  /\ Merge(bag, work, agent) \in [Entries -> Nat]
         /\ Contained(bag, Merge(bag, work, agent))
         /\ \A i \in D : work[i].span.key # NoKey
              => work[i].span.key \in KeysIn(Merge(bag, work, agent))
<1> DEFINE new(e) == {i \in DOMAIN agent : EntryOf(work, agent, i) = e}
           merged == Merge(bag, work, agent)
<1>1. \A e \in Entries : IsFiniteSet(new(e)) /\ Cardinality(new(e)) \in Nat
  <2>1. IsFiniteSet(DOMAIN work)
    <3>1. DOMAIN work = 1..Len(work) /\ Len(work) \in Nat  BY DEF Works
    <3>2. QED  BY <3>1, FS_Interval
  <2>2. \A e \in Entries : new(e) \subseteq DOMAIN work  OBVIOUS
  <2>3. QED  BY <2>1, <2>2, FS_Subset, FS_CardinalityType
<1>2. \A e \in Entries : merged[e] = bag[e] + Cardinality(new(e))
  BY DEF Merge
<1>3. merged \in [Entries -> Nat]
  <2>1. merged = [e \in Entries |-> bag[e] + Cardinality(new(e))]  BY DEF Merge
  <2>2. \A e \in Entries : bag[e] \in Nat  OBVIOUS
  <2> HIDE DEF merged, new
  <2>3. QED  BY <1>1, <2>1, <2>2
<1>4. Contained(bag, merged)
  <2> HIDE DEF merged, new
  <2> QED  BY <1>1, <1>2 DEF Contained
<1>5. ASSUME NEW i \in D, work[i].span.key # NoKey
      PROVE  work[i].span.key \in KeysIn(merged)
  <2> DEFINE e == EntryOf(work, agent, i)
             span == [j \in DOMAIN agent |-> work[j].span]
  <2>1. work[i] \in Observations  BY DEF Works
  <2>2. InheritedAgent(span, agent, i) \in AgentContexts
    BY InheritedAgentType
  <2>3. e = [span |-> work[i].span, source |-> work[i].source,
             agent |-> InheritedAgent(span, agent, i)]
    BY DEF EntryOf
  <2>4. e \in Entries /\ e.span.key = work[i].span.key
    <3> HIDE DEF e, span
    <3>1. work[i].span \in Spans /\ work[i].source \in Sources
      BY <2>1, ObservationParts
    <3>2. QED  BY <2>2, <2>3, <3>1 DEF Entries
  <2>5. i \in new(e)  OBVIOUS
  <2>6. Cardinality(new(e)) # 0
    <3> HIDE DEF e, new
    <3> QED  BY <1>1, <2>4, <2>5, FS_EmptySet
  <2>7. merged[e] > 0
    <3> HIDE DEF e, new, merged
    <3>1. bag[e] \in Nat  BY <2>4
    <3>2. QED  BY <1>1, <1>2, <2>4, <2>6, <3>1
  <2>8. QED
    <3> HIDE DEF e, merged
    <3> QED  BY <1>5, <2>4, <2>7 DEF KeysIn
<1>6. QED  BY <1>3, <1>4, <1>5

-----------------------------------------------------------------------------
\* What keys hold of a bag or a sequence, in terms of what they contain.
LEMMA KeysInGrows ==
  ASSUME NEW a \in [Entries -> Nat], NEW b \in [Entries -> Nat], Contained(a, b)
  PROVE  KeysIn(a) \subseteq KeysIn(b)
<1>1. \A e \in Entries : a[e] > 0 => b[e] > 0
  <2> TAKE e \in Entries
  <2>1. a[e] \in Nat /\ b[e] \in Nat /\ a[e] <= b[e]  BY DEF Contained
  <2>2. QED  BY <2>1
<1>2. QED  BY <1>1 DEF KeysIn

LEMMA KeysOfConcatenation ==
  ASSUME NEW a \in Works, NEW b \in Works
  PROVE  /\ a \o b \in Works
         /\ KeysOf(a) \subseteq KeysOf(a \o b)
         /\ KeysOf(b) \subseteq KeysOf(a \o b)
<1>1. /\ a \o b \in Works /\ Len(a) \in Nat /\ Len(b) \in Nat
      /\ Len(a \o b) = Len(a) + Len(b)
      /\ DOMAIN a = 1..Len(a) /\ DOMAIN b = 1..Len(b)
      /\ DOMAIN (a \o b) = 1..(Len(a) + Len(b))
      /\ \A i \in 1..Len(a) : (a \o b)[i] = a[i]
      /\ \A i \in 1..Len(b) : (a \o b)[i + Len(a)] = b[i]
  BY DEF Works
<1>2. \A i \in DOMAIN b : i + Len(a) \in DOMAIN (a \o b)  BY <1>1
<1>3. \A i \in DOMAIN a : i \in DOMAIN (a \o b)  BY <1>1
<1>4. Elements(a) \subseteq Elements(a \o b)  BY <1>1, <1>3 DEF Elements
<1>5. Elements(b) \subseteq Elements(a \o b)  BY <1>1, <1>2 DEF Elements
<1>6. QED  BY <1>1, <1>4, <1>5 DEF KeysOf

-----------------------------------------------------------------------------
\* The window after a batch: one queue still, cut at the limit, with nothing in
\* it that was neither remembered nor new.
LEMMA RememberFacts ==
  ASSUME TypeOK, WindowIsOneQueue,
         NEW keys \in Seq(Keys),
         \A i, j \in DOMAIN keys : keys[i] = keys[j] => i = j,
         Elements(keys) \cap seen = {},
         Remember(keys)
  PROVE  /\ seenOrder' \in Seq(Keys) /\ Len(seenOrder') <= MaxDedupeItems
         /\ seen' \subseteq Keys
         /\ seen' \subseteq seen \cup Elements(keys)
         /\ WindowIsOneQueue'
         /\ Oldest(seenOrder \o keys) \subseteq Keys
<1> DEFINE all == seenOrder \o keys
           cut == Overflow(all)
<1>1. /\ seenOrder \in Seq(Keys) /\ seen = Elements(seenOrder)
      /\ \A i, j \in DOMAIN seenOrder : seenOrder[i] = seenOrder[j] => i = j
  BY DEF TypeOK, WindowIsOneQueue
<1> DEFINE m == Len(seenOrder)
           n == Len(keys)
<1>2. /\ all \in Seq(Keys) /\ m \in Nat /\ n \in Nat
      /\ Len(all) = m + n
      /\ DOMAIN seenOrder = 1..m /\ DOMAIN keys = 1..n /\ DOMAIN all = 1..(m + n)
      /\ \A i \in 1..m : all[i] = seenOrder[i]
      /\ \A i \in 1..n : all[i + m] = keys[i]
  BY <1>1
<1> HIDE DEF all, m, n
<1>3. /\ \A i \in 1..m : i \in DOMAIN all /\ all[i] \in seen
      /\ \A i \in DOMAIN all \ (1..m) : /\ i - m \in 1..n
                                       /\ all[i] = keys[i - m]
                                       /\ all[i] \in Elements(keys)
  <2>1. \A i \in 1..m : i \in DOMAIN all /\ all[i] \in seen
    BY <1>1, <1>2 DEF Elements
  <2>2. ASSUME NEW i \in DOMAIN all \ (1..m)
        PROVE  i - m \in 1..n /\ all[i] = keys[i - m]
    <3>1. i - m \in 1..n /\ (i - m) + m = i  BY <1>2
    <3>2. QED  BY <1>2, <3>1
  <2>3. QED  BY <1>2, <2>1, <2>2 DEF Elements
<1>4. \A i, j \in DOMAIN all : all[i] = all[j] => i = j
  <2> SUFFICES ASSUME NEW i \in DOMAIN all, NEW j \in DOMAIN all, all[i] = all[j]
               PROVE  i = j
    OBVIOUS
  <2>1. CASE i \in 1..m
    <3>1. j \in 1..m  BY <1>3, <2>1
    <3>2. QED  BY <1>1, <1>2, <2>1, <3>1
  <2>2. CASE i \notin 1..m
    <3>1. j \notin 1..m  BY <1>3, <2>2
    <3>2. i - m = j - m  BY <1>2, <1>3, <2>2, <3>1
    <3>3. QED  BY <1>2, <3>2
  <2>3. QED  BY <2>1, <2>2
<1>5. Elements(all) = seen \cup Elements(keys)
  <2>1. Elements(all) \subseteq seen \cup Elements(keys)
    BY <1>3 DEF Elements
  <2>2. seen \subseteq Elements(all)
    BY <1>1, <1>2 DEF Elements
  <2>3. Elements(keys) \subseteq Elements(all)
    <3>1. \A i \in DOMAIN keys : i + m \in DOMAIN all /\ all[i + m] = keys[i]
      BY <1>2
    <3>2. QED  BY <3>1 DEF Elements
  <2>4. QED  BY <2>1, <2>2, <2>3
<1>6. /\ cut \in 0..Len(all)
      /\ Newest(all) \in Seq(Keys)
      /\ Len(Newest(all)) = Len(all) - cut
      /\ Len(Newest(all)) <= MaxDedupeItems
      /\ \A i \in DOMAIN Newest(all) : /\ i + cut \in DOMAIN all
                                       /\ Newest(all)[i] = all[i + cut]
      /\ Oldest(all) \subseteq Keys
  BY <1>2, CutAtLimit
<1>7. seenOrder' = Newest(all) /\ seen' = Elements(all) \ Oldest(all)
  BY <1>5 DEF Remember, all
<1>8. DOMAIN Newest(all) = 1..(Len(all) - cut)  BY <1>6
<1>9. Oldest(all) = {all[i] : i \in 1..cut}  BY DEF Oldest
<1> HIDE DEF cut
<1>10. Elements(Newest(all)) = Elements(all) \ Oldest(all)
  <2>1. ASSUME NEW i \in DOMAIN Newest(all)
        PROVE  Newest(all)[i] \in Elements(all) \ Oldest(all)
    <3>1. i + cut \in DOMAIN all /\ i + cut \notin 1..cut
      BY <1>2, <1>6, <1>8
    <3>2. 1..cut \subseteq DOMAIN all  BY <1>2, <1>6
    <3>3. all[i + cut] \notin Oldest(all)  BY <1>4, <1>9, <3>1, <3>2
    <3>4. QED  BY <1>6, <3>1, <3>3 DEF Elements
  <2>2. ASSUME NEW i \in DOMAIN all, all[i] \notin Oldest(all)
        PROVE  all[i] \in Elements(Newest(all))
    <3>1. i \notin 1..cut  BY <1>9, <2>2
    <3>2. i - cut \in DOMAIN Newest(all)  BY <1>2, <1>6, <1>8, <3>1
    <3>3. Newest(all)[i - cut] = all[i]
      <4>1. Newest(all)[i - cut] = all[(i - cut) + cut]  BY <1>6, <3>2
      <4>2. (i - cut) + cut = i  BY <1>2, <1>6
      <4>3. QED  BY <4>1, <4>2
    <3>4. QED  BY <3>2, <3>3 DEF Elements
  <2>3. QED  BY <2>1, <2>2 DEF Elements
<1>11. \A i, j \in DOMAIN Newest(all) : Newest(all)[i] = Newest(all)[j] => i = j
  <2> SUFFICES ASSUME NEW i \in DOMAIN Newest(all), NEW j \in DOMAIN Newest(all),
                      Newest(all)[i] = Newest(all)[j]
               PROVE  i = j
    OBVIOUS
  <2>1. i + cut = j + cut  BY <1>4, <1>6
  <2>2. QED  BY <1>2, <1>6, <1>8, <2>1
<1>12. WindowIsOneQueue'  BY <1>7, <1>10, <1>11 DEF WindowIsOneQueue, Elements
<1>13. Elements(all) \subseteq Keys  BY <1>2 DEF Elements
<1>14. QED
  BY <1>5, <1>6, <1>7, <1>12, <1>13 DEF all

-----------------------------------------------------------------------------
\* A resolution keeps the types and the limit, takes nothing out of the graph,
\* and every observation it worked on is in the graph or waits.
LEMMA ResolveFacts ==
  ASSUME TypeOK, NEW work \in Works, NEW evicted, Resolve(work, evicted)
  PROVE  /\ pending' \in Works /\ Len(pending') <= MaxDedupeItems
         /\ contexts' \in Knowns
         /\ {k \in Keys : contexts'[k] # Unknown} \subseteq seen'
         /\ graph' \in [Entries -> Nat] /\ Contained(graph, graph')
         /\ pressure' \in BOOLEAN
         /\ KeysOf(work) \subseteq KeysIn(graph') \cup KeysOf(pending')
<1> DEFINE known == Forget(evicted)
           W == DOMAIN work \ Resolved(work, known)
<1>1. known \in Knowns
  BY DEF TypeOK, Forget, Knowns, Contexts
<1>2. /\ Resolved(work, known) \subseteq DOMAIN work
      /\ DOMAIN work = 1..Len(work) /\ Len(work) \in Nat
      /\ \A i \in DOMAIN work : work[i] \in Observations
  BY <1>1, ResolvedType DEF Works
<1>3. PICK waiting \in InOrder(W) :
        LET forced == Oldest(waiting)
            agent  == Leaving(work, known, forced)
        IN  /\ pending' = At(work, Newest(waiting))
            /\ contexts' = Learn(known, work, agent, seen')
            /\ graph' = Merge(graph, work, agent)
            /\ pressure' = (pressure \/ evicted # {} \/ forced # {})
  BY DEF Resolve
<1> DEFINE forced == Oldest(waiting)
           agent == Leaving(work, known, forced)
           D == Resolved(work, known) \cup forced
           cut == Overflow(waiting)
           kept == Newest(waiting)
<1>4. /\ waiting \in Seq(W)
      /\ {waiting[i] : i \in DOMAIN waiting} = W
  <2>1. IsFiniteSet(W) /\ W \subseteq Nat
    <3>1. W \subseteq 1..Len(work)  BY <1>2
    <3> HIDE DEF W
    <3>2. IsFiniteSet(1..Len(work))  BY <1>2, FS_Interval
    <3>3. IsFiniteSet(W)  BY <3>1, <3>2, FS_Subset
    <3>4. QED  BY <3>1, <3>3
  <2>2. QED  BY <2>1, InOrderType, InOrderCovers
<1>5. /\ cut \in 0..Len(waiting)
      /\ kept \in Seq(W)
      /\ Len(kept) = Len(waiting) - cut
      /\ Len(kept) <= MaxDedupeItems
      /\ \A i \in DOMAIN kept : kept[i] = waiting[i + cut]
      /\ forced \subseteq W
  BY <1>4, CutAtLimit
<1>6. D \in SUBSET DOMAIN work /\ agent \in [D -> AgentContexts]
  BY <1>1, <1>2, <1>5, LeavingType
<1>7. graph \in [Entries -> Nat] /\ pressure \in BOOLEAN  BY DEF TypeOK
<1>8. /\ contexts' \in Knowns
      /\ {k \in Keys : contexts'[k] # Unknown} \subseteq seen'
  <2> HIDE DEF agent, known, D
  <2>1. contexts' = Learn(known, work, agent, seen')  BY <1>3 DEF agent, known
  <2>2. QED  BY <1>1, <1>6, <2>1, LearnType
<1>9. /\ graph' \in [Entries -> Nat] /\ Contained(graph, graph')
      /\ \A i \in D : work[i].span.key # NoKey
                        => work[i].span.key \in KeysIn(graph')
  <2>1. graph' = Merge(graph, work, agent)  BY <1>3
  <2> HIDE DEF agent, D
  <2>2. QED  BY <1>6, <1>7, <2>1, MergeFacts
<1>10. pressure' \in BOOLEAN  BY <1>3, <1>7
<1>11. pending' = At(work, kept)  BY <1>3
<1>12. pending' \in Works /\ Len(pending') <= MaxDedupeItems
  <2>1. kept \in [1..Len(kept) -> W] /\ Len(kept) \in Nat  BY <1>5
  <2> HIDE DEF kept, W
  <2>2. W \subseteq DOMAIN work  BY DEF W
  <2>3. pending' = [i \in 1..Len(kept) |-> work[kept[i]]]
    BY <1>11, <2>1 DEF At
  <2>4. \A i \in 1..Len(kept) : work[kept[i]] \in Observations
    BY <1>2, <2>1, <2>2
  <2>5. pending' \in Works /\ Len(pending') = Len(kept)
    BY <2>1, <2>3, <2>4 DEF Works
  <2>6. QED  BY <1>5, <2>5
<1>13. ASSUME NEW i \in DOMAIN work, work[i].span.key # NoKey
       PROVE  work[i].span.key \in KeysIn(graph') \cup KeysOf(pending')
  <2>1. CASE i \in D  BY <1>9, <1>13, <2>1
  <2>2. CASE i \notin D
    <3>1. i \in W /\ i \notin forced  BY <2>2
    <3>2. PICK j \in DOMAIN waiting : waiting[j] = i  BY <1>4, <3>1
    <3>3. Len(waiting) \in Nat /\ DOMAIN waiting = 1..Len(waiting)
          /\ DOMAIN kept = 1..(Len(waiting) - cut)
      BY <1>4, <1>5
    <3>4. j \notin 1..cut  BY <3>1, <3>2 DEF Oldest
    <3> HIDE DEF cut, kept, W, forced
    <3>5. j - cut \in DOMAIN kept /\ (j - cut) + cut = j
      BY <1>5, <3>3, <3>4
    <3>6. kept[j - cut] = i  BY <1>5, <3>2, <3>5
    <3>7. j - cut \in DOMAIN pending' /\ pending'[j - cut] = work[i]
      BY <1>11, <3>5, <3>6 DEF At
    <3>8. QED  BY <1>13, <3>7 DEF KeysOf, Elements
  <2>3. QED  BY <2>1, <2>2
<1>14. KeysOf(work) \subseteq KeysIn(graph') \cup KeysOf(pending')
  BY <1>13 DEF KeysOf, Elements
<1>15. QED  BY <1>8, <1>9, <1>10, <1>12, <1>14

-----------------------------------------------------------------------------
(***************************************************************************)
(* The inductive invariant.                                                *)
(***************************************************************************)

\* Exactly the handlers between Lock and Unlock hold the mutex.
HolderHasTheMutex ==
  \A e \in Exporters :
    mu = e <=> Stage(e) \in {"writeGraph", "writeBOM", "respond"}

\* Each snapshot file is behind what it is written from, never ahead.
FilesAreBehind ==
  Contained(graphFile, graph) /\ Contained(bomFile, graphFile)

\* While its snapshot is being written, a batch is in the graph or waits: this
\* is what the acknowledgement rests on.
BatchIsHeld ==
  \A e \in Exporters :
    Stage(e) \in {"writeGraph", "writeBOM"} =>
      KeysOf(handler[e].batch) \subseteq KeysIn(graph) \cup KeysOf(pending)

\* The BOM is written only after the graph file, under the same lock.
GraphIsWritten ==
  \A e \in Exporters : Stage(e) = "writeBOM" => graphFile = graph

IInv ==
  /\ TypeOK
  /\ WindowIsOneQueue
  /\ MemoryBounded
  /\ RememberedIsHeld
  /\ HolderHasTheMutex
  /\ FilesAreBehind
  /\ BatchIsHeld
  /\ GraphIsWritten
  /\ AcknowledgedIsDurable

LEMMA InitIInv == ASSUME Init PROVE IInv
<1>1. TypeOK
  <2>1. Idle \in [stage : Stages, batch : Seq(Observations)]
    BY DEF Idle, Stages
  <2>2. NoContexts \in [Keys -> AgentContexts \cup {Unknown}]
    BY DEF NoContexts
  <2>3. NoEvidence \in [Entries -> Nat]  BY DEF NoEvidence
  <2>4. NoStats \in [requests : Nat, received : Nat, accepted : Nat,
                     duplicate : Nat, pending : Nat, failed : Nat]
    BY DEF NoStats
  <2>5. <<>> \in Seq(Keys) /\ <<>> \in Seq(Observations)  OBVIOUS
  <2>6. 0 \in 0..MaxRequests /\ 0 \in 0..MaxRestarts  OBVIOUS
  <2>7. QED  BY <2>1, <2>2, <2>3, <2>4, <2>5, <2>6 DEF Init, TypeOK
<1>2. KeysOf(<<>>) = {} /\ Elements(<<>>) = {}
  BY DEF KeysOf, Elements
<1>3. KeysIn(NoEvidence) = {} BY DEF KeysIn, NoEvidence
<1>4. WindowIsOneQueue /\ MemoryBounded /\ RememberedIsHeld
  BY <1>2 DEF Init, WindowIsOneQueue, MemoryBounded, RememberedIsHeld, NoContexts
<1>5. HolderHasTheMutex /\ BatchIsHeld /\ GraphIsWritten
  BY DEF Init, HolderHasTheMutex, BatchIsHeld, GraphIsWritten, Stage, Idle
<1>6. FilesAreBehind
  BY DEF Init, FilesAreBehind, Contained, NoEvidence
<1>7. AcknowledgedIsDurable
  BY <1>3 DEF Init, AcknowledgedIsDurable
<1>8. QED  BY <1>1, <1>4, <1>5, <1>6, <1>7 DEF IInv

-----------------------------------------------------------------------------
\* Moving a handler on keeps its batch and leaves the other handlers alone.
Handlers == [Exporters -> [stage : Stages, batch : Seq(Observations)]]

LEMMA MoveFacts ==
  ASSUME handler \in Handlers, NEW e \in Exporters, NEW stage \in Stages,
         Move(e, stage)
  PROVE  /\ handler' \in Handlers
         /\ \A f \in Exporters :
              /\ handler'[f].batch = handler[f].batch
              /\ handler'[f].stage = IF f = e THEN stage ELSE handler[f].stage
BY DEF Move, Handlers

\* A finished handler is idle, and the others are as they were.
LEMMA FinishFacts ==
  ASSUME handler \in Handlers, NEW e \in Exporters, Finish(e)
  PROVE  /\ handler' \in Handlers
         /\ handler'[e].stage = "idle"
         /\ \A f \in Exporters \ {e} : handler'[f] = handler[f]
<1>1. Idle \in [stage : Stages, batch : Seq(Observations)]
  BY DEF Idle, Stages
<1>2. QED  BY <1>1 DEF Finish, Handlers, Idle

-----------------------------------------------------------------------------
\* acceptBound keeps the invariant and takes nothing out of the graph.
LEMMA AcceptFacts ==
  ASSUME IInv, NEW e \in Exporters, Accept(e)
  PROVE  IInv' /\ Contained(graph, graph')
<1> DEFINE batch == handler[e].batch
           fresh == Fresh(batch)
           fresh2 == {i \in fresh : batch[i].span.key # NoKey}
<1>1. /\ TypeOK /\ WindowIsOneQueue /\ MemoryBounded /\ RememberedIsHeld
      /\ HolderHasTheMutex /\ FilesAreBehind /\ AcknowledgedIsDurable
  BY DEF IInv
<1>2. PICK order \in InOrder(fresh), named \in InOrder(fresh2) :
        LET unique == At(batch, order)
            keys   == [n \in DOMAIN named |-> batch[named[n]].span.key]
        IN
          /\ Remember(keys)
          /\ IF unique = <<>>
             THEN UNCHANGED <<contexts, pending, graph, pressure>>
             ELSE Resolve(pending \o unique, Oldest(seenOrder \o keys))
          /\ stats' =
               [requests  |-> stats.requests + 1,
                received  |-> stats.received + Len(batch),
                accepted  |-> stats.accepted + Len(unique),
                duplicate |-> stats.duplicate + (Len(batch) - Len(unique)),
                pending   |-> Len(pending'),
                failed    |-> stats.failed]
  BY DEF Accept
<1> DEFINE unique == At(batch, order)
           keys == [n \in DOMAIN named |-> batch[named[n]].span.key]
           work == pending \o unique
           evicted == Oldest(seenOrder \o keys)
<1>3. batch \in Seq(Observations) /\ pending \in Seq(Observations)
  BY <1>1 DEF TypeOK
<1>4. /\ unique \in Seq(Observations) /\ Len(unique) \in 0..Len(batch)
      /\ keys \in Seq(Keys)
      /\ \A i, j \in DOMAIN keys : keys[i] = keys[j] => i = j
      /\ Elements(keys) = KeysOf(unique)
      /\ Elements(keys) \cap seen = {}
      /\ KeysOf(batch) \subseteq seen \cup KeysOf(unique)
  <2> HIDE DEF batch
  <2>1. named \in InOrder({i \in Fresh(batch) : batch[i].span.key # NoKey})
    OBVIOUS
  <2>2. QED  BY <1>1, <1>3, <2>1, FreshFacts
<1> HIDE DEF keys, unique, batch, fresh, fresh2
<1>5. /\ Remember(keys)
      /\ IF unique = <<>> THEN UNCHANGED <<contexts, pending, graph, pressure>>
                          ELSE Resolve(work, evicted)
      /\ stats' =
           [requests  |-> stats.requests + 1,
            received  |-> stats.received + Len(batch),
            accepted  |-> stats.accepted + Len(unique),
            duplicate |-> stats.duplicate + (Len(batch) - Len(unique)),
            pending   |-> Len(pending'),
            failed    |-> stats.failed]
  BY <1>2 DEF keys, unique, batch
<1>6. /\ seenOrder' \in Seq(Keys) /\ Len(seenOrder') <= MaxDedupeItems
      /\ seen' \subseteq Keys /\ seen' \subseteq seen \cup KeysOf(unique)
      /\ WindowIsOneQueue'
  BY <1>1, <1>4, <1>5, RememberFacts
<1>7. /\ pending' \in Works /\ Len(pending') <= MaxDedupeItems
      /\ contexts' \in Knowns
      /\ {k \in Keys : contexts'[k] # Unknown} \subseteq seen'
      /\ graph' \in [Entries -> Nat] /\ Contained(graph, graph')
      /\ pressure' \in BOOLEAN
      /\ KeysOf(pending) \cup KeysOf(unique)
           \subseteq KeysIn(graph') \cup KeysOf(pending')
  <2>1. CASE unique = <<>>
    <3>1. UNCHANGED <<contexts, pending, graph, pressure>>  BY <1>5, <2>1
    <3>2. Elements(keys) = {} /\ KeysOf(unique) = {}
      BY <1>4, <2>1 DEF KeysOf, Elements
    <3>3. keys = <<>>  BY <1>4, <3>2 DEF Elements
    <3>4. seenOrder \in Seq(Keys) /\ seenOrder \o keys = seenOrder
      BY <1>1, <3>3 DEF TypeOK
    <3>5. Overflow(seenOrder) = 0
      BY <1>1, <3>4 DEF MemoryBounded, Overflow
    <3>6. Oldest(seenOrder) = {}  BY <3>5 DEF Oldest
    <3>7. seen' = seen  BY <1>5, <3>2, <3>4, <3>6 DEF Remember
    <3>8. Contained(graph, graph)  BY <1>1 DEF TypeOK, Contained
    <3>9. QED
      BY <1>1, <3>1, <3>2, <3>7, <3>8
      DEF TypeOK, MemoryBounded, Works, Knowns, Contexts
  <2>2. CASE unique # <<>>
    <3>1. Resolve(work, evicted)  BY <1>5, <2>2
    <3>2. /\ work \in Works
          /\ KeysOf(pending) \cup KeysOf(unique) \subseteq KeysOf(work)
      BY <1>3, <1>4, KeysOfConcatenation DEF Works
    <3> HIDE DEF work, evicted
    <3>3. QED  BY <1>1, <3>1, <3>2, ResolveFacts
  <2>3. QED  BY <2>1, <2>2
<1>8. KeysIn(graph) \subseteq KeysIn(graph')
  BY <1>1, <1>7, KeysInGrows DEF TypeOK
<1>9. RememberedIsHeld'
  BY <1>1, <1>6, <1>7, <1>8 DEF RememberedIsHeld
<1>10. /\ mu = Nobody /\ mu' = e /\ Stage(e) = "accept"
       /\ handler' = [handler EXCEPT ![e].stage = "writeGraph"]
       /\ UNCHANGED <<graphFile, bomFile, sent, restarts, durable, vouched>>
  BY DEF Accept, Move, disk, bounds
<1>11. stats' \in [requests : Nat, received : Nat, accepted : Nat,
                   duplicate : Nat, pending : Nat, failed : Nat]
  <2>1. /\ Len(batch) \in Nat /\ Len(unique) \in Nat
        /\ Len(batch) - Len(unique) \in Nat /\ Len(pending') \in Nat
    BY <1>3, <1>4, <1>7 DEF Works
  <2>2. /\ stats.requests \in Nat /\ stats.received \in Nat
        /\ stats.accepted \in Nat /\ stats.duplicate \in Nat
        /\ stats.failed \in Nat
    BY <1>1 DEF TypeOK
  <2> DEFINE requests == stats.requests + 1
             received == stats.received + Len(batch)
             accepted == stats.accepted + Len(unique)
             duplicate == stats.duplicate + (Len(batch) - Len(unique))
             left == Len(pending')
             failed == stats.failed
  <2>3. stats' = [requests |-> requests, received |-> received,
                  accepted |-> accepted, duplicate |-> duplicate,
                  pending |-> left, failed |-> failed]
    BY <1>5
  <2>4. requests \in Nat /\ failed \in Nat  BY <2>2
  <2>5. received \in Nat  BY <2>1, <2>2
  <2>6. accepted \in Nat  BY <2>1, <2>2
  <2>7. duplicate \in Nat  BY <2>1, <2>2
  <2>8. left \in Nat  BY <2>1
  <2> HIDE DEF requests, received, accepted, duplicate, left, failed
  <2>9. QED  BY <2>3, <2>4, <2>5, <2>6, <2>7, <2>8
<1>12. /\ handler' \in Handlers
       /\ \A f \in Exporters :
            /\ handler'[f].batch = handler[f].batch
            /\ handler'[f].stage = IF f = e THEN "writeGraph" ELSE handler[f].stage
  <2>1. handler \in Handlers /\ "writeGraph" \in Stages
    BY <1>1 DEF TypeOK, Handlers, Stages
  <2>2. Move(e, "writeGraph")  BY DEF Accept
  <2>3. QED  BY <2>1, <2>2, MoveFacts
<1>13. TypeOK'
  BY <1>1, <1>6, <1>7, <1>10, <1>11, <1>12
  DEF TypeOK, Works, Knowns, Contexts, Handlers
<1>14. MemoryBounded'  BY <1>6, <1>7 DEF MemoryBounded
<1>15. \A f \in Exporters \ {e} :
         Stage(f) \notin {"writeGraph", "writeBOM", "respond"}
  BY <1>1, <1>10 DEF HolderHasTheMutex
<1>16. HolderHasTheMutex'
  BY <1>10, <1>12, <1>15 DEF HolderHasTheMutex, Stage
<1>17. FilesAreBehind'
  <2>1. \A x \in Entries : /\ graphFile[x] \in Nat /\ graph[x] \in Nat
                           /\ graph'[x] \in Nat
    BY <1>1, <1>7 DEF TypeOK
  <2>2. QED  BY <1>1, <1>7, <1>10, <2>1 DEF FilesAreBehind, Contained
<1>18. BatchIsHeld'
  <2>1. KeysOf(batch) \subseteq KeysIn(graph') \cup KeysOf(pending')
    BY <1>1, <1>4, <1>7, <1>8 DEF RememberedIsHeld
  <2>2. QED  BY <1>12, <1>15, <2>1 DEF BatchIsHeld, Stage, batch
<1>19. GraphIsWritten'
  BY <1>12, <1>15 DEF GraphIsWritten, Stage
<1>20. AcknowledgedIsDurable'
  BY <1>1, <1>10 DEF AcknowledgedIsDurable
<1>21. QED
  BY <1>6, <1>7, <1>9, <1>13, <1>14, <1>16, <1>17, <1>18, <1>19, <1>20 DEF IInv

-----------------------------------------------------------------------------
\* Every other step of a handler keeps it.

LEMMA SendIInv ==
  ASSUME IInv, NEW e \in Exporters, Receive(e) \/ Refuse(e) \/ ReceiveRead(e)
  PROVE  IInv'
<1>1. /\ TypeOK /\ WindowIsOneQueue /\ MemoryBounded /\ RememberedIsHeld
      /\ HolderHasTheMutex /\ FilesAreBehind /\ BatchIsHeld /\ GraphIsWritten
      /\ AcknowledgedIsDurable
  BY DEF IInv
<1>2. Send(e)  BY DEF Receive, Refuse, ReceiveRead
<1>3. /\ Stage(e) = "idle" /\ sent < MaxRequests /\ sent' = sent + 1
      /\ UNCHANGED <<mu, seen, seenOrder, contexts, pending, graph, stats,
                     graphFile, bomFile, restarts, pressure, durable>>
  BY <1>2 DEF Send, memory, disk
<1>4. handler \in Handlers  BY <1>1 DEF TypeOK, Handlers
<1>5. /\ vouched' \subseteq Observations
      /\ handler' \in Handlers
      /\ handler'[e].stage \in {"accept", "failed", "read"}
      /\ \A f \in Exporters \ {e} : handler'[f] = handler[f]
  <2>1. CASE Receive(e)
    <3>1. PICK batch \in Batches, credential \in Protected \cup {Unbound} :
            /\ handler' = [handler EXCEPT ![e] =
                 [stage |-> "accept", batch |-> Bind(batch, credential)]]
            /\ vouched' = IF credential \in Protected
                          THEN vouched \cup Elements(Bind(batch, credential))
                          ELSE vouched
      BY <2>1 DEF Receive
    <3>2. batch \in Seq(Spans)  OBVIOUS
    <3>3. Bind(batch, credential) \in Seq(Observations)
      <4>1. /\ DOMAIN batch = 1..Len(batch) /\ Len(batch) \in Nat
            /\ \A i \in DOMAIN batch : batch[i] \in Spans
        BY <3>2
      <4>2. \A i \in DOMAIN batch : batch[i].source \in Sources  BY <4>1
      <4>3. \A i \in DOMAIN batch : Bind(batch, credential)[i] \in Observations
        BY <4>1, <4>2 DEF Bind, Observations
      <4>4. /\ Bind(batch, credential)
                 = [i \in 1..Len(batch) |-> Bind(batch, credential)[i]]
            /\ \A i \in 1..Len(batch) : Bind(batch, credential)[i] \in Observations
        BY <4>1, <4>3 DEF Bind
      <4> DEFINE bound == Bind(batch, credential)
      <4> HIDE DEF bound
      <4>5. bound \in [1..Len(batch) -> Observations]
        BY <4>4 DEF bound
      <4>6. bound \in Seq(Observations)  BY <4>1, <4>5
      <4>7. QED  BY <4>6 DEF bound
    <3>4. Elements(Bind(batch, credential)) \subseteq Observations
      BY <3>3 DEF Elements
    <3>5. [stage |-> "accept", batch |-> Bind(batch, credential)]
            \in [stage : Stages, batch : Seq(Observations)]
      BY <3>3 DEF Stages
    <3>6. QED  BY <1>1, <1>4, <3>1, <3>4, <3>5 DEF TypeOK, Handlers
  <2>2. ASSUME NEW stage \in {"failed", "read"}, Move(e, stage), UNCHANGED vouched
        PROVE  /\ vouched' \subseteq Observations
               /\ handler' \in Handlers
               /\ handler'[e].stage = stage
               /\ \A f \in Exporters \ {e} : handler'[f] = handler[f]
    BY <1>1, <1>4, <2>2 DEF TypeOK, Stages, Move, Handlers
  <2>3. CASE Refuse(e)  BY <2>2, <2>3 DEF Refuse
  <2>4. CASE ReceiveRead(e)  BY <2>2, <2>4 DEF ReceiveRead
  <2>5. QED  BY <2>1, <2>3, <2>4
<1>6. sent' \in 0..MaxRequests
  <2>1. sent \in 0..MaxRequests  BY <1>1 DEF TypeOK
  <2>2. QED  BY <1>3, <2>1
<1>7. handler' \in [Exporters -> [stage : Stages, batch : Seq(Observations)]]
  BY <1>5 DEF Handlers
<1>8. TypeOK'
  <2> HIDE DEF Handlers
  <2>1. QED  BY <1>1, <1>3, <1>5, <1>6, <1>7 DEF TypeOK
<1>9. HolderHasTheMutex' /\ BatchIsHeld' /\ GraphIsWritten'
  BY <1>1, <1>3, <1>5
  DEF HolderHasTheMutex, BatchIsHeld, GraphIsWritten, Stage
<1>10. /\ WindowIsOneQueue' /\ MemoryBounded' /\ RememberedIsHeld'
       /\ FilesAreBehind' /\ AcknowledgedIsDurable'
  BY <1>1, <1>3
  DEF WindowIsOneQueue, MemoryBounded, RememberedIsHeld, FilesAreBehind,
      AcknowledgedIsDurable
<1>11. QED  BY <1>8, <1>9, <1>10 DEF IInv

-----------------------------------------------------------------------------
\* Copying memory to the graph file, and acknowledging with the mutex released.
LEMMA AcknowledgeFacts ==
  ASSUME handler \in Handlers, HolderHasTheMutex, BatchIsHeld, GraphIsWritten,
         durable \subseteq Keys, NEW e \in Exporters,
         handler[e].batch \in Seq(Observations), Stage(e) \in {"writeGraph", "writeBOM"},
         Acknowledge(e), UNCHANGED <<graph, pending>>
  PROVE  /\ mu' = Nobody /\ handler' \in Handlers
         /\ durable' \subseteq Keys
         /\ durable' \subseteq durable \cup KeysIn(graph)
         /\ HolderHasTheMutex' /\ BatchIsHeld' /\ GraphIsWritten'
<1>1. /\ mu' = Nobody /\ Finish(e)
      /\ durable' = durable \cup (KeysOf(handler[e].batch) \ KeysOf(pending))
  BY DEF Acknowledge
<1>2. /\ handler' \in Handlers
      /\ handler'[e].stage = "idle"
      /\ \A f \in Exporters \ {e} : handler'[f] = handler[f]
  BY <1>1, FinishFacts
<1>3. \A f \in Exporters \ {e} :
        Stage(f) \notin {"writeGraph", "writeBOM", "respond"}
  BY DEF HolderHasTheMutex
<1>4. \A f \in Exporters :
        handler'[f].stage \notin {"writeGraph", "writeBOM", "respond"}
  BY <1>2, <1>3 DEF Stage
<1>5. HolderHasTheMutex' /\ BatchIsHeld' /\ GraphIsWritten'
  BY <1>1, <1>4 DEF HolderHasTheMutex, BatchIsHeld, GraphIsWritten, Stage
<1>6. durable' \subseteq durable \cup KeysIn(graph)
  BY <1>1 DEF BatchIsHeld
<1>7. KeysOf(handler[e].batch) \subseteq Keys
  BY ObservationParts DEF KeysOf, Elements
<1>8. QED  BY <1>1, <1>2, <1>5, <1>6, <1>7

LEMMA WriteGraphFileIInv ==
  ASSUME IInv, NEW e \in Exporters, WriteGraphFile(e) PROVE IInv'
<1>1. /\ TypeOK /\ WindowIsOneQueue /\ MemoryBounded /\ RememberedIsHeld
      /\ HolderHasTheMutex /\ FilesAreBehind /\ BatchIsHeld /\ GraphIsWritten
      /\ AcknowledgedIsDurable
      /\ handler \in Handlers
  BY DEF IInv, TypeOK, Handlers
<1>2. /\ Stage(e) = "writeGraph" /\ graphFile' = graph
      /\ UNCHANGED <<seen, seenOrder, contexts, pending, graph, stats, bomFile,
                     sent, restarts, pressure, vouched>>
  BY DEF WriteGraphFile, memory, bounds
<1>3. FilesAreBehind'
  <2>1. \A x \in Entries : /\ graphFile[x] \in Nat /\ graph[x] \in Nat
                           /\ bomFile[x] \in Nat
    BY <1>1 DEF TypeOK
  <2>2. QED  BY <1>1, <1>2, <2>1 DEF FilesAreBehind, Contained
<1>4. KeysIn(graphFile) \subseteq KeysIn(graph)
  BY <1>1, KeysInGrows DEF FilesAreBehind, TypeOK
<1>5. WindowIsOneQueue' /\ MemoryBounded' /\ RememberedIsHeld'
  BY <1>1, <1>2 DEF WindowIsOneQueue, MemoryBounded, RememberedIsHeld
<1>6. CASE WriteBOM
  <2>1. Move(e, "writeBOM") /\ UNCHANGED <<mu, durable>>
    BY <1>6 DEF WriteGraphFile
  <2>2. /\ handler' \in Handlers
        /\ \A f \in Exporters :
             /\ handler'[f].batch = handler[f].batch
             /\ handler'[f].stage = IF f = e THEN "writeBOM" ELSE handler[f].stage
    BY <1>1, <2>1, MoveFacts DEF Stages
  <2>3. TypeOK'  BY <1>1, <1>2, <2>1, <2>2 DEF TypeOK, Handlers
  <2>4. HolderHasTheMutex' /\ BatchIsHeld'
    BY <1>1, <1>2, <2>1, <2>2 DEF HolderHasTheMutex, BatchIsHeld, Stage
  <2>5. GraphIsWritten'
    BY <1>2 DEF GraphIsWritten
  <2>6. AcknowledgedIsDurable'
    BY <1>1, <1>2, <1>4, <2>1 DEF AcknowledgedIsDurable
  <2>7. QED  BY <1>3, <1>5, <2>3, <2>4, <2>5, <2>6 DEF IInv
<1>7. CASE ~WriteBOM
  <2>1. Acknowledge(e)  BY <1>7 DEF WriteGraphFile
  <2>2. durable \subseteq Keys /\ handler[e].batch \in Seq(Observations)
    BY <1>1 DEF TypeOK
  <2>3. /\ mu' = Nobody /\ handler' \in Handlers
        /\ durable' \subseteq Keys
        /\ durable' \subseteq durable \cup KeysIn(graph)
        /\ HolderHasTheMutex' /\ BatchIsHeld' /\ GraphIsWritten'
    BY <1>1, <1>2, <2>1, <2>2, AcknowledgeFacts
  <2>4. TypeOK'  BY <1>1, <1>2, <2>3 DEF TypeOK, Handlers
  <2>5. AcknowledgedIsDurable'
    BY <1>1, <1>2, <1>4, <2>3 DEF AcknowledgedIsDurable
  <2>6. QED  BY <1>3, <1>5, <2>3, <2>4, <2>5 DEF IInv
<1>8. QED  BY <1>6, <1>7

LEMMA WriteBOMFileIInv ==
  ASSUME IInv, NEW e \in Exporters, WriteBOMFile(e) PROVE IInv'
<1>1. /\ TypeOK /\ WindowIsOneQueue /\ MemoryBounded /\ RememberedIsHeld
      /\ HolderHasTheMutex /\ FilesAreBehind /\ BatchIsHeld /\ GraphIsWritten
      /\ AcknowledgedIsDurable
      /\ handler \in Handlers
  BY DEF IInv, TypeOK, Handlers
<1>2. /\ Stage(e) = "writeBOM" /\ bomFile' = graph /\ Acknowledge(e)
      /\ UNCHANGED <<seen, seenOrder, contexts, pending, graph, stats, graphFile,
                     sent, restarts, pressure, vouched>>
  BY DEF WriteBOMFile, memory, bounds
<1>3. graphFile = graph  BY <1>1, <1>2 DEF GraphIsWritten
<1>4. FilesAreBehind'
  <2>1. \A x \in Entries : graph[x] \in Nat  BY <1>1 DEF TypeOK
  <2>2. QED  BY <1>1, <1>2, <1>3, <2>1 DEF FilesAreBehind, Contained
<1>5. durable \subseteq Keys /\ handler[e].batch \in Seq(Observations)
  BY <1>1 DEF TypeOK
<1>6. /\ mu' = Nobody /\ handler' \in Handlers
      /\ durable' \subseteq Keys
      /\ durable' \subseteq durable \cup KeysIn(graph)
      /\ HolderHasTheMutex' /\ BatchIsHeld' /\ GraphIsWritten'
  BY <1>1, <1>2, <1>5, AcknowledgeFacts
<1>7. TypeOK'  BY <1>1, <1>2, <1>6 DEF TypeOK, Handlers
<1>8. WindowIsOneQueue' /\ MemoryBounded' /\ RememberedIsHeld'
  BY <1>1, <1>2 DEF WindowIsOneQueue, MemoryBounded, RememberedIsHeld
<1>9. AcknowledgedIsDurable'
  BY <1>1, <1>2, <1>3, <1>6 DEF AcknowledgedIsDurable
<1>10. QED  BY <1>4, <1>6, <1>7, <1>8, <1>9 DEF IInv

-----------------------------------------------------------------------------
\* A failed write, the failure's bookkeeping and a read leave evidence alone.
LEMMA QuietIInv ==
  ASSUME IInv, NEW e \in Exporters,
         WriteFails(e) \/ RecordFailure(e) \/ Serve(e) \/ Served(e)
  PROVE  IInv'
<1>1. /\ TypeOK /\ WindowIsOneQueue /\ MemoryBounded /\ RememberedIsHeld
      /\ HolderHasTheMutex /\ FilesAreBehind /\ BatchIsHeld /\ GraphIsWritten
      /\ AcknowledgedIsDurable
      /\ handler \in Handlers
  BY DEF IInv, TypeOK, Handlers
<1>2. UNCHANGED <<seen, seenOrder, contexts, pending, graph, graphFile, bomFile,
                  sent, restarts, pressure, durable, vouched>>
  BY DEF WriteFails, RecordFailure, Serve, Served, memory, disk, bounds, history
<1>3. stats' \in [requests : Nat, received : Nat, accepted : Nat,
                  duplicate : Nat, pending : Nat, failed : Nat]
  <2>1. stats \in [requests : Nat, received : Nat, accepted : Nat,
                   duplicate : Nat, pending : Nat, failed : Nat]
    BY <1>1 DEF TypeOK
  <2>2. CASE RecordFailure(e)
    <3>1. stats' = [stats EXCEPT !.failed = @ + 1]
      BY <2>2 DEF RecordFailure
    <3>2. stats.failed + 1 \in Nat  BY <2>1
    <3>3. QED  BY <2>1, <3>1, <3>2
  <2>3. CASE WriteFails(e) \/ Serve(e) \/ Served(e)
    BY <2>1, <2>3 DEF WriteFails, Serve, Served, memory
  <2>4. QED  BY <2>2, <2>3
<1>4. /\ handler' \in Handlers
      /\ \A f \in Exporters \ {e} : handler'[f] = handler[f]
      /\ \/ mu' = Nobody /\ handler'[e].stage \in {"failed", "idle"}
            /\ mu \in {Nobody, e}
         \/ mu = Nobody /\ mu' = e /\ handler'[e].stage = "respond"
  <2>1. CASE WriteFails(e)
    <3>1. [Idle EXCEPT !.stage = "failed"] = [stage |-> "failed", batch |-> <<>>]
      BY DEF Idle
    <3>2. [stage |-> "failed", batch |-> <<>>]
            \in [stage : Stages, batch : Seq(Observations)]
      BY DEF Stages
    <3>3. QED
      BY <1>1, <2>1, <3>1, <3>2 DEF WriteFails, Handlers, HolderHasTheMutex
  <2>2. CASE RecordFailure(e)
    <3>1. Finish(e) /\ mu = Nobody /\ mu' = mu  BY <2>2 DEF RecordFailure
    <3>2. QED  BY <1>1, <3>1, FinishFacts
  <2>3. CASE Serve(e)
    <3>1. Move(e, "respond") /\ mu = Nobody /\ mu' = e  BY <2>3 DEF Serve
    <3>2. QED  BY <1>1, <3>1 DEF Move, Handlers, Stages
  <2>4. CASE Served(e)
    <3>1. Finish(e) /\ mu' = Nobody /\ Stage(e) = "respond"  BY <2>4 DEF Served
    <3>2. QED  BY <1>1, <3>1, FinishFacts DEF HolderHasTheMutex
  <2>5. QED  BY <2>1, <2>2, <2>3, <2>4
<1>5. TypeOK'  BY <1>1, <1>2, <1>3, <1>4 DEF TypeOK, Handlers
<1>6. \A f \in Exporters \ {e} :
        /\ Stage(f) \notin {"writeGraph", "writeBOM", "respond"}
        /\ mu # f /\ mu' # f
  BY <1>1, <1>4 DEF HolderHasTheMutex
<1>7. HolderHasTheMutex' /\ BatchIsHeld' /\ GraphIsWritten'
  BY <1>1, <1>2, <1>4, <1>6
  DEF HolderHasTheMutex, BatchIsHeld, GraphIsWritten, Stage
<1>8. /\ WindowIsOneQueue' /\ MemoryBounded' /\ RememberedIsHeld'
      /\ FilesAreBehind' /\ AcknowledgedIsDurable'
  BY <1>1, <1>2
  DEF WindowIsOneQueue, MemoryBounded, RememberedIsHeld, FilesAreBehind,
      AcknowledgedIsDurable
<1>9. QED  BY <1>5, <1>7, <1>8 DEF IInv

\* A new process starts with nothing remembered and with what the graph file has.
LEMMA RestartIInv == ASSUME IInv, Restart PROVE IInv'
<1>1. TypeOK /\ FilesAreBehind /\ AcknowledgedIsDurable  BY DEF IInv
<1>2. /\ restarts < MaxRestarts /\ restarts' = restarts + 1
      /\ mu' = Nobody /\ handler' = [f \in Exporters |-> Idle]
      /\ seen' = {} /\ seenOrder' = <<>> /\ contexts' = NoContexts
      /\ pending' = <<>> /\ graph' = graphFile /\ stats' = NoStats
      /\ pressure' = TRUE
      /\ UNCHANGED <<graphFile, bomFile, sent, durable, vouched>>
  BY DEF Restart, Loaded, disk
<1>3. /\ Idle \in [stage : Stages, batch : Seq(Observations)]
      /\ NoContexts \in [Keys -> AgentContexts \cup {Unknown}]
      /\ NoStats \in [requests : Nat, received : Nat, accepted : Nat,
                      duplicate : Nat, pending : Nat, failed : Nat]
  BY DEF Idle, Stages, NoContexts, NoStats
<1>4. /\ restarts' \in 0..MaxRestarts
      /\ handler' \in [Exporters -> [stage : Stages, batch : Seq(Observations)]]
      /\ <<>> \in Seq(Keys) /\ <<>> \in Seq(Observations)
  BY <1>1, <1>2, <1>3 DEF TypeOK
<1>5. TypeOK'  BY <1>1, <1>2, <1>3, <1>4 DEF TypeOK
<1>6. WindowIsOneQueue' /\ MemoryBounded' /\ RememberedIsHeld'
  BY <1>2 DEF WindowIsOneQueue, MemoryBounded, RememberedIsHeld, NoContexts,
              Elements
<1>7. HolderHasTheMutex' /\ BatchIsHeld' /\ GraphIsWritten'
  BY <1>2 DEF HolderHasTheMutex, BatchIsHeld, GraphIsWritten, Stage, Idle
<1>8. FilesAreBehind'
  <2>1. \A x \in Entries : graphFile[x] \in Nat  BY <1>1 DEF TypeOK
  <2>2. QED  BY <1>1, <1>2, <2>1 DEF FilesAreBehind, Contained
<1>9. AcknowledgedIsDurable'  BY <1>1, <1>2 DEF AcknowledgedIsDurable
<1>10. QED  BY <1>5, <1>6, <1>7, <1>8, <1>9 DEF IInv

LEMMA NextIInv == ASSUME IInv, [Next]_vars PROVE IInv'
<1>1. CASE Restart  BY <1>1, RestartIInv
<1>2. ASSUME NEW e \in Exporters, Step(e)  PROVE IInv'
  BY <1>2, SendIInv, AcceptFacts, WriteGraphFileIInv, WriteBOMFileIInv, QuietIInv
  DEF Step
<1>3. CASE UNCHANGED vars
  BY <1>3 DEF vars, memory, disk, bounds, history, IInv, TypeOK,
    WindowIsOneQueue, MemoryBounded, RememberedIsHeld, HolderHasTheMutex,
    FilesAreBehind, BatchIsHeld, GraphIsWritten, AcknowledgedIsDurable, Stage
<1>4. QED  BY <1>1, <1>2, <1>3 DEF Next

-----------------------------------------------------------------------------
(***************************************************************************)
(* The theorems.                                                           *)
(***************************************************************************)

LEMMA Invariance == Spec => []IInv
<1>1. Init => IInv  BY InitIInv
<1>2. IInv /\ [Next]_vars => IInv'  BY NextIInv
<1>3. QED  BY <1>1, <1>2, PTL DEF Spec

\* Every variable keeps its type, in every behaviour of the receiver.
THEOREM TypeCorrect == Spec => []TypeOK
<1>1. IInv => TypeOK  BY DEF IInv
<1>2. QED  BY <1>1, Invariance, PTL

\* However many exporters send whatever spans in whatever order, the window is
\* one queue and window, waiting children and contexts stay within the limit.
THEOREM MemoryStaysBounded == Spec => [](WindowIsOneQueue /\ MemoryBounded)
<1>1. IInv => WindowIsOneQueue /\ MemoryBounded  BY DEF IInv
<1>2. QED  BY <1>1, Invariance, PTL

\* The mutex of receiver.go is held by one handler at a time, between its Lock
\* and its Unlock.
THEOREM MutexIsHeld == Spec => []HolderHasTheMutex
<1>1. IInv => HolderHasTheMutex  BY DEF IInv
<1>2. QED  BY <1>1, Invariance, PTL

\* A span that a retry of it would be refused for is in the graph or waits.
THEOREM RememberedStaysHeld == Spec => []RememberedIsHeld
<1>1. IInv => RememberedIsHeld  BY DEF IInv
<1>2. QED  BY <1>1, Invariance, PTL

\* What was acknowledged and did not wait is in the graph file ever after.
THEOREM AcknowledgedStaysDurable == Spec => []AcknowledgedIsDurable
<1>1. IInv => AcknowledgedIsDurable  BY DEF IInv
<1>2. QED  BY <1>1, Invariance, PTL

-----------------------------------------------------------------------------
\* The receiver implements the evidence ledger: an accepted batch counts, the
\* two writes publish and export, a restart is the crash, all else is a stutter.
LEMMA StepImplementsLedger ==
  ASSUME IInv, [Next]_vars
  PROVE  [Ledger!LedgerNext]_<<graph, graphFile, bomFile>>
<1>1. /\ TypeOK /\ GraphIsWritten  BY DEF IInv
<1>2. CASE Restart
  BY <1>2 DEF Restart, Loaded, disk, Ledger!LedgerNext, Ledger!Crash
<1>3. ASSUME NEW e \in Exporters, Accept(e)
      PROVE  Ledger!Count
  <2>1. UNCHANGED <<graphFile, bomFile>>  BY <1>3 DEF Accept, disk
  <2>2. graph' \in [Entries -> Nat]
    BY <1>3, AcceptFacts DEF IInv, TypeOK
  <2>3. Contained(graph, graph')  BY <1>3, AcceptFacts
  <2>4. QED
    BY <2>1, <2>2, <2>3
    DEF Ledger!Count, Ledger!Bags, Ledger!Below, Contained
<1>4. ASSUME NEW e \in Exporters, WriteGraphFile(e)
      PROVE  Ledger!Publish
  BY <1>4 DEF WriteGraphFile, memory, Ledger!Publish
<1>5. ASSUME NEW e \in Exporters, WriteBOMFile(e)
      PROVE  Ledger!Export
  BY <1>1, <1>5 DEF WriteBOMFile, memory, GraphIsWritten, Ledger!Export
<1>6. ASSUME NEW e \in Exporters,
             \/ Receive(e) \/ Refuse(e) \/ ReceiveRead(e)
             \/ WriteFails(e) \/ RecordFailure(e) \/ Serve(e) \/ Served(e)
      PROVE  UNCHANGED <<graph, graphFile, bomFile>>
  BY <1>6 DEF Receive, Refuse, ReceiveRead, Send, WriteFails, RecordFailure,
              Serve, Served, memory, disk
<1>7. CASE UNCHANGED vars  BY <1>7 DEF vars, memory, disk
<1>8. ASSUME NEW e \in Exporters, Step(e)
      PROVE  Ledger!LedgerNext \/ UNCHANGED <<graph, graphFile, bomFile>>
  BY <1>3, <1>4, <1>5, <1>6, <1>8 DEF Step, Ledger!LedgerNext
<1>9. QED  BY <1>2, <1>7, <1>8 DEF Next

\* The receiver implements the ledger it promises.
THEOREM ReceiverImplementsLedger == Spec => ImplementsLedger
<1>1. Init => Ledger!LedgerInit
  BY DEF Init, NoEvidence, Ledger!LedgerInit, Ledger!Empty
<1>2. IInv /\ [Next]_vars => [Ledger!LedgerNext]_<<graph, graphFile, bomFile>>
  BY StepImplementsLedger
<1>3. QED
  BY <1>1, <1>2, Invariance, PTL DEF Spec, ImplementsLedger, Ledger!LedgerSpec

\* The BOM never shows evidence the graph file lacks, and the graph file never
\* lacks evidence the process in memory has lost, whatever write failed last.
THEOREM FilesStayBehind == Spec => []Ledger!ExportBelowPublished
<1>1. IInv => Ledger!ExportBelowPublished
  BY DEF IInv, FilesAreBehind, Contained, Ledger!ExportBelowPublished, Ledger!Below
<1>2. QED  BY <1>1, Invariance, PTL

\* The graph file never loses evidence: not when a write fails, not when the
\* process dies between the two files, not when a new one starts.
THEOREM GraphFileOnlyGrows == Spec => Ledger!PublishedGrows
<1>1. ASSUME IInv, [Next]_vars
      PROVE  [Ledger!Below(graphFile, graphFile')]_graphFile
  <2>1. [Ledger!LedgerNext]_<<graph, graphFile, bomFile>>
    BY <1>1, StepImplementsLedger
  <2>2. CASE Ledger!Publish
    BY <1>1, <2>2
    DEF IInv, FilesAreBehind, Contained, Ledger!Publish, Ledger!Below
  <2>3. CASE ~Ledger!Publish
    BY <2>1, <2>3 DEF Ledger!LedgerNext, Ledger!Count, Ledger!Export, Ledger!Crash
  <2>4. QED  BY <2>2, <2>3
<1>2. QED  BY <1>1, Invariance, PTL DEF Spec, Ledger!PublishedGrows

-----------------------------------------------------------------------------
(***************************************************************************)
(* Protected sources.                                                      *)
(***************************************************************************)

\* An observation may be believed: its source needs no credential or was vouched
\* for when it arrived.
Believed(o) == o.source \in Protected => o \in vouched

SourcesInv ==
  /\ \A e \in Exporters : Stage(e) = "accept" =>
       \A i \in DOMAIN handler[e].batch : Believed(handler[e].batch[i])
  /\ \A i \in DOMAIN pending : Believed(pending[i])
  /\ ProtectedIsVouched

\* What a resolution merges or keeps waiting is what it was given.
LEMMA ResolveSources ==
  ASSUME TypeOK, ProtectedIsVouched, NEW work \in Works, NEW evicted,
         \A i \in DOMAIN work : Believed(work[i]),
         Resolve(work, evicted), UNCHANGED vouched
  PROVE  /\ ProtectedIsVouched'
         /\ \A i \in DOMAIN pending' : Believed(pending'[i])
<1> DEFINE known == Forget(evicted)
           W == DOMAIN work \ Resolved(work, known)
<1>1. known \in Knowns  BY DEF TypeOK, Forget, Knowns, Contexts
<1>2. PICK waiting \in InOrder(W) :
        /\ pending' = At(work, Newest(waiting))
        /\ graph' = Merge(graph, work, Leaving(work, known, Oldest(waiting)))
  BY DEF Resolve
<1> DEFINE forced == Oldest(waiting)
           agent == Leaving(work, known, forced)
           D == Resolved(work, known) \cup forced
           kept == Newest(waiting)
<1>3. W \subseteq DOMAIN work /\ IsFiniteSet(W)
  <2>1. W \subseteq 1..Len(work) /\ Len(work) \in Nat  BY DEF Works
  <2> HIDE DEF W
  <2>2. IsFiniteSet(1..Len(work))  BY <2>1, FS_Interval
  <2>3. IsFiniteSet(W)  BY <2>1, <2>2, FS_Subset
  <2>4. QED  BY <2>1, <2>3 DEF W
<1>4. waiting \in Seq(W)  BY <1>3, InOrderType
<1>5. kept \in Seq(W) /\ forced \subseteq W  BY <1>4, CutAtLimit
<1>6. D \in SUBSET DOMAIN work /\ DOMAIN agent = D
  <2>1. forced \in SUBSET DOMAIN work  BY <1>3, <1>5
  <2> HIDE DEF forced, known
  <2>2. QED  BY <1>1, <2>1, LeavingType
<1>7. ASSUME NEW i \in DOMAIN pending'  PROVE Believed(pending'[i])
  <2>1. i \in DOMAIN kept /\ pending'[i] = work[kept[i]]
    BY <1>2 DEF At
  <2>2. kept[i] \in DOMAIN work
    <3> HIDE DEF kept, W
    <3>1. kept[i] \in W  BY <1>5, <2>1
    <3>2. QED  BY <1>3, <3>1
  <2>3. QED  BY <2>1, <2>2
<1>8. ASSUME NEW e \in Entries, graph'[e] > 0, e.source \in Protected
      PROVE  [span |-> e.span, source |-> e.source] \in vouched'
  <2> DEFINE new == {i \in DOMAIN agent : EntryOf(work, agent, i) = e}
  <2>1. graph'[e] = graph[e] + Cardinality(new)  BY <1>2 DEF Merge
  <2>2. CASE graph[e] > 0
    BY <1>8, <2>2 DEF ProtectedIsVouched
  <2>3. CASE ~(graph[e] > 0)
    <3>1. new # {}
      <4>1. graph[e] \in Nat  BY DEF TypeOK
      <4>2. new = {} => Cardinality(new) = 0  BY FS_EmptySet
      <4> HIDE DEF new
      <4>3. QED  BY <1>8, <2>1, <2>3, <4>1, <4>2
    <3>2. PICK i \in D : EntryOf(work, agent, i) = e  BY <1>6, <3>1
    <3>3. e.span = work[i].span /\ e.source = work[i].source
      BY <3>2 DEF EntryOf
    <3>4. i \in DOMAIN work /\ work[i] \in Observations  BY <1>6 DEF Works
    <3>5. work[i] = [span |-> e.span, source |-> e.source]
      BY <3>3, <3>4 DEF Observations
    <3>6. QED  BY <1>8, <3>3, <3>4, <3>5 DEF Believed
  <2>4. QED  BY <2>2, <2>3
<1>9. QED  BY <1>7, <1>8 DEF ProtectedIsVouched, Believed

LEMMA ReceiveSources ==
  ASSUME IInv, SourcesInv, NEW e \in Exporters,
         Receive(e) \/ Refuse(e) \/ ReceiveRead(e)
  PROVE  SourcesInv'
<1>1. handler \in Handlers /\ UNCHANGED <<graph, pending>>
  BY DEF IInv, TypeOK, Handlers, Receive, Refuse, ReceiveRead, Send, memory
<1>2. /\ vouched \subseteq vouched'
      /\ \A f \in Exporters \ {e} : handler'[f] = handler[f]
      /\ handler'[e].stage = "accept" =>
           \A i \in DOMAIN handler'[e].batch :
             handler'[e].batch[i].source \in Protected
               => handler'[e].batch[i] \in vouched'
  <2>1. CASE Receive(e)
    <3>1. PICK batch \in Batches, credential \in Protected \cup {Unbound} :
            /\ MayAssert(batch, credential)
            /\ handler' = [handler EXCEPT ![e] =
                 [stage |-> "accept", batch |-> Bind(batch, credential)]]
            /\ vouched' = IF credential \in Protected
                          THEN vouched \cup Elements(Bind(batch, credential))
                          ELSE vouched
      BY <2>1 DEF Receive
    <3> DEFINE bound == Bind(batch, credential)
    <3>2. ASSUME NEW i \in DOMAIN bound, bound[i].source \in Protected
          PROVE  bound[i] \in vouched'
      <4>1. CASE credential \in Protected
        BY <3>1, <4>1 DEF Elements
      <4>2. CASE credential \notin Protected
        BY <3>1, <3>2, <4>2 DEF Bind, MayAssert
      <4>3. QED  BY <4>1, <4>2
    <3>3. handler'[e] = [stage |-> "accept", batch |-> bound]
      BY <1>1, <3>1 DEF Handlers
    <3>4. \A f \in Exporters \ {e} : handler'[f] = handler[f]
      BY <1>1, <3>1 DEF Handlers
    <3>5. vouched \subseteq vouched'  BY <3>1
    <3> HIDE DEF bound
    <3>6. QED  BY <3>2, <3>3, <3>4, <3>5
  <2>2. CASE Refuse(e)
    BY <1>1, <2>2 DEF Refuse, Move, Handlers
  <2>3. CASE ReceiveRead(e)
    BY <1>1, <2>3 DEF ReceiveRead, Move, Handlers
  <2>4. QED  BY <2>1, <2>2, <2>3
<1>3. \A o : Believed(o) => Believed(o)'
  BY <1>2 DEF Believed
<1>4. QED  BY <1>1, <1>2, <1>3 DEF SourcesInv, Believed, ProtectedIsVouched, Stage

LEMMA AcceptSources ==
  ASSUME IInv, SourcesInv, NEW e \in Exporters, Accept(e)
  PROVE  SourcesInv'
<1> DEFINE batch == handler[e].batch
           fresh == Fresh(batch)
<1>1. /\ TypeOK /\ Stage(e) = "accept" /\ UNCHANGED vouched
      /\ Move(e, "writeGraph")
      /\ handler \in Handlers
      /\ batch \in Seq(Observations) /\ pending \in Seq(Observations)
  BY DEF IInv, TypeOK, Accept, Handlers
<1>2. PICK order \in InOrder(fresh), keys \in Seq(Keys) :
        LET unique == At(batch, order) IN
          IF unique = <<>> THEN UNCHANGED <<pending, graph>>
          ELSE Resolve(pending \o unique, Oldest(seenOrder \o keys))
  <2>1. PICK order \in InOrder(fresh),
             named \in InOrder({i \in fresh : batch[i].span.key # NoKey}) :
          LET unique == At(batch, order)
              keys   == [n \in DOMAIN named |-> batch[named[n]].span.key]
          IN  IF unique = <<>> THEN UNCHANGED <<contexts, pending, graph, pressure>>
              ELSE Resolve(pending \o unique, Oldest(seenOrder \o keys))
    BY DEF Accept
  <2>2. [n \in DOMAIN named |-> batch[named[n]].span.key] \in Seq(Keys)
    <3> HIDE DEF batch
    <3>1. named \in InOrder({i \in Fresh(batch) : batch[i].span.key # NoKey})
      OBVIOUS
    <3>2. QED  BY <1>1, <3>1, FreshFacts
  <2>3. QED  BY <2>1, <2>2
<1> DEFINE unique == At(batch, order)
           work == pending \o unique
<1>3. unique \in Seq(Observations) /\ \A i \in DOMAIN unique : Believed(unique[i])
  <2>1. /\ fresh \subseteq DOMAIN batch
        /\ DOMAIN batch = 1..Len(batch) /\ Len(batch) \in Nat
    <3>1. fresh \subseteq DOMAIN batch  BY DEF Fresh
    <3> HIDE DEF fresh, batch
    <3>2. QED  BY <1>1, <3>1
  <2>2. IsFiniteSet(fresh)
    <3> HIDE DEF fresh, batch
    <3>1. IsFiniteSet(1..Len(batch))  BY <2>1, FS_Interval
    <3>2. QED  BY <2>1, <3>1, FS_Subset
  <2>3. order \in [1..Cardinality(fresh) -> fresh] /\ Cardinality(fresh) \in Nat
    BY <2>2, InOrderType
  <2>4. \A i \in DOMAIN batch : batch[i] \in Observations /\ Believed(batch[i])
    BY <1>1 DEF SourcesInv
  <2> HIDE DEF fresh, batch
  <2>5. \A n \in DOMAIN order : order[n] \in DOMAIN batch  BY <2>1, <2>3
  <2>6. /\ unique = [n \in 1..Cardinality(fresh) |-> batch[order[n]]]
        /\ \A n \in 1..Cardinality(fresh) :
             batch[order[n]] \in Observations /\ Believed(batch[order[n]])
    BY <2>3, <2>4, <2>5 DEF At
  <2> HIDE DEF unique
  <2>7. /\ unique \in [1..Cardinality(fresh) -> Observations]
        /\ DOMAIN unique = 1..Cardinality(fresh)
        /\ \A i \in DOMAIN unique : Believed(unique[i])
    BY <2>6
  <2>8. QED  BY <2>3, <2>7
<1>4. work \in Works /\ \A i \in DOMAIN work : Believed(work[i])
  <2> HIDE DEF unique
  <2>1. work \in Works  BY <1>1, <1>3 DEF Works
  <2>2. \A i \in DOMAIN pending : Believed(pending[i])  BY DEF SourcesInv
  <2> DEFINE m == Len(pending)
  <2>3. /\ m \in Nat /\ DOMAIN pending = 1..m
        /\ DOMAIN work = 1..(m + Len(unique)) /\ Len(unique) \in Nat
        /\ DOMAIN unique = 1..Len(unique)
        /\ \A i \in 1..m : work[i] = pending[i]
        /\ \A i \in (m + 1)..(m + Len(unique)) : work[i] = unique[i - m]
    BY <1>1, <1>3
  <2> HIDE DEF work, m
  <2>4. ASSUME NEW i \in DOMAIN work  PROVE Believed(work[i])
    <3>1. CASE i \in 1..m  BY <2>2, <2>3, <3>1
    <3>2. CASE i \notin 1..m
      <4>1. i \in (m + 1)..(m + Len(unique)) /\ i - m \in DOMAIN unique
        BY <2>3, <3>2
      <4>2. QED  BY <1>3, <2>3, <4>1
    <3>3. QED  BY <3>1, <3>2
  <2>5. QED  BY <2>1, <2>4
<1>5. /\ ProtectedIsVouched'
      /\ \A i \in DOMAIN pending' : Believed(pending'[i])
  <2>1. CASE unique = <<>>
    <3>1. UNCHANGED <<pending, graph>>  BY <1>2, <2>1
    <3>2. QED  BY <1>1, <3>1 DEF SourcesInv, ProtectedIsVouched
  <2>2. CASE unique # <<>>
    <3>1. Resolve(work, Oldest(seenOrder \o keys))  BY <1>2, <2>2
    <3> HIDE DEF work
    <3>2. QED  BY <1>1, <1>4, <3>1, ResolveSources DEF SourcesInv
  <2>3. QED  BY <2>1, <2>2
<1>6. \A f \in Exporters : Stage(f)' = "accept" =>
        Stage(f) = "accept" /\ handler'[f].batch = handler[f].batch
  BY <1>1, MoveFacts DEF Stage, Stages
<1>7. QED  BY <1>1, <1>5, <1>6 DEF SourcesInv, Believed

LEMMA NextSources == ASSUME IInv, SourcesInv, [Next]_vars PROVE SourcesInv'
<1>1. handler \in Handlers  BY DEF IInv, TypeOK, Handlers
<1>2. CASE Restart
  <2>1. /\ pending' = <<>> /\ graph' = graphFile /\ UNCHANGED vouched
        /\ handler' = [f \in Exporters |-> Idle]
    BY <1>2 DEF Restart, Loaded
  <2>2. \A e \in Entries : graphFile[e] > 0 => graph[e] > 0
    <3> TAKE e \in Entries
    <3>1. graphFile[e] \in Nat /\ graph[e] \in Nat /\ graphFile[e] <= graph[e]
      BY DEF IInv, TypeOK, FilesAreBehind, Contained
    <3>2. QED  BY <3>1
  <2>3. QED
    BY <2>1, <2>2 DEF SourcesInv, ProtectedIsVouched, Believed, Stage, Idle
<1>3. ASSUME NEW e \in Exporters,
             \/ WriteGraphFile(e) \/ WriteBOMFile(e) \/ WriteFails(e)
             \/ RecordFailure(e) \/ Serve(e) \/ Served(e)
      PROVE  SourcesInv'
  <2>1. UNCHANGED <<pending, graph, vouched>>
    BY <1>3 DEF WriteGraphFile, WriteBOMFile, WriteFails, RecordFailure, Serve,
                Served, memory, history
  <2>2. /\ \A f \in Exporters \ {e} : handler'[f] = handler[f]
        /\ handler'[e].stage # "accept"
    BY <1>1, <1>3
    DEF WriteGraphFile, WriteBOMFile, WriteFails, RecordFailure, Serve, Served,
        Acknowledge, Move, Finish, Idle, Handlers
  <2>3. QED
    BY <2>1, <2>2 DEF SourcesInv, ProtectedIsVouched, Believed, Stage
<1>4. CASE UNCHANGED vars
  BY <1>4 DEF vars, memory, history, SourcesInv, ProtectedIsVouched, Believed, Stage
<1>5. ASSUME NEW e \in Exporters, Step(e)  PROVE SourcesInv'
  BY <1>3, <1>5, ReceiveSources, AcceptSources DEF Step
<1>6. QED  BY <1>2, <1>4, <1>5 DEF Next

\* Evidence is counted under a protected source only if it arrived under a
\* credential bound to that source, however long it waited and through restarts.
THEOREM ProtectedStaysVouched == Spec => []ProtectedIsVouched
<1>1. Init => SourcesInv
  BY DEF Init, SourcesInv, ProtectedIsVouched, Stage, Idle, NoEvidence
<1>2. IInv /\ SourcesInv /\ [Next]_vars => SourcesInv'  BY NextSources
<1>3. SourcesInv => ProtectedIsVouched  BY DEF SourcesInv
<1>4. QED  BY <1>1, <1>2, <1>3, Invariance, PTL DEF Spec

-----------------------------------------------------------------------------
(***************************************************************************)
(* Attribution: the reference answer.                                      *)
(***************************************************************************)

\* The spans the identity of s may come from, when all spans are looked at.
Ancestry(s) == Lineage([t \in Spans |-> t], [t \in Spans |-> t.agent], s)

\* A set of spans that holds the parents its members inherit from.
UpClosed(S) ==
  \A n \in S, p \in Spans :
    n.agent = NoAgent /\ n.parent # NoKey /\ p.key = n.parent => p \in S

Found(s) == {m.agent : m \in Ancestry(s)} \ {NoAgent}

\* The ancestry of a span is the least closed set that holds it.
LEMMA AncestryFacts ==
  ASSUME NEW s \in Spans
  PROVE  /\ Ancestry(s) \subseteq Spans /\ s \in Ancestry(s)
         /\ UpClosed(Ancestry(s))
         /\ \A S \in SUBSET Spans : s \in S /\ UpClosed(S) => Ancestry(s) \subseteq S
<1> DEFINE ids == [t \in Spans |-> t]
           own == [t \in Spans |-> t.agent]
<1>1. \A S \in SUBSET Spans : LineageClosed(ids, own, S) <=> UpClosed(S)
  BY DEF LineageClosed, UpClosed
<1>2. Ancestry(s) = {m \in Spans : \A S \in SUBSET Spans :
                       s \in S /\ LineageClosed(ids, own, S) => m \in S}
  BY DEF Ancestry, Lineage
<1> HIDE DEF ids, own
<1>3. Ancestry(s) = {m \in Spans : \A S \in SUBSET Spans :
                       s \in S /\ UpClosed(S) => m \in S}
  BY <1>1, <1>2
<1>4. UpClosed(Ancestry(s))
  <2> SUFFICES ASSUME NEW n \in Ancestry(s), NEW p \in Spans,
                      n.agent = NoAgent, n.parent # NoKey, p.key = n.parent,
                      NEW S \in SUBSET Spans, s \in S, UpClosed(S)
               PROVE  p \in S
    BY <1>3 DEF UpClosed
  <2>1. n \in S  BY <1>3
  <2>2. QED  BY <2>1 DEF UpClosed
<1>5. QED  BY <1>3, <1>4

LEMMA TrueAgentIs ==
  ASSUME NEW s \in Spans
  PROVE  /\ Found(s) = {} => TrueAgent[s] = NoAgent
         /\ Found(s) # {} => TrueAgent[s] = CHOOSE a \in Found(s) : TRUE
<1> DEFINE own == [t \in Spans |-> t.agent]
<1>1. TrueAgent[s] = InheritedAgent([t \in Spans |-> t], own, s)
  BY DEF TrueAgent
<1>2. Found(s) = {own[m] : m \in Ancestry(s)} \ {NoAgent}
  <2>1. Ancestry(s) \subseteq Spans  BY AncestryFacts
  <2>2. \A m \in Ancestry(s) : own[m] = m.agent  BY <2>1
  <2> HIDE DEF own
  <2> QED  BY <2>2 DEF Found
<1> HIDE DEF own
<1>3. QED  BY <1>1, <1>2 DEF InheritedAgent, Ancestry, own

\* A span with an identity has that one, and a span whose parent is not among
\* the spans has its own or none.
LEMMA TrueAgentOfTop ==
  ASSUME NEW s \in Spans,
         \/ s.agent # NoAgent
         \/ s.parent = NoKey
         \/ \A p \in Spans : p.key # s.parent
  PROVE  TrueAgent[s] = s.agent
<1>1. UpClosed({s})  BY DEF UpClosed
<1>2. Ancestry(s) = {s}  BY <1>1, AncestryFacts
<1>3. Found(s) = {s.agent} \ {NoAgent}  BY <1>2 DEF Found
<1>4. CASE s.agent = NoAgent  BY <1>3, <1>4, TrueAgentIs
<1>5. CASE s.agent # NoAgent
  <2>1. Found(s) = {s.agent} /\ Found(s) # {}  BY <1>3, <1>5
  <2>2. QED  BY <2>1, TrueAgentIs
<1>6. QED  BY <1>4, <1>5

\* A span without an identity has the one its parent has.
LEMMA TrueAgentOfChild ==
  ASSUME NEW s \in Spans, NEW p \in Spans,
         s.agent = NoAgent, s.parent # NoKey, p.key = s.parent
  PROVE  TrueAgent[s] = TrueAgent[p]
<1> DEFINE above == {s} \cup {q \in Spans : q.key = p.key} \cup Ancestry(p)
<1>1. /\ p \in Ancestry(p) /\ UpClosed(Ancestry(p)) /\ Ancestry(p) \subseteq Spans
      /\ s \in Ancestry(s) /\ UpClosed(Ancestry(s)) /\ Ancestry(s) \subseteq Spans
  BY AncestryFacts
<1>2. \A q \in Spans : q.key = p.key => q.agent = p.agent /\ q.parent = p.parent
  BY SpanIdentity
<1>3. UpClosed(above)
  <2> SUFFICES ASSUME NEW n \in above, NEW q \in Spans,
                      n.agent = NoAgent, n.parent # NoKey, q.key = n.parent
               PROVE  q \in above
    BY DEF UpClosed
  <2>1. CASE n = s  BY <2>1
  <2>2. CASE n \in Spans /\ n.key = p.key
    <3>1. p.agent = NoAgent /\ q.key = p.parent  BY <1>2, <2>2
    <3>2. q \in Ancestry(p)  BY <1>1, <2>2, <1>2, <3>1 DEF UpClosed
    <3>3. QED  BY <3>2
  <2>3. CASE n \in Ancestry(p)
    <3>1. q \in Ancestry(p)  BY <1>1, <2>3 DEF UpClosed
    <3>2. QED  BY <3>1
  <2>4. QED  BY <2>1, <2>2, <2>3
<1>4. Ancestry(s) \subseteq above
  <2>1. above \in SUBSET Spans /\ s \in above  BY <1>1
  <2> HIDE DEF above
  <2>2. QED  BY <1>3, <2>1, AncestryFacts
<1>5. Found(s) \subseteq Found(p)
  <2> SUFFICES ASSUME NEW m \in Ancestry(s), m.agent # NoAgent
               PROVE  m.agent \in Found(p)
    BY DEF Found
  <2>1. m \in Ancestry(p) \/ m.agent = p.agent  BY <1>2, <1>4
  <2>2. QED  BY <1>1, <2>1 DEF Found
<1>6. Found(p) \subseteq Found(s)
  <2>1. p \in Ancestry(s)  BY <1>1 DEF UpClosed
  <2>2. Ancestry(p) \subseteq Ancestry(s)  BY <1>1, <2>1, AncestryFacts
  <2>3. QED  BY <2>2 DEF Found
<1>7. Found(s) = Found(p)  BY <1>5, <1>6
<1>8. QED  BY <1>7, TrueAgentIs

\* Two records of one span have one agent.
LEMMA TrueAgentOfKey ==
  ASSUME NEW s \in Spans, NEW t \in Spans, s.key = t.key, s.key # NoKey
  PROVE  TrueAgent[s] = TrueAgent[t]
<1>1. s.parent = t.parent /\ s.agent = t.agent  BY SpanIdentity
<1>2. CASE \E p \in Spans : s.agent = NoAgent /\ s.parent # NoKey /\ p.key = s.parent
  BY <1>1, <1>2, TrueAgentOfChild
<1>3. CASE ~ \E p \in Spans : s.agent = NoAgent /\ s.parent # NoKey /\ p.key = s.parent
  BY <1>1, <1>3, TrueAgentOfTop
<1>4. QED  BY <1>2, <1>3

-----------------------------------------------------------------------------
(***************************************************************************)
(* One resolution.                                                         *)
(***************************************************************************)

\* a is the agent of s, or none where exactness is not asked for.
Right(a, s, exact) == a = TrueAgent[s] \/ (~exact /\ a = NoAgent)

\* Every retained context is right for a span that has its key.
KnownRight(known, exact) ==
  \A k \in Keys : known[k] # Unknown =>
    \E s \in Spans : s.key = k /\ Right(known[k], s, exact)

\* What a root releases waits, directly or not, for its agent, and the items
\* that wait for what is released are released too.
LEMMA ReleasedFacts ==
  ASSUME NEW work \in Works, NEW known, NEW r \in DOMAIN work
  PROVE  /\ \A i \in Released(work, known, r) :
              TrueAgent[work[i].span] = TrueAgent[work[r].span]
         /\ ReleaseClosed(work, known, Released(work, known, r))
         /\ Released(work, known, r) \cap Roots(work, known) \subseteq {r}
<1>1. \A i \in DOMAIN work : work[i].span \in Spans
  BY ObservationParts DEF Works
<1> DEFINE same == {i \in DOMAIN work :
                      TrueAgent[work[i].span] = TrueAgent[work[r].span]}
<1>2. ReleaseClosed(work, known, same)
  <2> SUFFICES ASSUME NEW i \in DOMAIN work \ Roots(work, known), NEW j \in same,
                      work[j].span.key = work[i].span.parent
               PROVE  i \in same
    BY DEF ReleaseClosed
  <2>1. work[i].span.agent = NoAgent /\ work[i].span.parent # NoKey
    BY DEF Roots
  <2>2. TrueAgent[work[i].span] = TrueAgent[work[j].span]
    BY <1>1, <2>1, TrueAgentOfChild
  <2>3. QED  BY <2>2
<1>3. Released(work, known, r) \subseteq same
  <2>1. same \in SUBSET DOMAIN work /\ r \in same  OBVIOUS
  <2> HIDE DEF same
  <2>2. QED  BY <1>2, <2>1 DEF Released
<1>4. ReleaseClosed(work, known, Released(work, known, r))
  <2> SUFFICES ASSUME NEW i \in DOMAIN work \ Roots(work, known),
                      NEW j \in Released(work, known, r),
                      work[j].span.key = work[i].span.parent,
                      NEW S \in SUBSET DOMAIN work,
                      r \in S, ReleaseClosed(work, known, S)
               PROVE  i \in S
    BY DEF ReleaseClosed, Released
  <2>1. j \in S  BY DEF Released
  <2>2. QED  BY <2>1 DEF ReleaseClosed
<1>5. Released(work, known, r) \subseteq {r} \cup (DOMAIN work \ Roots(work, known))
  <2> DEFINE S == {r} \cup (DOMAIN work \ Roots(work, known))
  <2>1. S \in SUBSET DOMAIN work /\ r \in S /\ ReleaseClosed(work, known, S)
    BY DEF ReleaseClosed
  <2> HIDE DEF S
  <2>2. Released(work, known, r) \subseteq S  BY <2>1 DEF Released
  <2>3. QED  BY <2>2 DEF S
<1>6. QED  BY <1>3, <1>4, <1>5

\* A root has the right context, and what it releases has too.
LEMMA ResolvedRight ==
  ASSUME NEW work \in Works, NEW known \in Knowns, NEW exact,
         KnownRight(known, exact), NEW i \in Resolved(work, known)
  PROVE  /\ Right(ResolvedContext(work, known, i), work[i].span, exact)
         /\ ResolvedContext(work, known, i) = NoAgent => work[i].span.agent = NoAgent
<1>1. PICK r \in Roots(work, known) :
        /\ i \in Released(work, known, r)
        /\ ResolvedContext(work, known, i) = RootContext(work, known, r)
  BY ResolvedType
<1> DEFINE root == work[r].span
           context == RootContext(work, known, r)
<1>2. r \in DOMAIN work /\ work[r] \in Observations /\ root \in Spans
      /\ root.parent \in Keys \cup {NoKey}
  BY ObservationParts DEF Roots, Works
<1>3. i \in DOMAIN work /\ work[i].span \in Spans
  BY <1>1, ObservationParts DEF Released, Works
<1>4. TrueAgent[work[i].span] = TrueAgent[root]
  BY <1>1, <1>2, ReleasedFacts
<1>5. Right(context, root, exact)
  <2>1. CASE root.agent # NoAgent
    <3>1. context = root.agent  BY <2>1 DEF RootContext
    <3>2. QED  BY <1>2, <2>1, <3>1, TrueAgentOfTop DEF Right
  <2>2. CASE root.agent = NoAgent /\ root.parent = NoKey
    <3>1. context = NoAgent  BY <2>2 DEF RootContext
    <3>2. TrueAgent[root] = NoAgent  BY <1>2, <2>2, TrueAgentOfTop
    <3>3. QED  BY <3>1, <3>2 DEF Right
  <2>3. CASE root.agent = NoAgent /\ root.parent # NoKey
    <3>1. context = known[root.parent] /\ known[root.parent] # Unknown
      BY <2>3 DEF RootContext, Roots
    <3>2. PICK s \in Spans : s.key = root.parent /\ Right(known[root.parent], s, exact)
      BY <1>2, <2>3, <3>1 DEF KnownRight
    <3>3. TrueAgent[root] = TrueAgent[s]
      BY <1>2, <2>3, <3>2, TrueAgentOfChild
    <3>4. QED  BY <3>1, <3>2, <3>3 DEF Right
  <2>4. QED  BY <2>1, <2>2, <2>3
<1>6. Right(context, work[i].span, exact)  BY <1>4, <1>5 DEF Right
<1>7. QED
  <2> SUFFICES ASSUME context = NoAgent PROVE work[i].span.agent = NoAgent
    BY <1>1, <1>6
  <2>1. work[r].span.agent = NoAgent
    BY <1>2 DEF RootContext
  <2>2. CASE i \in Roots(work, known)
    <3>1. i = r  BY <1>1, <1>2, <2>2, ReleasedFacts
    <3>2. QED  BY <2>1, <3>1
  <2>3. CASE i \notin Roots(work, known)
    BY <1>3, <2>3 DEF Roots
  <2>4. QED  BY <2>2, <2>3

\* What leaves the queue has the right context, or none when it was forced out.
LEMMA LeavingRight ==
  ASSUME NEW work \in Works, NEW known \in Knowns, NEW exact, NEW still,
         KnownRight(known, exact),
         NEW forced \in SUBSET (DOMAIN work \ Resolved(work, known)),
         still => exact /\ forced = {}
  PROVE  \A i \in Resolved(work, known) \cup forced :
           LET context == Leaving(work, known, forced)[i] IN
             /\ Right(context, work[i].span, still)
             /\ context = NoAgent => work[i].span.agent = NoAgent
<1> DEFINE out == Leaving(work, known, forced)
<1>1. ASSUME NEW i \in forced
      PROVE  /\ Right(out[i], work[i].span, still)
             /\ work[i].span.agent = NoAgent
  <2>1. out[i] = NoAgent  BY DEF Leaving
  <2>2. i \in DOMAIN work /\ i \notin Roots(work, known)  BY ResolvedType
  <2>3. ~still  OBVIOUS
  <2>4. QED  BY <2>1, <2>2, <2>3 DEF Roots, Right
<1>2. ASSUME NEW i \in Resolved(work, known), i \notin forced
      PROVE  /\ Right(out[i], work[i].span, still)
             /\ out[i] = NoAgent => work[i].span.agent = NoAgent
  <2>1. out[i] = ResolvedContext(work, known, i)  BY <1>2 DEF Leaving
  <2> HIDE DEF out
  <2>2. /\ Right(ResolvedContext(work, known, i), work[i].span, exact)
        /\ ResolvedContext(work, known, i) = NoAgent => work[i].span.agent = NoAgent
    BY ResolvedRight
  <2>3. QED  BY <2>1, <2>2 DEF Right
<1>3. QED  BY <1>1, <1>2

\* The contexts recorded from it are right.
LEMMA LearnRight ==
  ASSUME NEW work \in Works, NEW known, NEW exact, NEW still, still => exact,
         KnownRight(known, exact), NEW remembered,
         NEW D \in SUBSET DOMAIN work, NEW agent \in [D -> AgentContexts],
         \A i \in D : Right(agent[i], work[i].span, still)
  PROVE  KnownRight(Learn(known, work, agent, remembered), still)
<1> DEFINE next == Learn(known, work, agent, remembered)
<1> SUFFICES ASSUME NEW k \in Keys, next[k] # Unknown
             PROVE  \E s \in Spans : s.key = k /\ Right(next[k], s, still)
  BY DEF KnownRight
<1> DEFINE holders == {i \in DOMAIN agent : work[i].span.key = k}
<1>1. next[k] = IF k \notin remembered THEN Unknown
                ELSE IF holders # {} THEN agent[CHOOSE i \in holders : TRUE]
                ELSE known[k]
  BY DEF Learn
<1> HIDE DEF next
<1>2. CASE holders # {}
  <2>1. PICK h \in holders : next[k] = agent[h]  BY <1>1, <1>2
  <2>2. h \in D /\ work[h].span.key = k  OBVIOUS
  <2>3. work[h].span \in Spans  BY <2>2, ObservationParts DEF Works
  <2>4. QED  BY <2>1, <2>2, <2>3
<1>3. CASE holders = {}
  <2>1. next[k] = known[k] /\ known[k] # Unknown  BY <1>1, <1>3
  <2>2. QED  BY <2>1 DEF KnownRight, Right
<1>4. QED  BY <1>2, <1>3

\* The evidence made of it is attributed right: what a span inherits from the
\* parents that leave with it is what it would have inherited anyway.
LEMMA EntryRight ==
  ASSUME NEW work \in Works, NEW still,
         NEW D \in SUBSET DOMAIN work, NEW agent \in [D -> AgentContexts],
         \A i \in D : /\ Right(agent[i], work[i].span, still)
                      /\ agent[i] = NoAgent => work[i].span.agent = NoAgent,
         NEW i \in D
  PROVE  LET e == EntryOf(work, agent, i) IN
           /\ e.span = work[i].span /\ e.source = work[i].source
           /\ e \in Entries
           /\ Right(e.agent, e.span, still)
<1> DEFINE span == [j \in DOMAIN agent |-> work[j].span]
           inherited == InheritedAgent(span, agent, i)
           e == EntryOf(work, agent, i)
           truth == TrueAgent[work[i].span]
<1>1. /\ DOMAIN agent = D /\ DOMAIN span = D
      /\ \A j \in D : span[j] = work[j].span /\ span[j] \in Spans
  BY ObservationParts DEF Works
<1> DEFINE same == {j \in D : TrueAgent[span[j]] = truth}
<1>2. LineageClosed(span, agent, same)
  <2> SUFFICES ASSUME NEW n \in same, NEW p \in D, agent[n] = NoAgent,
                      span[n].parent # NoKey, span[p].key = span[n].parent
               PROVE  p \in same
    BY <1>1 DEF LineageClosed
  <2>1. span[n].agent = NoAgent  BY <1>1
  <2>2. TrueAgent[span[n]] = TrueAgent[span[p]]
    <3> HIDE DEF span
    <3>1. QED  BY <1>1, <2>1, TrueAgentOfChild
  <2>3. QED  BY <2>2
<1>3. Lineage(span, agent, i) \subseteq same /\ i \in Lineage(span, agent, i)
  <2>1. same \in SUBSET DOMAIN span /\ i \in same  BY <1>1
  <2> HIDE DEF same, span
  <2>2. QED  BY <1>1, <1>2, <2>1 DEF Lineage
<1> DEFINE found == {agent[m] : m \in Lineage(span, agent, i)} \ {NoAgent}
<1>4. inherited = IF found = {} THEN NoAgent ELSE CHOOSE a \in found : TRUE
  BY DEF InheritedAgent
<1>5. found \subseteq {truth}  BY <1>1, <1>3 DEF Right
<1>6. agent[i] # NoAgent => found # {}  BY <1>3
<1>7. Right(inherited, work[i].span, still)
  <2> HIDE DEF found, inherited
  <2>1. CASE found = {}
    <3>1. inherited = NoAgent /\ agent[i] = NoAgent  BY <1>4, <1>6, <2>1
    <3>2. Right(agent[i], work[i].span, still)  OBVIOUS
    <3>3. QED  BY <3>1, <3>2
  <2>2. CASE found # {}
    <3>1. inherited = truth  BY <1>4, <1>5, <2>2
    <3>2. QED  BY <3>1 DEF Right
  <2>3. QED  BY <2>1, <2>2
<1>8. inherited \in AgentContexts
  <2> HIDE DEF span
  <2>1. QED  BY <1>1, InheritedAgentType
<1>9. e = [span |-> work[i].span, source |-> work[i].source, agent |-> inherited]
  BY DEF EntryOf
<1>10. work[i].span \in Spans /\ work[i].source \in Sources
  BY ObservationParts DEF Works
<1> HIDE DEF inherited, e
<1>11. e \in Entries  BY <1>8, <1>9, <1>10 DEF Entries
<1>12. QED  BY <1>7, <1>9, <1>11 DEF e

-----------------------------------------------------------------------------
(***************************************************************************)
(* The step that resolves.                                                 *)
(***************************************************************************)

\* What Resolve does, by the positions of the work it keeps and forces out.
LEMMA ResolveParts ==
  ASSUME TypeOK, NEW work \in Works, NEW evicted, Resolve(work, evicted)
  PROVE  LET known == Forget(evicted)
             W == DOMAIN work \ Resolved(work, known)
         IN  /\ known \in Knowns
             /\ \E kept \in Seq(W), forced \in SUBSET W :
                  LET D == Resolved(work, known) \cup forced
                      agent == Leaving(work, known, forced)
                  IN  /\ D \in SUBSET DOMAIN work
                      /\ agent \in [D -> AgentContexts]
                      /\ \A i, j \in DOMAIN kept : kept[i] = kept[j] => i = j
                      /\ pending' = At(work, kept)
                      /\ contexts' = Learn(known, work, agent, seen')
                      /\ graph' = Merge(graph, work, agent)
                      /\ pressure' = (pressure \/ evicted # {} \/ forced # {})
<1> DEFINE known == Forget(evicted)
           W == DOMAIN work \ Resolved(work, known)
<1>1. known \in Knowns  BY DEF TypeOK, Forget, Knowns, Contexts
<1>2. PICK waiting \in InOrder(W) :
        LET forced == Oldest(waiting)
            agent  == Leaving(work, known, forced)
        IN  /\ pending' = At(work, Newest(waiting))
            /\ contexts' = Learn(known, work, agent, seen')
            /\ graph' = Merge(graph, work, agent)
            /\ pressure' = (pressure \/ evicted # {} \/ forced # {})
  BY DEF Resolve
<1> DEFINE forced == Oldest(waiting)
           agent == Leaving(work, known, forced)
           D == Resolved(work, known) \cup forced
           kept == Newest(waiting)
           cut == Overflow(waiting)
<1>3. W \subseteq DOMAIN work /\ IsFiniteSet(W) /\ W \subseteq Nat
  <2>1. W \subseteq 1..Len(work) /\ Len(work) \in Nat /\ W \subseteq DOMAIN work
    BY DEF Works
  <2> HIDE DEF W
  <2>2. IsFiniteSet(1..Len(work))  BY <2>1, FS_Interval
  <2>3. IsFiniteSet(W)  BY <2>1, <2>2, FS_Subset
  <2>4. QED  BY <2>1, <2>3
<1>4. waiting \in Seq(W)
  <2> HIDE DEF W
  <2>1. QED  BY <1>3, InOrderType
<1>5. /\ kept \in Seq(W) /\ forced \subseteq W
      /\ cut \in 0..Len(waiting) /\ Len(kept) = Len(waiting) - cut
      /\ \A i \in DOMAIN kept : /\ i + cut \in DOMAIN waiting
                                /\ kept[i] = waiting[i + cut]
  <2> HIDE DEF W
  <2>1. QED  BY <1>4, CutAtLimit
<1>6. D \in SUBSET DOMAIN work /\ agent \in [D -> AgentContexts]
  <2>1. forced \in SUBSET DOMAIN work  BY <1>3, <1>5
  <2> HIDE DEF forced, known
  <2>2. QED  BY <1>1, <2>1, LeavingType
<1>7. \A i, j \in DOMAIN kept : kept[i] = kept[j] => i = j
  <2> SUFFICES ASSUME NEW i \in DOMAIN kept, NEW j \in DOMAIN kept, kept[i] = kept[j]
               PROVE  i = j
    OBVIOUS
  <2> HIDE DEF kept, cut, W
  <2>1. i + cut = j + cut  BY <1>3, <1>5, InOrderInjective DEF W
  <2>2. i \in Nat /\ j \in Nat /\ cut \in Nat  BY <1>4, <1>5
  <2>3. QED  BY <2>1, <2>2
<1>8. /\ forced \in SUBSET W
      /\ pending' = At(work, kept)
      /\ contexts' = Learn(known, work, agent, seen')
      /\ graph' = Merge(graph, work, agent)
      /\ pressure' = (pressure \/ evicted # {} \/ forced # {})
  BY <1>2, <1>5
<1> HIDE DEF W, known, forced, kept
<1>9. \E keep \in Seq(W), force \in SUBSET W :
        LET out == Resolved(work, known) \cup force
            given == Leaving(work, known, force)
        IN  /\ out \in SUBSET DOMAIN work
            /\ given \in [out -> AgentContexts]
            /\ \A i, j \in DOMAIN keep : keep[i] = keep[j] => i = j
            /\ pending' = At(work, keep)
            /\ contexts' = Learn(known, work, given, seen')
            /\ graph' = Merge(graph, work, given)
            /\ pressure' = (pressure \/ evicted # {} \/ force # {})
  <2>1. kept \in Seq(W) /\ forced \in SUBSET W  BY <1>5, <1>8
  <2> HIDE DEF agent, D
  <2>2. /\ D = Resolved(work, known) \cup forced
        /\ agent = Leaving(work, known, forced)
    BY DEF D, agent
  <2>3. QED  BY <1>6, <1>7, <1>8, <2>1, <2>2
<1>10. QED  BY <1>1, <1>9 DEF W, known

\* Evidence that was not counted before is made of an item that leaves.
LEMMA MergedFrom ==
  ASSUME NEW bag \in [Entries -> Nat], NEW work, NEW agent,
         NEW e \in Entries, Merge(bag, work, agent)[e] > 0, ~(bag[e] > 0)
  PROVE  \E i \in DOMAIN agent : EntryOf(work, agent, i) = e
<1> DEFINE new == {i \in DOMAIN agent : EntryOf(work, agent, i) = e}
<1>1. Merge(bag, work, agent)[e] = bag[e] + Cardinality(new)  BY DEF Merge
<1>2. bag[e] = 0
  <2>1. bag[e] \in Nat  OBVIOUS
  <2>2. QED  BY <2>1
<1>3. new # {}
  <2>1. new = {} => Cardinality(new) = 0  BY FS_EmptySet
  <2> HIDE DEF new
  <2>2. QED  BY <1>1, <1>2, <2>1
<1>4. QED  BY <1>3

\* What acceptBound does, by the unique observations and the keys it remembers.
LEMMA AcceptParts ==
  ASSUME IInv, NEW e \in Exporters, Accept(e)
  PROVE  \E unique \in Works, keys \in Seq(Keys) :
           /\ Remember(keys)
           /\ IF unique = <<>>
              THEN UNCHANGED <<contexts, pending, graph, pressure>>
              ELSE Resolve(pending \o unique, Oldest(seenOrder \o keys))
           /\ Elements(keys) = KeysOf(unique)
           /\ Elements(keys) \cap seen = {}
           /\ \A i, j \in DOMAIN unique :
                unique[i].span.key = unique[j].span.key
                /\ unique[i].span.key # NoKey => i = j
<1> DEFINE batch == handler[e].batch
           fresh == Fresh(batch)
           named0 == {i \in fresh : batch[i].span.key # NoKey}
<1>1. TypeOK /\ batch \in Seq(Observations)  BY DEF IInv, TypeOK
<1>2. PICK order \in InOrder(fresh), named \in InOrder(named0) :
        LET unique == At(batch, order)
            keys   == [n \in DOMAIN named |-> batch[named[n]].span.key]
        IN  /\ Remember(keys)
            /\ IF unique = <<>>
               THEN UNCHANGED <<contexts, pending, graph, pressure>>
               ELSE Resolve(pending \o unique, Oldest(seenOrder \o keys))
  BY DEF Accept
<1> DEFINE unique == At(batch, order)
           keys == [n \in DOMAIN named |-> batch[named[n]].span.key]
<1>3. /\ unique \in Seq(Observations)
      /\ keys \in Seq(Keys)
      /\ Elements(keys) = KeysOf(unique)
      /\ Elements(keys) \cap seen = {}
  <2> HIDE DEF batch
  <2>1. named \in InOrder({i \in Fresh(batch) : batch[i].span.key # NoKey})
    OBVIOUS
  <2>2. QED  BY <1>1, <2>1, FreshFacts
<1>4. /\ fresh \subseteq DOMAIN batch /\ DOMAIN batch = 1..Len(batch)
      /\ Len(batch) \in Nat /\ fresh \subseteq Nat /\ IsFiniteSet(fresh)
  <2>1. fresh \subseteq DOMAIN batch  BY DEF Fresh
  <2> HIDE DEF fresh, batch
  <2>2. DOMAIN batch = 1..Len(batch) /\ Len(batch) \in Nat  BY <1>1
  <2>3. IsFiniteSet(1..Len(batch))  BY <2>2, FS_Interval
  <2>4. QED  BY <2>1, <2>2, <2>3, FS_Subset
<1>5. \A m, n \in fresh :
        batch[m].span.key = batch[n].span.key /\ batch[m].span.key # NoKey => m = n
  <2> SUFFICES ASSUME NEW m \in fresh, NEW n \in fresh,
                      batch[m].span.key = batch[n].span.key,
                      batch[m].span.key # NoKey
               PROVE  m = n
    OBVIOUS
  <2>1. /\ \A j \in 1..(m - 1) : batch[j].span.key # batch[m].span.key
        /\ \A j \in 1..(n - 1) : batch[j].span.key # batch[n].span.key
    BY DEF Fresh
  <2> HIDE DEF fresh, batch
  <2>2. m \in Nat /\ n \in Nat /\ m >= 1 /\ n >= 1  BY <1>4
  <2>3. ~(m < n)
    <3>1. m < n => m \in 1..(n - 1)  BY <2>2
    <3>2. QED  BY <2>1, <3>1
  <2>4. ~(n < m)
    <3>1. n < m => n \in 1..(m - 1)  BY <2>2
    <3>2. QED  BY <2>1, <3>1
  <2>5. QED  BY <2>2, <2>3, <2>4
<1>6. ASSUME NEW i \in DOMAIN unique, NEW j \in DOMAIN unique,
             unique[i].span.key = unique[j].span.key,
             unique[i].span.key # NoKey
      PROVE  i = j
  <2>1. /\ i \in DOMAIN order /\ j \in DOMAIN order
        /\ unique[i] = batch[order[i]] /\ unique[j] = batch[order[j]]
    BY DEF At
  <2> HIDE DEF unique, fresh, batch
  <2>2. order[i] \in fresh /\ order[j] \in fresh
    BY <1>4, <2>1, InOrderType
  <2>3. order[i] = order[j]  BY <1>5, <1>6, <2>1, <2>2
  <2>4. QED  BY <1>4, <2>1, <2>3, InOrderInjective
<1>7. /\ Remember(keys)
      /\ IF unique = <<>>
         THEN UNCHANGED <<contexts, pending, graph, pressure>>
         ELSE Resolve(pending \o unique, Oldest(seenOrder \o keys))
  BY <1>2
<1>8. unique \in Works  BY <1>3 DEF Works
<1> HIDE DEF unique, keys
<1>9. QED  BY <1>3, <1>6, <1>7, <1>8

-----------------------------------------------------------------------------
(***************************************************************************)
(* The invariant of attribution.                                           *)
(***************************************************************************)

\* Every entry of a bag carries the right agent.
EvidenceRight(bag, exact) ==
  \A e \in Entries : bag[e] > 0 => Right(e.agent, e.span, exact)

AttributionInv ==
  /\ KnownRight(contexts, ~pressure)
  /\ EvidenceRight(graph, ~pressure)
  /\ NoStrandedChild

\* A resolution under right contexts leaves right contexts and right evidence,
\* exact ones unless it evicts or forces, and strands nobody.
LEMMA ResolveAttributes ==
  ASSUME TypeOK, AttributionInv, NEW work \in Works, NEW evicted,
         Resolve(work, evicted)
  PROVE  AttributionInv'
<1> DEFINE known == Forget(evicted)
           W == DOMAIN work \ Resolved(work, known)
<1>1. PICK kept \in Seq(W), forced \in SUBSET W :
        LET D == Resolved(work, known) \cup forced
            agent == Leaving(work, known, forced)
        IN  /\ D \in SUBSET DOMAIN work
            /\ agent \in [D -> AgentContexts]
            /\ \A i, j \in DOMAIN kept : kept[i] = kept[j] => i = j
            /\ pending' = At(work, kept)
            /\ contexts' = Learn(known, work, agent, seen')
            /\ graph' = Merge(graph, work, agent)
            /\ pressure' = (pressure \/ evicted # {} \/ forced # {})
  BY ResolveParts
<1> DEFINE D == Resolved(work, known) \cup forced
           agent == Leaving(work, known, forced)
<1>2. /\ D \in SUBSET DOMAIN work /\ agent \in [D -> AgentContexts]
      /\ pending' = At(work, kept)
      /\ contexts' = Learn(known, work, agent, seen')
      /\ graph' = Merge(graph, work, agent)
      /\ ~pressure' => ~pressure /\ forced = {}
  BY <1>1
<1>3. known \in Knowns /\ KnownRight(known, ~pressure)
  BY DEF TypeOK, Forget, Knowns, Contexts, AttributionInv, KnownRight
<1>4. graph \in [Entries -> Nat]  BY DEF TypeOK
<1>5. forced \in SUBSET (DOMAIN work \ Resolved(work, known))  OBVIOUS
<1> HIDE DEF known, D, agent
<1>6. \A i \in D : /\ Right(agent[i], work[i].span, ~pressure')
                   /\ agent[i] = NoAgent => work[i].span.agent = NoAgent
  <2> DEFINE exact == ~pressure
             still == ~pressure'
  <2>1. KnownRight(known, exact) /\ (still => exact /\ forced = {})  BY <1>2, <1>3
  <2> HIDE DEF exact, still
  <2>2. \A i \in Resolved(work, known) \cup forced :
          LET context == Leaving(work, known, forced)[i] IN
            /\ Right(context, work[i].span, still)
            /\ context = NoAgent => work[i].span.agent = NoAgent
    BY <1>3, <1>5, <2>1, LeavingRight
  <2> QED  BY <2>2 DEF D, agent, still
<1>7. KnownRight(contexts', ~pressure')
  BY <1>2, <1>3, <1>6, LearnRight
<1>8. EvidenceRight(graph', ~pressure')
  <2> SUFFICES ASSUME NEW e \in Entries, graph'[e] > 0
               PROVE  Right(e.agent, e.span, ~pressure')
    BY DEF EvidenceRight
  <2>1. CASE graph[e] > 0
    BY <1>2, <2>1 DEF AttributionInv, EvidenceRight, Right
  <2>2. CASE ~(graph[e] > 0)
    <3>1. PICK i \in D : EntryOf(work, agent, i) = e
      BY <1>2, <1>4, <2>2, MergedFrom
    <3>2. QED  BY <1>2, <1>6, <3>1, EntryRight
  <2>3. QED  BY <2>1, <2>2
<1>9. ASSUME NEW n \in DOMAIN pending'
      PROVE  LET span == pending'[n].span IN
               /\ span.agent = NoAgent /\ span.parent # NoKey
               /\ contexts'[span.parent] \in {Unknown, NoAgent}
               /\ contexts'[span.parent] = NoAgent => pressure'
  <2>1. n \in DOMAIN kept /\ pending'[n] = work[kept[n]] /\ kept[n] \in W
    <3> HIDE DEF W
    <3>1. QED  BY <1>2, <1>9 DEF At
  <2> DEFINE i == kept[n]
             span == work[i].span
  <2>2. /\ i \in DOMAIN work \ Roots(work, known)
        /\ span.agent = NoAgent /\ span.parent # NoKey
        /\ known[span.parent] = Unknown
    <3>1. i \in DOMAIN work \ Roots(work, known)
      BY <1>3, <2>1, ResolvedType
    <3>2. QED  BY <3>1 DEF Roots
  <2>3. span.parent \in Keys
    BY <2>2, ObservationParts DEF Works
  <2> DEFINE holders == {j \in DOMAIN agent : work[j].span.key = span.parent}
  <2>4. contexts'[span.parent]
          = IF span.parent \notin seen' THEN Unknown
            ELSE IF holders # {} THEN agent[CHOOSE j \in holders : TRUE]
            ELSE known[span.parent]
    <3>1. contexts' = Learn(known, work, agent, seen')  BY <1>2
    <3> HIDE DEF i, span, holders
    <3>2. \A k \in Keys :
            contexts'[k] =
              LET h == {j \in DOMAIN agent : work[j].span.key = k} IN
              IF k \notin seen' THEN Unknown
              ELSE IF h # {} THEN agent[CHOOSE j \in h : TRUE] ELSE known[k]
      BY <3>1 DEF Learn
    <3>3. QED  BY <2>3, <3>2 DEF holders
  <2>5. \A h \in holders : agent[h] = NoAgent /\ pressure'
    <3> SUFFICES ASSUME NEW h \in holders PROVE agent[h] = NoAgent /\ pressure'
      OBVIOUS
    <3>1. h \in D /\ work[h].span.key = span.parent  BY <1>2
    <3>2. h \notin Resolved(work, known)
      <4> SUFFICES ASSUME h \in Resolved(work, known) PROVE FALSE
        OBVIOUS
      <4>1. PICK r \in Roots(work, known) : h \in Released(work, known, r)
        BY DEF Resolved
      <4>2. r \in DOMAIN work  BY DEF Roots
      <4>3. ReleaseClosed(work, known, Released(work, known, r))
        BY <4>2, ReleasedFacts
      <4>4. i \in Released(work, known, r)
        <5> HIDE DEF i
        <5>1. QED  BY <2>2, <3>1, <4>1, <4>3 DEF ReleaseClosed, i
      <4>5. i \in Resolved(work, known)  BY <4>4 DEF Resolved
      <4>6. QED  BY <2>1, <4>5
    <3>3. h \in forced  BY <3>1, <3>2 DEF D
    <3>4. agent[h] = NoAgent  BY <3>3 DEF agent, Leaving
    <3>5. QED  BY <1>2, <3>3, <3>4
  <2> HIDE DEF holders, i
  <2>6. CASE holders = {} \/ span.parent \notin seen'
    <3>1. contexts'[span.parent] = Unknown  BY <2>2, <2>4, <2>6
    <3>2. Unknown # NoAgent  BY NullsAssumption
    <3>3. QED  BY <2>1, <2>2, <3>1, <3>2 DEF i
  <2>7. CASE holders # {} /\ span.parent \in seen'
    <3>1. (CHOOSE j \in holders : TRUE) \in holders  BY <2>7
    <3>2. contexts'[span.parent] = NoAgent /\ pressure'
      BY <2>4, <2>5, <2>7, <3>1
    <3>3. QED  BY <2>1, <2>2, <3>2 DEF i
  <2>8. QED  BY <2>6, <2>7
<1>10. NoStrandedChild'  BY <1>9 DEF NoStrandedChild
<1>11. QED  BY <1>7, <1>8, <1>10 DEF AttributionInv

LEMMA NextAttributes == ASSUME IInv, AttributionInv, [Next]_vars PROVE AttributionInv'
<1>1. TypeOK /\ pending \in Works
  BY DEF IInv, TypeOK, Works
<1>2. CASE Restart
  <2>1. /\ pending' = <<>> /\ graph' = graphFile /\ contexts' = NoContexts
        /\ pressure' = TRUE
    BY <1>2 DEF Restart, Loaded
  <2>2. \A e \in Entries : graphFile[e] > 0 => graph[e] > 0
    <3> TAKE e \in Entries
    <3>1. graphFile[e] \in Nat /\ graph[e] \in Nat /\ graphFile[e] <= graph[e]
      BY DEF IInv, TypeOK, FilesAreBehind, Contained
    <3>2. QED  BY <3>1
  <2>3. KnownRight(contexts', ~pressure')
    BY <2>1 DEF KnownRight, NoContexts
  <2>4. EvidenceRight(graph', ~pressure')
    BY <2>1, <2>2 DEF AttributionInv, EvidenceRight, Right
  <2>5. NoStrandedChild'  BY <2>1 DEF NoStrandedChild
  <2>6. QED  BY <2>3, <2>4, <2>5 DEF AttributionInv
<1>3. ASSUME NEW e \in Exporters, Accept(e)  PROVE AttributionInv'
  <2>1. PICK unique \in Works, keys \in Seq(Keys) :
          IF unique = <<>>
          THEN UNCHANGED <<contexts, pending, graph, pressure>>
          ELSE Resolve(pending \o unique, Oldest(seenOrder \o keys))
    BY <1>3, AcceptParts
  <2>2. CASE unique = <<>>
    BY <2>1, <2>2 DEF AttributionInv, NoStrandedChild
  <2>3. CASE unique # <<>>
    <3> DEFINE work == pending \o unique
               evicted == Oldest(seenOrder \o keys)
    <3>1. work \in Works  BY <1>1, KeysOfConcatenation
    <3>2. Resolve(work, evicted)  BY <2>1, <2>3
    <3> HIDE DEF work, evicted
    <3>3. QED  BY <1>1, <3>1, <3>2, ResolveAttributes
  <2>4. QED  BY <2>2, <2>3
<1>4. ASSUME NEW e \in Exporters,
             \/ Receive(e) \/ Refuse(e) \/ ReceiveRead(e)
             \/ WriteGraphFile(e) \/ WriteBOMFile(e) \/ WriteFails(e)
             \/ RecordFailure(e) \/ Serve(e) \/ Served(e)
      PROVE  UNCHANGED <<contexts, pending, graph, pressure>>
  BY <1>4 DEF Receive, Refuse, ReceiveRead, Send, WriteGraphFile, WriteBOMFile,
              WriteFails, RecordFailure, Serve, Served, memory, history
<1>5. CASE UNCHANGED <<contexts, pending, graph, pressure>>
  BY <1>5 DEF AttributionInv, NoStrandedChild
<1>6. CASE UNCHANGED vars
  BY <1>5, <1>6 DEF vars, memory, history
<1>7. ASSUME NEW e \in Exporters, Step(e)  PROVE AttributionInv'
  BY <1>3, <1>4, <1>5, <1>7 DEF Step
<1>8. QED  BY <1>2, <1>6, <1>7 DEF Next

LEMMA AttributionInvariance == Spec => []AttributionInv
<1>1. Init => AttributionInv
  BY DEF Init, AttributionInv, KnownRight, EvidenceRight, NoStrandedChild,
         NoContexts, NoEvidence
<1>2. IInv /\ AttributionInv /\ [Next]_vars => AttributionInv'
  BY NextAttributes
<1>3. QED  BY <1>1, <1>2, Invariance, PTL DEF Spec

\* A span is attributed to its nearest explicit agent or to none, never to the
\* agent of another subtree, whatever was evicted, forced out or lost.
THEOREM NeverMisattributes == Spec => []NeverMisattributed
<1>1. ASSUME IInv, AttributionInv  PROVE NeverMisattributed
  <2>1. \A e \in Entries : graph[e] > 0 => e.agent \in {NoAgent, TrueAgent[e.span]}
    BY <1>1 DEF AttributionInv, EvidenceRight, Right
  <2>2. ASSUME NEW s \in Spans, s.key # NoKey, contexts[s.key] # Unknown
        PROVE  contexts[s.key] \in {NoAgent, TrueAgent[s]}
    <3>1. s.key \in Keys  BY <2>2, SpansAssumption
    <3>2. PICK t \in Spans : t.key = s.key /\ Right(contexts[s.key], t, ~pressure)
      BY <1>1, <2>2, <3>1 DEF AttributionInv, KnownRight
    <3>3. TrueAgent[t] = TrueAgent[s]  BY <2>2, <3>2, TrueAgentOfKey
    <3>4. QED  BY <3>2, <3>3 DEF Right
  <2>3. QED  BY <2>1, <2>2 DEF NeverMisattributed
<1>2. QED  BY <1>1, Invariance, AttributionInvariance, PTL

\* While nothing was evicted, forced out or lost, late parents cost nothing:
\* every span has the agent it would have if all were resolved together.
THEOREM AttributesExactly == Spec => []ExactWithoutPressure
<1>1. AttributionInv => ExactWithoutPressure
  BY DEF AttributionInv, EvidenceRight, Right, ExactWithoutPressure
<1>2. QED  BY <1>1, AttributionInvariance, PTL

\* A child waits only while the receiver does not know its parent's agent.
THEOREM StrandsNobody == Spec => []NoStrandedChild
<1>1. AttributionInv => NoStrandedChild  BY DEF AttributionInv
<1>2. QED  BY <1>1, AttributionInvariance, PTL

-----------------------------------------------------------------------------
(***************************************************************************)
(* Retries.                                                                *)
(***************************************************************************)

\* No two observations of a sequence have one key.
Apart(observations) ==
  \A i, j \in DOMAIN observations :
    observations[i].span.key = observations[j].span.key
    /\ observations[i].span.key # NoKey => i = j

\* No key is counted twice in a bag.
EachOnce(bag) ==
  \A e, f \in Entries :
    bag[e] > 0 /\ bag[f] > 0 /\ e.span.key = f.span.key
    /\ e.span.key # NoKey => e = f /\ bag[e] = 1

\* While nothing was evicted, forced out or lost, the window remembers all that
\* was counted and all that waits: this is why a retry is not counted again.
OnceInv ==
  /\ CountedOnce
  /\ ~pressure => Apart(pending) /\ KeysIn(graph) \cup KeysOf(pending) \subseteq seen

LEMMA KeyIsIn ==
  ASSUME NEW bag, NEW e \in Entries, bag[e] > 0, e.span.key # NoKey
  PROVE  e.span.key \in KeysIn(bag)
BY DEF KeysIn

LEMMA KeyIsOf ==
  ASSUME NEW work, NEW i \in DOMAIN work, work[i].span.key # NoKey
  PROVE  work[i].span.key \in KeysOf(work)
BY DEF KeysOf, Elements

\* What waits and what a batch adds have no key in common.
LEMMA WorkIsApart ==
  ASSUME NEW a \in Works, NEW b \in Works, Apart(a), Apart(b),
         KeysOf(a) \cap KeysOf(b) = {}
  PROVE  Apart(a \o b) /\ KeysOf(a \o b) \subseteq KeysOf(a) \cup KeysOf(b)
<1> DEFINE work == a \o b
           m == Len(a)
<1>1. /\ m \in Nat /\ Len(b) \in Nat
      /\ DOMAIN a = 1..m /\ DOMAIN b = 1..Len(b)
      /\ DOMAIN work = 1..(m + Len(b))
      /\ \A i \in 1..m : work[i] = a[i]
      /\ \A i \in (m + 1)..(m + Len(b)) : work[i] = b[i - m]
  BY DEF Works
<1> HIDE DEF work, m
<1>2. ASSUME NEW i \in DOMAIN work, i \notin 1..m
      PROVE  i - m \in DOMAIN b /\ work[i] = b[i - m]
  <2>1. i \in (m + 1)..(m + Len(b)) /\ i - m \in 1..Len(b)  BY <1>1, <1>2
  <2>2. QED  BY <1>1, <2>1
<1>3. ASSUME NEW i \in DOMAIN work, work[i].span.key # NoKey
      PROVE  IF i \in 1..m THEN work[i].span.key \in KeysOf(a)
                           ELSE work[i].span.key \in KeysOf(b)
  BY <1>1, <1>2, <1>3, KeyIsOf
<1>4. ASSUME NEW i \in DOMAIN work, NEW j \in DOMAIN work,
             work[i].span.key = work[j].span.key, work[i].span.key # NoKey
      PROVE  i = j
  <2>1. CASE i \in 1..m /\ j \in 1..m
    BY <1>1, <1>4, <2>1 DEF Apart
  <2>2. CASE i \notin 1..m /\ j \notin 1..m
    <3>1. i - m = j - m  BY <1>2, <1>4, <2>2 DEF Apart
    <3>2. i \in Nat /\ j \in Nat  BY <1>1
    <3>3. QED  BY <1>1, <3>1, <3>2
  <2>3. CASE (i \in 1..m) # (j \in 1..m)
    BY <1>3, <1>4, <2>3
  <2>4. QED  BY <2>1, <2>2, <2>3
<1>5. Apart(work)  BY <1>4 DEF Apart
<1>6. KeysOf(work) \subseteq KeysOf(a) \cup KeysOf(b)
  <2> SUFFICES ASSUME NEW i \in DOMAIN work, work[i].span.key # NoKey
               PROVE  work[i].span.key \in KeysOf(a) \cup KeysOf(b)
    BY DEF KeysOf, Elements
  <2>1. QED  BY <1>3
<1>7. QED  BY <1>5, <1>6 DEF work

\* Items with keys of their own that were not counted before are counted once.
LEMMA MergeCountsOnce ==
  ASSUME NEW bag \in [Entries -> Nat], NEW work \in Works, Apart(work),
         KeysIn(bag) \cap KeysOf(work) = {}, EachOnce(bag),
         NEW D \in SUBSET DOMAIN work, NEW agent \in [D -> AgentContexts]
  PROVE  /\ EachOnce(Merge(bag, work, agent))
         /\ \A k \in KeysIn(Merge(bag, work, agent)) :
              k \in KeysIn(bag) \/ \E i \in D : work[i].span.key = k
<1> DEFINE merged == Merge(bag, work, agent)
           new(e) == {i \in DOMAIN agent : EntryOf(work, agent, i) = e}
<1>1. \A e \in Entries : merged[e] = bag[e] + Cardinality(new(e)) /\ bag[e] \in Nat
  BY DEF Merge
<1>2. \A i \in D : EntryOf(work, agent, i).span = work[i].span
  BY DEF EntryOf
<1>3. ASSUME NEW e \in Entries, merged[e] > 0, e.span.key # NoKey
      PROVE  \/ /\ e.span.key \in KeysIn(bag) /\ bag[e] > 0
                /\ merged[e] = bag[e]
             \/ /\ ~(bag[e] > 0) /\ merged[e] = 1
                /\ \E i \in D : EntryOf(work, agent, i) = e
  <2>1. CASE bag[e] > 0
    <3>1. e.span.key \in KeysIn(bag)  BY <1>3, <2>1, KeyIsIn
    <3>2. new(e) = {}
      <4> SUFFICES ASSUME NEW i \in D, EntryOf(work, agent, i) = e PROVE FALSE
        OBVIOUS
      <4>1. i \in DOMAIN work /\ work[i].span.key = e.span.key  BY <1>2
      <4>2. e.span.key \in KeysOf(work)  BY <1>3, <4>1, KeyIsOf
      <4>3. QED  BY <3>1, <4>2
    <3>3. Cardinality(new(e)) = 0
      <4> HIDE DEF new
      <4>1. QED  BY <3>2, FS_EmptySet
    <3>4. merged[e] = bag[e]
      <4> HIDE DEF merged, new
      <4>1. QED  BY <1>1, <3>3
    <3>5. QED  BY <2>1, <3>1, <3>4
  <2>2. CASE ~(bag[e] > 0)
    <3>1. PICK i \in D : EntryOf(work, agent, i) = e
      BY <1>3, <2>2, MergedFrom
    <3>2. new(e) = {i}
      <4> SUFFICES ASSUME NEW j \in D, EntryOf(work, agent, j) = e PROVE j = i
        BY <3>1
      <4>1. work[j].span = e.span /\ work[i].span = e.span  BY <1>2, <3>1
      <4>2. QED  BY <1>3, <4>1 DEF Apart
    <3>3. Cardinality(new(e)) = 1
      <4> HIDE DEF new
      <4>1. QED  BY <3>2, FS_Singleton
    <3>4. merged[e] = 1
      <4> HIDE DEF merged, new
      <4>1. bag[e] = 0  BY <1>1, <2>2
      <4>2. QED  BY <1>1, <3>3, <4>1
    <3>5. QED  BY <2>2, <3>1, <3>4
  <2>3. QED  BY <2>1, <2>2
<1> HIDE DEF merged
<1>4. ASSUME NEW e \in Entries, NEW f \in Entries, merged[e] > 0, merged[f] > 0,
             e.span.key = f.span.key, e.span.key # NoKey
      PROVE  e = f /\ merged[e] = 1
  <2>1. CASE bag[e] > 0 /\ bag[f] > 0
    BY <1>3, <1>4, <2>1 DEF EachOnce
  <2>2. CASE ~(bag[e] > 0) /\ ~(bag[f] > 0)
    <3>1. PICK i \in D : EntryOf(work, agent, i) = e  BY <1>3, <1>4, <2>2
    <3>2. PICK j \in D : EntryOf(work, agent, j) = f  BY <1>3, <1>4, <2>2
    <3>3. i = j  BY <1>2, <1>4, <3>1, <3>2 DEF Apart
    <3>4. merged[e] = 1  BY <1>3, <1>4, <2>2
    <3>5. QED  BY <3>1, <3>2, <3>3, <3>4
  <2>3. ASSUME NEW x \in {e, f}, NEW y \in {e, f}, bag[x] > 0, ~(bag[y] > 0)
        PROVE  FALSE
    <3>1. x.span.key \in KeysIn(bag)  BY <1>4, <2>3, KeyIsIn
    <3>2. merged[y] > 0 /\ y.span.key = x.span.key /\ y.span.key # NoKey
          /\ y \in Entries
      BY <1>4
    <3>3. PICK i \in D : EntryOf(work, agent, i) = y  BY <1>3, <2>3, <3>2
    <3>4. y.span.key \in KeysOf(work)  BY <1>2, <3>2, <3>3, KeyIsOf
    <3>5. QED  BY <3>1, <3>2, <3>4
  <2>4. QED  BY <2>1, <2>2, <2>3
<1>5. ASSUME NEW k \in KeysIn(merged)
      PROVE  k \in KeysIn(bag) \/ \E i \in D : work[i].span.key = k
  <2>1. PICK e \in Entries : merged[e] > 0 /\ e.span.key = k /\ k # NoKey
    BY DEF KeysIn
  <2>2. QED  BY <1>2, <1>3, <2>1
<1>6. EachOnce(merged)  BY <1>4 DEF EachOnce
<1>7. QED  BY <1>5, <1>6 DEF merged

\* A resolution that forces nothing out counts its work once.
LEMMA ResolveCountsOnce ==
  ASSUME TypeOK, NEW work \in Works, NEW evicted, Resolve(work, evicted)
  PROVE  CountedOnce /\ ~pressure' /\ Apart(work)
         /\ KeysIn(graph) \cap KeysOf(work) = {}
           => /\ evicted = {}
              /\ CountedOnce'
              /\ Apart(pending')
              /\ KeysIn(graph') \cup KeysOf(pending')
                   \subseteq KeysIn(graph) \cup KeysOf(work)
<1> DEFINE known == Forget(evicted)
           W == DOMAIN work \ Resolved(work, known)
<1>1. PICK kept \in Seq(W), forced \in SUBSET W :
        LET D == Resolved(work, known) \cup forced
            agent == Leaving(work, known, forced)
        IN  /\ D \in SUBSET DOMAIN work
            /\ agent \in [D -> AgentContexts]
            /\ \A i, j \in DOMAIN kept : kept[i] = kept[j] => i = j
            /\ pending' = At(work, kept)
            /\ contexts' = Learn(known, work, agent, seen')
            /\ graph' = Merge(graph, work, agent)
            /\ pressure' = (pressure \/ evicted # {} \/ forced # {})
  BY ResolveParts
<1> HAVE CountedOnce /\ ~pressure' /\ Apart(work)
         /\ KeysIn(graph) \cap KeysOf(work) = {}
<1> DEFINE D == Resolved(work, known) \cup forced
           agent == Leaving(work, known, forced)
<1>2. /\ D \in SUBSET DOMAIN work /\ agent \in [D -> AgentContexts]
      /\ \A i, j \in DOMAIN kept : kept[i] = kept[j] => i = j
      /\ pending' = At(work, kept)
      /\ graph' = Merge(graph, work, agent)
      /\ evicted = {} /\ forced = {} /\ ~pressure
  BY <1>1
<1>3. D \cap W = {}  BY <1>2
<1>4. graph \in [Entries -> Nat]  BY DEF TypeOK
<1>5. EachOnce(graph)  BY <1>2 DEF CountedOnce, EachOnce
<1> HIDE DEF D, agent
<1>6. /\ EachOnce(graph')
      /\ \A k \in KeysIn(graph') :
           k \in KeysIn(graph) \/ \E i \in D : work[i].span.key = k
  BY <1>2, <1>4, <1>5, MergeCountsOnce
<1>7. \A n \in DOMAIN pending' :
        n \in DOMAIN kept /\ kept[n] \in W /\ pending'[n] = work[kept[n]]
  <2> HIDE DEF W
  <2>1. QED  BY <1>2 DEF At
<1>8. W \subseteq DOMAIN work  OBVIOUS
<1> HIDE DEF W
<1>9. Apart(pending')
  <2> SUFFICES ASSUME NEW m \in DOMAIN pending', NEW n \in DOMAIN pending',
                      pending'[m].span.key = pending'[n].span.key,
                      pending'[m].span.key # NoKey
               PROVE  m = n
    BY DEF Apart
  <2>1. kept[m] = kept[n]  BY <1>7, <1>8 DEF Apart
  <2>2. QED  BY <1>2, <1>7, <2>1
<1>10. ASSUME NEW k \in KeysOf(pending')
       PROVE  \E w \in W : work[w].span.key = k /\ k # NoKey
  <2>1. PICK n \in DOMAIN pending' : pending'[n].span.key = k /\ k # NoKey
    BY DEF KeysOf, Elements
  <2>2. QED  BY <1>7, <2>1
<1>11. ASSUME NEW k \in KeysIn(graph')
       PROVE  k \in KeysIn(graph) \/ \E i \in D : work[i].span.key = k
  BY <1>6
<1>12. KeysIn(graph') \cap KeysOf(pending') = {}
  <2> SUFFICES ASSUME NEW k \in KeysIn(graph'), k \in KeysOf(pending')
               PROVE  FALSE
    OBVIOUS
  <2>1. PICK w \in W : work[w].span.key = k /\ k # NoKey  BY <1>10
  <2>2. k \in KeysOf(work)  BY <1>8, <2>1, KeyIsOf
  <2>3. PICK i \in D : work[i].span.key = k  BY <1>11, <2>2
  <2>4. i = w  BY <1>2, <1>8, <2>1, <2>3 DEF Apart
  <2>5. QED  BY <1>3, <2>4
<1>13. KeysIn(graph') \cup KeysOf(pending') \subseteq KeysIn(graph) \cup KeysOf(work)
  <2>1. \A k \in KeysOf(pending') : k \in KeysOf(work)
    BY <1>8, <1>10, KeyIsOf
  <2>2. \A k \in KeysIn(graph') : k \in KeysIn(graph) \cup KeysOf(work)
    <3>1. NoKey \notin KeysIn(graph')  BY DEF KeysIn
    <3>2. QED  BY <1>2, <1>11, <3>1, KeyIsOf
  <2>3. QED  BY <2>1, <2>2
<1>14. CountedOnce'  BY <1>6, <1>12 DEF CountedOnce, EachOnce
<1>15. QED  BY <1>2, <1>9, <1>13, <1>14

LEMMA NextCountsOnce == ASSUME IInv, OnceInv, [Next]_vars PROVE OnceInv'
<1>1. TypeOK /\ pending \in Works  BY DEF IInv, TypeOK, Works
<1>2. CASE Restart
  BY <1>2 DEF Restart, OnceInv, CountedOnce
<1>3. ASSUME NEW e \in Exporters, Accept(e)  PROVE OnceInv'
  <2> SUFFICES ASSUME ~pressure'
               PROVE  /\ CountedOnce' /\ Apart(pending')
                      /\ KeysIn(graph') \cup KeysOf(pending') \subseteq seen'
    BY DEF OnceInv, CountedOnce
  <2>1. PICK unique \in Works, keys \in Seq(Keys) :
          /\ Remember(keys)
          /\ IF unique = <<>>
             THEN UNCHANGED <<contexts, pending, graph, pressure>>
             ELSE Resolve(pending \o unique, Oldest(seenOrder \o keys))
          /\ Elements(keys) = KeysOf(unique)
          /\ Elements(keys) \cap seen = {}
          /\ Apart(unique)
    BY <1>3, AcceptParts DEF Apart
  <2> DEFINE work == pending \o unique
             evicted == Oldest(seenOrder \o keys)
  <2>2. CASE unique = <<>>
    <3>1. UNCHANGED <<pending, graph, pressure>>  BY <2>1, <2>2
    <3>2. Elements(keys) = {}  BY <2>1, <2>2 DEF KeysOf, Elements
    <3>3. keys = <<>>  BY <2>1, <3>2 DEF Elements
    <3>4. seenOrder \in Seq(Keys) /\ seenOrder \o keys = seenOrder
      BY <1>1, <3>3 DEF TypeOK
    <3>5. Overflow(seenOrder) = 0
      BY <3>4, LimitAssumption DEF IInv, MemoryBounded, Overflow
    <3>6. Oldest(seenOrder) = {}  BY <3>5 DEF Oldest
    <3>7. seen' = seen  BY <2>1, <3>2, <3>4, <3>6 DEF Remember
    <3>8. QED  BY <3>1, <3>7 DEF OnceInv, CountedOnce
  <2>3. CASE unique # <<>>
    <3>1. Resolve(work, evicted)  BY <2>1, <2>3
    <3>2. ~pressure  BY <3>1 DEF Resolve
    <3>3. /\ CountedOnce /\ Apart(pending)
          /\ KeysIn(graph) \cup KeysOf(pending) \subseteq seen
          /\ KeysIn(graph) \cap KeysOf(pending) = {}
      BY <3>2 DEF OnceInv, CountedOnce
    <3>4. /\ Apart(work) /\ work \in Works
          /\ KeysOf(work) \subseteq KeysOf(pending) \cup KeysOf(unique)
      <4>1. KeysOf(pending) \cap KeysOf(unique) = {}  BY <2>1, <3>3
      <4>2. QED  BY <1>1, <2>1, <3>3, <4>1, WorkIsApart, KeysOfConcatenation
    <3>5. KeysIn(graph) \cap KeysOf(work) = {}  BY <2>1, <3>3, <3>4
    <3> HIDE DEF work, evicted
    <3>6. /\ evicted = {} /\ CountedOnce' /\ Apart(pending')
          /\ KeysIn(graph') \cup KeysOf(pending')
               \subseteq KeysIn(graph) \cup KeysOf(work)
      BY <1>1, <3>1, <3>2, <3>3, <3>4, <3>5, ResolveCountsOnce
    <3>7. seen' = seen \cup KeysOf(unique)
      BY <2>1, <3>6 DEF Remember, evicted
    <3>8. QED  BY <3>3, <3>4, <3>6, <3>7
  <2>4. QED  BY <2>2, <2>3
<1>4. ASSUME NEW e \in Exporters,
             \/ Receive(e) \/ Refuse(e) \/ ReceiveRead(e)
             \/ WriteGraphFile(e) \/ WriteBOMFile(e) \/ WriteFails(e)
             \/ RecordFailure(e) \/ Serve(e) \/ Served(e)
      PROVE  UNCHANGED <<seen, pending, graph, pressure>>
  BY <1>4 DEF Receive, Refuse, ReceiveRead, Send, WriteGraphFile, WriteBOMFile,
              WriteFails, RecordFailure, Serve, Served, memory, history
<1>5. CASE UNCHANGED <<seen, pending, graph, pressure>>
  BY <1>5 DEF OnceInv, CountedOnce
<1>6. CASE UNCHANGED vars
  BY <1>5, <1>6 DEF vars, memory, history
<1>7. ASSUME NEW e \in Exporters, Step(e)  PROVE OnceInv'
  BY <1>3, <1>4, <1>5, <1>7 DEF Step
<1>8. QED  BY <1>2, <1>6, <1>7 DEF Next

\* While nothing was evicted, forced out or lost, a span with identifiers is
\* counted once, and not while it waits, whatever is sent again by whomever.
THEOREM CountsOnce == Spec => []CountedOnce
<1>1. Init => OnceInv
  <2> SUFFICES ASSUME Init PROVE OnceInv
    OBVIOUS
  <2>1. pending = <<>> /\ \A e \in Entries : graph[e] = 0
    BY DEF Init, NoEvidence
  <2>2. KeysIn(graph) = {}  BY <2>1 DEF KeysIn
  <2>3. KeysOf(pending) = {} /\ Apart(pending)
    BY <2>1 DEF KeysOf, Elements, Apart
  <2>4. QED  BY <2>1, <2>2, <2>3 DEF OnceInv, CountedOnce
<1>2. IInv /\ OnceInv /\ [Next]_vars => OnceInv'  BY NextCountsOnce
<1>3. OnceInv => CountedOnce  BY DEF OnceInv
<1>4. QED  BY <1>1, <1>2, <1>3, Invariance, PTL DEF Spec
-----------------------------------------------------------------------------
(***************************************************************************)
(* Nothing is dropped and nothing is made up.  A bag is counted as the set *)
(* of its pieces, so that adding evidence is a bijection between the new   *)
(* pieces and the items it is made of, and no sum has to be taken.         *)
(***************************************************************************)

LEMMA PieceIs ==
  ASSUME NEW bag, NEW p
  PROVE  p \in Pieces(bag)
         <=> \E e \in Entries : \E n \in 1..bag[e] : p = <<e, n>>
BY DEF Pieces

\* The items that an entry is made of, numbered.
LEMMA NumberedItems ==
  ASSUME NEW D, IsFiniteSet(D), NEW of, \A e \in Entries : of[e] \subseteq D
  PROVE  \E number : \A e \in Entries :
           /\ Cardinality(of[e]) \in Nat
           /\ number[e] \in Bijection(1..Cardinality(of[e]), of[e])
<1> DEFINE count(e) == Cardinality(of[e])
           number == [e \in Entries |->
                        CHOOSE b : b \in Bijection(1..count(e), of[e])]
<1>1. ASSUME NEW e \in Entries
      PROVE  count(e) \in Nat /\ \E b : b \in Bijection(1..count(e), of[e])
  <2>1. IsFiniteSet(of[e])  BY <1>1, FS_Subset
  <2>2. count(e) \in Nat /\ ExistsBijection(1..count(e), of[e])
    BY <2>1, FS_CardinalityType
  <2>3. QED  BY <2>2 DEF ExistsBijection
<1>2. ASSUME NEW e \in Entries
      PROVE  number[e] \in Bijection(1..count(e), of[e])
  <2>1. number[e] = CHOOSE b : b \in Bijection(1..count(e), of[e])  OBVIOUS
  <2> HIDE DEF number
  <2>2. QED  BY <1>1, <2>1
<1> HIDE DEF number
<1>3. QED  BY <1>1, <1>2

\* Every item that leaves the queue becomes one piece of evidence.
LEMMA MergeAddsPieces ==
  ASSUME NEW bag \in [Entries -> Nat], IsFiniteSet(Pieces(bag)),
         NEW work, NEW agent, IsFiniteSet(DOMAIN agent),
         \A i \in DOMAIN agent : EntryOf(work, agent, i) \in Entries
  PROVE  /\ IsFiniteSet(Pieces(Merge(bag, work, agent)))
         /\ Total(Merge(bag, work, agent)) = Total(bag) + Cardinality(DOMAIN agent)
<1> DEFINE D == DOMAIN agent
           entry(i) == EntryOf(work, agent, i)
           of == [e \in Entries |-> {i \in D : entry(i) = e}]
           merged == Merge(bag, work, agent)
           added == Pieces(merged) \ Pieces(bag)
<1>1. PICK number : \A e \in Entries :
        /\ Cardinality(of[e]) \in Nat
        /\ number[e] \in Bijection(1..Cardinality(of[e]), of[e])
  <2>1. \A e \in Entries : of[e] \subseteq D  OBVIOUS
  <2>2. IsFiniteSet(D)  OBVIOUS
  <2> HIDE DEF of, D
  <2>3. QED  BY <2>1, <2>2, NumberedItems
<1>2. \A e \in Entries : merged[e] = bag[e] + Cardinality(of[e])  BY DEF Merge
<1>3. \A e \in Entries : bag[e] \in Nat  OBVIOUS
<1>4. \A e \in Entries : \A i \in of[e] : i \in D /\ entry(i) = e  OBVIOUS
<1>5. \A i \in D : entry(i) \in Entries /\ i \in of[entry(i)]  OBVIOUS
<1>6. \A e \in Entries : /\ \A n \in 1..Cardinality(of[e]) : number[e][n] \in of[e]
                         /\ \A m, n \in 1..Cardinality(of[e]) :
                              number[e][m] = number[e][n] => m = n
                         /\ \A i \in of[e] : \E n \in 1..Cardinality(of[e]) :
                              number[e][n] = i
  <2> HIDE DEF of
  <2>1. QED  BY <1>1 DEF Bijection, Injection, IsInjective, Surjection
<1> HIDE DEF of, merged, entry, D
<1>7. ASSUME NEW p
      PROVE  p \in added <=> \E e \in Entries : \E n \in 1..Cardinality(of[e]) :
                               p = <<e, bag[e] + n>>
  <2>1. ASSUME p \in added
        PROVE  \E e \in Entries : \E n \in 1..Cardinality(of[e]) :
                 p = <<e, bag[e] + n>>
    <3>5. PICK e \in Entries : \E n \in 1..merged[e] : p = <<e, n>>
      BY <2>1, PieceIs DEF added
    <3>1. PICK n \in 1..merged[e] : p = <<e, n>>
      BY <3>5
    <3>2. n \notin 1..bag[e]  BY <2>1, <3>1, PieceIs DEF added
    <3>3. n - bag[e] \in 1..Cardinality(of[e]) /\ n = bag[e] + (n - bag[e])
      BY <1>1, <1>2, <1>3, <3>1, <3>2
    <3>4. QED  BY <3>1, <3>3
  <2>2. ASSUME NEW e \in Entries, NEW n, n \in 1..Cardinality(of[e]),
               p = <<e, bag[e] + n>>
        PROVE  p \in added
    <3>1. bag[e] + n \in 1..merged[e] /\ bag[e] + n \notin 1..bag[e]
      BY <1>1, <1>2, <1>3, <2>2
    <3>2. p \in Pieces(merged)  BY <2>2, <3>1, PieceIs
    <3>3. p \notin Pieces(bag)
      <4>1. SUFFICES ASSUME NEW f \in Entries, NEW m, m \in 1..bag[f], p = <<f, m>>
                     PROVE  FALSE
        BY PieceIs
      <4>2. f = e /\ m = bag[e] + n  BY <2>2, <4>1
      <4>3. QED  BY <3>1, <4>1, <4>2
    <3>4. QED  BY <3>2, <3>3 DEF added
  <2>3. QED  BY <2>1, <2>2
<1> HIDE DEF added
<1> DEFINE item == [p \in added |-> number[p[1]][p[2] - bag[p[1]]]]
<1>8. ASSUME NEW p \in added
      PROVE  \E e \in Entries : \E n \in 1..Cardinality(of[e]) :
               /\ p = <<e, bag[e] + n>>
               /\ item[p] = number[e][n]
               /\ item[p] \in D /\ entry(item[p]) = e
  <2>6. PICK e \in Entries : \E n \in 1..Cardinality(of[e]) : p = <<e, bag[e] + n>>
    BY <1>7
  <2>1. PICK n \in 1..Cardinality(of[e]) : p = <<e, bag[e] + n>>
    BY <2>6
  <2>2. p[1] = e /\ p[2] - bag[e] = n  BY <1>1, <1>3, <2>1
  <2>3. item[p] = number[e][n]  BY <2>2
  <2> HIDE DEF item
  <2>4. item[p] \in of[e]  BY <1>6, <2>3
  <2>5. QED  BY <1>4, <2>1, <2>3, <2>4
<1> HIDE DEF item
<1>9. item \in [added -> D]
  <2>1. DOMAIN item = added /\ item = [p \in added |-> item[p]]  BY DEF item
  <2>2. \A p \in added : item[p] \in D  BY <1>8
  <2>3. QED  BY <2>1, <2>2
<1>10. ASSUME NEW p \in added, NEW q \in added, item[p] = item[q]
       PROVE  p = q
  <2>6. PICK e \in Entries : \E n \in 1..Cardinality(of[e]) :
          p = <<e, bag[e] + n>> /\ item[p] = number[e][n] /\ entry(item[p]) = e
    BY <1>8
  <2>1. PICK n \in 1..Cardinality(of[e]) :
          p = <<e, bag[e] + n>> /\ item[p] = number[e][n] /\ entry(item[p]) = e
    BY <2>6
  <2>7. PICK f \in Entries : \E m \in 1..Cardinality(of[f]) :
          q = <<f, bag[f] + m>> /\ item[q] = number[f][m] /\ entry(item[q]) = f
    BY <1>8
  <2>2. PICK m \in 1..Cardinality(of[f]) :
          q = <<f, bag[f] + m>> /\ item[q] = number[f][m] /\ entry(item[q]) = f
    BY <2>7
  <2>3. e = f  BY <1>10, <2>1, <2>2
  <2>4. n = m  BY <1>6, <1>10, <2>1, <2>2, <2>3
  <2>5. QED  BY <2>1, <2>2, <2>3, <2>4
<1>11. ASSUME NEW i \in D
       PROVE  \E p \in added : item[p] = i
  <2>1. PICK n \in 1..Cardinality(of[entry(i)]) : number[entry(i)][n] = i
    BY <1>5, <1>6
  <2> DEFINE p == <<entry(i), bag[entry(i)] + n>>
  <2>2. p \in added  BY <1>5, <1>7, <2>1
  <2>3. item[p] = number[p[1]][p[2] - bag[p[1]]]  BY <2>2 DEF item
  <2>4. p[1] = entry(i) /\ p[2] - bag[entry(i)] = n
    BY <1>1, <1>3, <1>5, <2>1
  <2>5. item[p] = i  BY <2>1, <2>3, <2>4
  <2>6. QED  BY <2>2, <2>5
<1>12. item \in Injection(added, D) /\ item \in Surjection(added, D)
  BY <1>9, <1>10, <1>11 DEF Injection, IsInjective, Surjection
<1>13. IsFiniteSet(D)  BY DEF D
<1>14. IsFiniteSet(added) /\ Cardinality(added) = Cardinality(D)
  BY <1>12, <1>13, FS_Injection
<1>15. Pieces(merged) = Pieces(bag) \cup added /\ Pieces(bag) \cap added = {}
  <2>1. Pieces(bag) \subseteq Pieces(merged)
    <3>1. SUFFICES ASSUME NEW e \in Entries, NEW n, n \in 1..bag[e]
                   PROVE  <<e, n>> \in Pieces(merged)
      BY PieceIs
    <3>2. n \in 1..merged[e]  BY <1>1, <1>2, <1>3, <3>1
    <3>3. QED  BY <3>2, PieceIs
  <2>2. QED  BY <2>1 DEF added
<1>16. /\ IsFiniteSet(Pieces(merged))
       /\ Cardinality(Pieces(merged))
            = Cardinality(Pieces(bag)) + Cardinality(added) - Cardinality({})
  BY <1>14, <1>15, FS_Union
<1>17. Cardinality({}) = 0 /\ Cardinality(Pieces(bag)) \in Nat
       /\ Cardinality(added) \in Nat
  BY <1>14, FS_EmptySet, FS_CardinalityType
<1>18. Cardinality(Pieces(merged)) = Cardinality(Pieces(bag)) + Cardinality(D)
  BY <1>14, <1>16, <1>17
<1>19. QED  BY <1>16, <1>18 DEF Total, merged, D

\* A resolution turns its work into evidence and waiting spans, item by item.
LEMMA ResolveConserves ==
  ASSUME TypeOK, NEW work \in Works, NEW evicted, Resolve(work, evicted),
         IsFiniteSet(Pieces(graph))
  PROVE  /\ IsFiniteSet(Pieces(graph'))
         /\ Len(pending') \in Nat
         /\ Total(graph') + Len(pending') = Total(graph) + Len(work)
<1> DEFINE known == Forget(evicted)
           R == Resolved(work, known)
           W == DOMAIN work \ R
<1>1. known \in Knowns  BY DEF TypeOK, Forget, Knowns, Contexts
<1>2. PICK waiting \in InOrder(W) :
        LET forced == Oldest(waiting)
            agent  == Leaving(work, known, forced)
        IN  /\ pending' = At(work, Newest(waiting))
            /\ graph' = Merge(graph, work, agent)
  BY DEF Resolve
<1> DEFINE forced == Oldest(waiting)
           agent == Leaving(work, known, forced)
           cut == Overflow(waiting)
           kept == Newest(waiting)
<1>3. /\ R \subseteq DOMAIN work /\ W \subseteq DOMAIN work
      /\ DOMAIN work = 1..Len(work) /\ Len(work) \in Nat
      /\ IsFiniteSet(DOMAIN work) /\ Cardinality(DOMAIN work) = Len(work)
  <2>1. R \subseteq DOMAIN work  BY <1>1, ResolvedType
  <2>2. DOMAIN work = 1..Len(work) /\ Len(work) \in Nat  BY DEF Works
  <2>3. IsFiniteSet(1..Len(work)) /\ Cardinality(1..Len(work)) = Len(work)
    BY <2>2, FS_Interval
  <2>4. QED  BY <2>1, <2>2, <2>3
<1>4. /\ IsFiniteSet(R) /\ IsFiniteSet(W)
      /\ Cardinality(R) \in Nat /\ Cardinality(W) \in Nat
      /\ Cardinality(R) + Cardinality(W) = Len(work)
  <2>1. IsFiniteSet(R) /\ IsFiniteSet(W)
    <3> HIDE DEF R
    <3>1. QED  BY <1>3, FS_Subset
  <2>2. R \cup W = DOMAIN work /\ R \cap W = {}
    <3> HIDE DEF R
    <3>1. QED  BY <1>3
  <2> HIDE DEF R, W
  <2>3. Cardinality(R \cup W) = Cardinality(R) + Cardinality(W) - Cardinality(R \cap W)
    BY <2>1, FS_Union
  <2>4. Cardinality(R) \in Nat /\ Cardinality(W) \in Nat
    BY <2>1, FS_CardinalityType
  <2>5. Cardinality(R \cap W) = 0  BY <2>2, FS_EmptySet
  <2>6. Cardinality(R \cup W) = Len(work)  BY <1>3, <2>2
  <2>7. Cardinality(R) + Cardinality(W) = Len(work)
    BY <2>3, <2>4, <2>5, <2>6
  <2>8. QED  BY <2>1, <2>4, <2>7
<1>5. W \subseteq Nat  BY <1>3
<1>6. /\ waiting \in [1..Cardinality(W) -> W]
      /\ waiting \in Seq(W) /\ Len(waiting) = Cardinality(W)
      /\ \A i, j \in 1..Cardinality(W) : waiting[i] = waiting[j] => i = j
  <2> HIDE DEF W
  <2>1. waiting \in Seq(W) /\ waiting \in [1..Cardinality(W) -> W]
    BY <1>4, <1>5, InOrderType
  <2>2. Len(waiting) = Cardinality(W)  BY <1>4, <2>1
  <2>3. QED  BY <1>4, <1>5, <2>1, <2>2, InOrderInjective
<1>7. /\ cut \in 0..Cardinality(W) /\ kept \in Seq(W)
      /\ Len(kept) = Cardinality(W) - cut
  <2> HIDE DEF W
  <2>1. QED  BY <1>6, CutAtLimit
<1>8. forced \subseteq W /\ IsFiniteSet(forced) /\ Cardinality(forced) = cut
  <2> DEFINE first == [i \in 1..cut |-> waiting[i]]
  <2>1. forced = {waiting[i] : i \in 1..cut}  BY DEF Oldest
  <2> HIDE DEF W, forced, cut
  <2>2. \A i \in 1..cut : i \in 1..Cardinality(W)  BY <1>4, <1>7
  <2>3. forced \subseteq W  BY <1>6, <2>1, <2>2
  <2>4. first \in [1..cut -> forced]  BY <2>1
  <2>5. \A i, j \in 1..cut : first[i] = first[j] => i = j  BY <1>6, <2>2
  <2>6. \A w \in forced : \E i \in 1..cut : first[i] = w  BY <2>1
  <2>7. first \in Bijection(1..cut, forced)
    BY <2>4, <2>5, <2>6 DEF Bijection, Injection, IsInjective, Surjection
  <2>8. ExistsBijection(1..cut, forced)  BY <2>7 DEF ExistsBijection
  <2>9. cut \in Nat  BY <1>4, <1>7
  <2>10. Cardinality(forced) = cut  BY <2>8, <2>9, FS_CountingElements
  <2>11. IsFiniteSet(forced)  BY <1>4, <2>3, FS_Subset
  <2>12. QED  BY <2>3, <2>10, <2>11
<1>9. /\ DOMAIN agent = R \cup forced
      /\ IsFiniteSet(DOMAIN agent)
      /\ Cardinality(DOMAIN agent) = Cardinality(R) + cut
      /\ agent \in [DOMAIN agent -> AgentContexts]
      /\ DOMAIN agent \subseteq DOMAIN work
  <2>1. forced \subseteq DOMAIN work  BY <1>3, <1>8
  <2>2. agent \in [R \cup forced -> AgentContexts]
    <3> HIDE DEF known, forced
    <3>1. QED  BY <1>1, <2>1, LeavingType
  <2>3. R \cap forced = {}  BY <1>8
  <2> HIDE DEF agent, R, forced, W, known
  <2>4. DOMAIN agent = R \cup forced /\ agent \in [DOMAIN agent -> AgentContexts]
    BY <2>2
  <2>5. /\ IsFiniteSet(R \cup forced)
        /\ Cardinality(R \cup forced)
             = Cardinality(R) + Cardinality(forced) - Cardinality(R \cap forced)
    BY <1>4, <1>8, FS_Union
  <2>6. Cardinality(R \cap forced) = 0  BY <2>3, FS_EmptySet
  <2>7. Cardinality(R \cup forced) = Cardinality(R) + cut
    BY <1>4, <1>7, <1>8, <2>5, <2>6
  <2>8. QED  BY <1>3, <2>1, <2>4, <2>5, <2>7
<1>10. graph' = Merge(graph, work, agent) /\ pending' = At(work, kept)  BY <1>2
<1> HIDE DEF agent, R, forced, W, known, kept, cut
<1>11. \A i \in DOMAIN agent : EntryOf(work, agent, i) \in Entries
  <2> SUFFICES ASSUME NEW i \in DOMAIN agent PROVE EntryOf(work, agent, i) \in Entries
    OBVIOUS
  <2> DEFINE span == [j \in DOMAIN agent |-> work[j].span]
  <2>1. work[i].span \in Spans /\ work[i].source \in Sources
    BY <1>9, ObservationParts DEF Works
  <2>2. InheritedAgent(span, agent, i) \in AgentContexts
    BY <1>9, InheritedAgentType DEF Works
  <2>3. EntryOf(work, agent, i) =
          [span |-> work[i].span, source |-> work[i].source,
           agent |-> InheritedAgent(span, agent, i)]
    BY DEF EntryOf
  <2> HIDE DEF span
  <2>4. QED  BY <2>1, <2>2, <2>3 DEF Entries
<1>12. /\ IsFiniteSet(Pieces(graph'))
       /\ Total(graph') = Total(graph) + Cardinality(DOMAIN agent)
  <2>1. graph \in [Entries -> Nat]  BY DEF TypeOK
  <2>2. QED  BY <1>9, <1>10, <1>11, <2>1, MergeAddsPieces
<1>13. Len(pending') = Len(kept) /\ Len(kept) \in Nat
  <2>1. Len(kept) \in Nat /\ DOMAIN kept = 1..Len(kept)  BY <1>7
  <2>2. QED  BY <1>10, <2>1 DEF At
<1>14. Total(graph) \in Nat  BY FS_CardinalityType DEF Total
<1>15. Total(graph') + Len(pending') = Total(graph) + Len(work)
  BY <1>4, <1>7, <1>9, <1>12, <1>13, <1>14
<1>16. QED  BY <1>12, <1>13, <1>15

\* What Conservation says of one step.
Conserved ==
  /\ Total(graph') + Len(pending') - stats'.accepted
       = Total(graph) + Len(pending) - stats.accepted
  /\ stats'.received = stats'.accepted + stats'.duplicate
  /\ stats'.pending = Len(pending')

\* The counters agree with one another, and what is counted is finite.
CountersInv ==
  /\ IsFiniteSet(Pieces(graph)) /\ IsFiniteSet(Pieces(graphFile))
  /\ stats.received = stats.accepted + stats.duplicate
  /\ stats.pending = Len(pending)

LEMMA AcceptConserves ==
  ASSUME IInv, CountersInv, NEW e \in Exporters, Accept(e)
  PROVE  CountersInv' /\ Conserved
<1> DEFINE batch == handler[e].batch
           fresh == Fresh(batch)
           fresh2 == {i \in fresh : batch[i].span.key # NoKey}
<1>1. PICK order \in InOrder(fresh), named \in InOrder(fresh2) :
        LET unique == At(batch, order)
            keys   == [n \in DOMAIN named |-> batch[named[n]].span.key]
        IN
          /\ IF unique = <<>>
             THEN UNCHANGED <<contexts, pending, graph, pressure>>
             ELSE Resolve(pending \o unique, Oldest(seenOrder \o keys))
          /\ stats' =
               [requests  |-> stats.requests + 1,
                received  |-> stats.received + Len(batch),
                accepted  |-> stats.accepted + Len(unique),
                duplicate |-> stats.duplicate + (Len(batch) - Len(unique)),
                pending   |-> Len(pending'),
                failed    |-> stats.failed]
  BY DEF Accept
<1> DEFINE unique == At(batch, order)
           keys == [n \in DOMAIN named |-> batch[named[n]].span.key]
           work == pending \o unique
           evicted == Oldest(seenOrder \o keys)
<1>2. TypeOK /\ batch \in Seq(Observations) /\ pending \in Seq(Observations)
  BY DEF IInv, TypeOK
<1>3. unique \in Seq(Observations) /\ Len(unique) \in 0..Len(batch)
  <2> HIDE DEF batch
  <2>1. named \in InOrder({i \in Fresh(batch) : batch[i].span.key # NoKey})
    OBVIOUS
  <2>2. QED  BY <1>2, <2>1, FreshFacts
<1> HIDE DEF keys, unique, batch, fresh, fresh2
<1>4. /\ IF unique = <<>> THEN UNCHANGED <<contexts, pending, graph, pressure>>
                          ELSE Resolve(work, evicted)
      /\ stats'.received = stats.received + Len(batch)
      /\ stats'.accepted = stats.accepted + Len(unique)
      /\ stats'.duplicate = stats.duplicate + (Len(batch) - Len(unique))
      /\ stats'.pending = Len(pending')
  BY <1>1 DEF keys, unique, batch
<1>5. /\ work \in Works /\ Len(work) = Len(pending) + Len(unique)
      /\ Len(pending) \in Nat /\ Len(unique) \in Nat /\ Len(batch) \in Nat
  BY <1>2, <1>3 DEF Works
<1> HIDE DEF work, evicted
<1>6. /\ stats.received \in Nat /\ stats.accepted \in Nat
      /\ stats.duplicate \in Nat
  BY <1>2 DEF TypeOK
<1>7. IsFiniteSet(Pieces(graph)) /\ Total(graph) \in Nat
  BY FS_CardinalityType DEF CountersInv, Total
<1>8. /\ IsFiniteSet(Pieces(graph'))
      /\ Total(graph') \in Nat /\ Len(pending') \in Nat
      /\ Total(graph') + Len(pending')
           = Total(graph) + Len(pending) + Len(unique)
  <2>1. CASE unique = <<>>
    <3>1. graph' = graph /\ pending' = pending /\ Len(unique) = 0  BY <1>4, <2>1
    <3>2. QED  BY <1>5, <1>7, <3>1
  <2>2. CASE unique # <<>>
    <3>1. Resolve(work, evicted)  BY <1>4, <2>2
    <3>2. /\ IsFiniteSet(Pieces(graph')) /\ Len(pending') \in Nat
          /\ Total(graph') + Len(pending') = Total(graph) + Len(work)
      BY <1>2, <1>5, <1>7, <3>1, ResolveConserves
    <3>3. Total(graph') \in Nat  BY <3>2, FS_CardinalityType DEF Total
    <3>4. QED  BY <1>5, <1>7, <3>2, <3>3
  <2>3. QED  BY <2>1, <2>2
<1>9. stats'.received = stats'.accepted + stats'.duplicate
  <2>1. stats.received = stats.accepted + stats.duplicate  BY DEF CountersInv
  <2>2. QED  BY <1>4, <1>5, <1>6, <2>1
<1>10. Conserved
  <2>1. Total(graph') + Len(pending') - stats'.accepted
          = Total(graph) + Len(pending) - stats.accepted
    <3> DEFINE before == Total(graph)
               after == Total(graph')
               accepted == stats.accepted
               accepted2 == stats'.accepted
    <3>1. /\ before \in Nat /\ after \in Nat /\ accepted \in Nat
          /\ accepted2 = accepted + Len(unique)
          /\ after + Len(pending') = before + Len(pending) + Len(unique)
      BY <1>4, <1>6, <1>7, <1>8
    <3> HIDE DEF before, after, accepted, accepted2
    <3>2. after + Len(pending') - accepted2 = before + Len(pending) - accepted
      BY <1>5, <1>8, <3>1
    <3>3. QED  BY <3>2 DEF before, after, accepted, accepted2
  <2>2. QED  BY <1>4, <1>9, <2>1 DEF Conserved
<1>11. graphFile' = graphFile  BY DEF Accept, disk
<1>12. QED  BY <1>4, <1>8, <1>9, <1>10, <1>11 DEF CountersInv

LEMMA NextConserves ==
  ASSUME IInv, CountersInv, [Next]_vars
  PROVE  CountersInv' /\ (restarts' = restarts => Conserved)
<1>1. CASE Restart
  <2>1. restarts' # restarts  BY <1>1 DEF Restart, IInv, TypeOK
  <2>2. /\ graph' = graphFile /\ graphFile' = graphFile
        /\ pending' = <<>> /\ stats' = NoStats
    BY <1>1 DEF Restart, Loaded, disk
  <2>3. QED  BY <2>1, <2>2 DEF CountersInv, NoStats
<1>2. ASSUME \/ graphFile' = graphFile
             \/ graphFile' = graph,
             UNCHANGED <<pending, graph>>,
             \/ stats' = stats
             \/ stats' = [stats EXCEPT !.failed = @ + 1]
      PROVE  CountersInv' /\ Conserved
  <2>1. /\ stats'.received = stats.received /\ stats'.accepted = stats.accepted
        /\ stats'.duplicate = stats.duplicate /\ stats'.pending = stats.pending
    BY <1>2 DEF IInv, TypeOK
  <2>2. graph' = graph /\ pending' = pending  BY <1>2
  <2>3. QED  BY <1>2, <2>1, <2>2 DEF CountersInv, Conserved
<1>3. ASSUME NEW e \in Exporters,
             \/ Receive(e) \/ Refuse(e) \/ ReceiveRead(e)
             \/ WriteGraphFile(e) \/ WriteBOMFile(e) \/ WriteFails(e)
             \/ RecordFailure(e) \/ Serve(e) \/ Served(e)
      PROVE  CountersInv' /\ Conserved
  <2>1. /\ graphFile' = graphFile \/ graphFile' = graph
        /\ UNCHANGED <<pending, graph>>
        /\ stats' = stats \/ stats' = [stats EXCEPT !.failed = @ + 1]
    BY <1>3 DEF Receive, Refuse, ReceiveRead, Send, WriteGraphFile, WriteBOMFile,
                WriteFails, RecordFailure, Serve, Served, memory, disk
  <2>2. QED  BY <1>2, <2>1
<1>4. CASE UNCHANGED vars
  BY <1>2, <1>4 DEF vars, memory, disk
<1>5. ASSUME NEW e \in Exporters, Step(e)  PROVE CountersInv' /\ Conserved
  BY <1>3, <1>5, AcceptConserves DEF Step
<1>6. QED  BY <1>1, <1>4, <1>5 DEF Next

\* Each accepted observation becomes one piece of evidence or waits, in every
\* step of a process, whatever it releases, forces out or refuses.
THEOREM NothingDroppedOrMadeUp == Spec => Conservation
<1>1. Init => CountersInv
  <2> SUFFICES ASSUME Init PROVE CountersInv
    OBVIOUS
  <2>1. /\ pending = <<>> /\ stats = NoStats
        /\ \A e \in Entries : graph[e] = 0 /\ graphFile[e] = 0
    BY DEF Init, NoEvidence
  <2>2. Pieces(graph) = {} /\ Pieces(graphFile) = {}
    BY <2>1 DEF Pieces
  <2>3. QED  BY <2>1, <2>2, FS_EmptySet DEF CountersInv, NoStats
<1>2. IInv /\ CountersInv /\ [Next]_vars => CountersInv'  BY NextConserves
<1>3. ASSUME IInv, CountersInv, [Next]_vars
      PROVE  [restarts' = restarts =>
               /\ Total(graph') + Len(pending') - stats'.accepted
                    = Total(graph) + Len(pending) - stats.accepted
               /\ stats'.received = stats'.accepted + stats'.duplicate
               /\ stats'.pending = Len(pending')]_vars
  BY <1>3, NextConserves DEF Conserved
<1>4. QED  BY <1>1, <1>2, <1>3, Invariance, PTL DEF Spec, Conservation
=============================================================================
