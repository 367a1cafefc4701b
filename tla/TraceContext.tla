---------------------------- MODULE TraceContext ----------------------------
(***************************************************************************)
(* The vocabulary of the live receiver, and the pure part of how it finds  *)
(* the agent a span belongs to: resolveTraceContexts in                    *)
(* internal/collector/receiver.go and the inheritance half of              *)
(* prepareObservations in internal/normalize/context.go.                   *)
(*                                                                         *)
(* A span is a record.  key and parent are the lower-cased                 *)
(* trace-id/span-id pairs of observationKey, NoKey where an identifier is  *)
(* missing; agent is the identity its own attributes carry                 *)
(* (directAgentContext), NoAgent where they carry none; source is the      *)
(* evidence source its payload claims.                                     *)
(***************************************************************************)
EXTENDS Integers, Sequences, FiniteSets

CONSTANTS
  Spans,    \* every span an exporter may send
  Keys,     \* trace-id/span-id pairs
  Agents,   \* explicit agent identities
  Sources,  \* evidence source names
  NoKey,    \* an observation without trace or span identifier
  NoAgent,  \* the empty AgentContext
  Unknown,  \* no trace context is retained for a key
  MaxDedupeItems  \* Config.MaxDedupeItems: bounds window, queue and contexts

ASSUME SpansAssumption ==
  Spans \subseteq [key    : Keys \cup {NoKey},
                   parent : Keys \cup {NoKey},
                   agent  : Agents \cup {NoAgent},
                   source : Sources]

ASSUME NullsAssumption ==
  /\ NoKey \notin Keys
  /\ NoAgent \notin Agents
  /\ Unknown \notin Agents \cup {NoAgent}

ASSUME LimitAssumption == MaxDedupeItems \in Nat \ {0}

\* A trace-id/span-id pair identifies one span.  The receiver relies on it: it
\* drops a second record of a key it remembers without looking at it.
ASSUME SpanIdentity ==
  \A s, t \in Spans : s.key = t.key /\ s.key # NoKey
                        => s.parent = t.parent /\ s.agent = t.agent

-----------------------------------------------------------------------------
\* input.Observation: a span under the source it was accepted for, which is the
\* authenticated source and not the claimed one when the credential is bound.
Observations == [span : Spans, source : Sources]

AgentContexts == Agents \cup {NoAgent}

\* One piece of evidence in the graph: the span, its source and the agent it
\* was attributed to (NoAgent: the service fallback of the normalizer).
Entries == [span : Spans, source : Sources, agent : AgentContexts]

\* The strictly increasing enumeration of a finite set of positions, as the
\* set that holds it: the order in which a Go loop over a slice meets them.
InOrder(S) ==
  {order \in [1..Cardinality(S) -> S] :
     \A i, j \in 1..Cardinality(S) : i < j => order[i] < order[j]}

\* The elements of a sequence at the positions of an enumeration.
At(seq, order) == [i \in DOMAIN order |-> seq[order[i]]]

-----------------------------------------------------------------------------
(***************************************************************************)
(* Finding contexts.  work is the sequence the receiver resolves (what is  *)
(* pending, then what is new) and known the retained context of every key. *)
(***************************************************************************)

\* The work items the first loop of resolveTraceContexts queues: an explicit
\* agent, no parent to wait for, or a parent whose context is known.
Roots(work, known) ==
  {i \in DOMAIN work : \/ work[i].span.agent # NoAgent
                       \/ work[i].span.parent = NoKey
                       \/ known[work[i].span.parent] # Unknown}

\* Mutant: a retained parent context overrides the span's own identity.
ParentFirst(work, known, i) ==
  IF work[i].span.parent = NoKey THEN work[i].span.agent
  ELSE IF known[work[i].span.parent] # Unknown THEN known[work[i].span.parent]
  ELSE work[i].span.agent

RootContext(work, known, i) ==
  IF work[i].span.agent # NoAgent THEN work[i].span.agent
  ELSE IF work[i].span.parent = NoKey THEN NoAgent
  ELSE known[work[i].span.parent]

\* A set of positions that holds every item waiting for one of its members.
ReleaseClosed(work, known, S) ==
  \A i \in DOMAIN work \ Roots(work, known) :
    (\E j \in S : work[j].span.key = work[i].span.parent) => i \in S

\* Mutant: releasing a child does not look for its own children.
ReleasedOneLevel(work, known, root) ==
  {root} \cup {i \in DOMAIN work \ Roots(work, known) :
                 work[i].span.parent = work[root].span.key}

\* What the queue loop releases, directly or through other waiting items, once
\* root has its context: the least closed set that holds it.
Released(work, known, root) ==
  {i \in DOMAIN work :
     \A S \in SUBSET DOMAIN work :
       root \in S /\ ReleaseClosed(work, known, S) => i \in S}

Resolved(work, known) ==
  UNION {Released(work, known, r) : r \in Roots(work, known)}

\* Mutant: a released child is queued without its parent's context.
OwnContextOnly(work, known, i) ==
  IF i \in Roots(work, known) THEN RootContext(work, known, i) ELSE NoAgent

\* Every item released by a root carries the root's context.
ResolvedContext(work, known, i) ==
  LET root == CHOOSE r \in Roots(work, known) : i \in Released(work, known, r)
  IN  RootContext(work, known, root)

\* How many of the oldest items a sequence has beyond the configured limit.
Overflow(seq) ==
  IF Len(seq) > MaxDedupeItems THEN Len(seq) - MaxDedupeItems ELSE 0

Oldest(seq) == {seq[i] : i \in 1..Overflow(seq)}
Newest(seq) == SubSeq(seq, Overflow(seq) + 1, Len(seq))

\* Mutant: what overflows the queue is dropped.
LeavingResolved(work, known, forced) ==
  [i \in Resolved(work, known) |-> ResolvedContext(work, known, i)]

\* The contexts of what leaves the queue: the resolved positions with theirs,
\* and the oldest unresolved ones beyond the limit without any.
Leaving(work, known, forced) ==
  [i \in Resolved(work, known) \cup forced |->
     IF i \in forced THEN NoAgent ELSE ResolvedContext(work, known, i)]

\* Mutant: trimTraceContexts is not called.
LearnUntrimmed(known, work, agent, remembered) ==
  [k \in Keys |->
     LET holders == {i \in DOMAIN agent : work[i].span.key = k} IN
       IF holders # {} THEN agent[CHOOSE i \in holders : TRUE] ELSE known[k]]

\* resolveTraceContexts records the context of what it released, then
\* trimTraceContexts drops what the window no longer remembers.  agent gives the
\* released positions of work their contexts.
Learn(known, work, agent, remembered) ==
  [k \in Keys |->
     LET holders == {i \in DOMAIN agent : work[i].span.key = k} IN
       IF k \notin remembered THEN Unknown
       ELSE IF holders # {} THEN agent[CHOOSE i \in holders : TRUE]
       ELSE known[k]]

-----------------------------------------------------------------------------
(***************************************************************************)
(* Inheritance.  span maps nodes to spans and agent to the identity each   *)
(* one has by itself; a node without one takes that of the nearest         *)
(* ancestor among the nodes that has one, and a parent cycle has none.     *)
(***************************************************************************)

LineageClosed(span, agent, S) ==
  \A n \in S, p \in DOMAIN span :
    /\ agent[n] = NoAgent
    /\ span[n].parent # NoKey
    /\ span[p].key = span[n].parent
    => p \in S

\* The node and the ancestors its identity may come from.
Lineage(span, agent, n) ==
  {m \in DOMAIN span :
     \A S \in SUBSET DOMAIN span :
       n \in S /\ LineageClosed(span, agent, S) => m \in S}

InheritedAgent(span, agent, n) ==
  LET found == {agent[m] : m \in Lineage(span, agent, n)} \ {NoAgent}
  IN  IF found = {} THEN NoAgent ELSE CHOOSE a \in found : TRUE

\* The reference answer: the nearest explicit ancestor-or-self of each span when
\* every span is looked at together.
TrueAgent ==
  [s \in Spans |-> InheritedAgent([t \in Spans |-> t],
                                  [t \in Spans |-> t.agent], s)]
=============================================================================
