------------------------- MODULE ResolveQueueProofs -------------------------
(***************************************************************************)
(* Proof that the loops of resolveTraceContexts compute what the           *)
(* definitions of TraceContext say, for any work, any retained contexts    *)
(* and any limit: the queue releases the least set of waiting items closed *)
(* under "waits for a member", and gives each the context of its root.     *)
(***************************************************************************)
EXTENDS ResolveQueue, FiniteSetTheorems, SequenceTheorems, TLAPS

USE SpansAssumption, NullsAssumption, LimitAssumption

Contexts == AgentContexts \cup {Unknown}
Works == Seq(Observations)
Knowns == [Keys -> Contexts]

-----------------------------------------------------------------------------
(***************************************************************************)
(* What the definitions say.                                               *)
(***************************************************************************)

LEMMA ItemParts ==
  ASSUME NEW w \in Works, NEW i \in DOMAIN w
  PROVE  /\ w[i].span \in Spans
         /\ w[i].span.key \in Keys \cup {NoKey}
         /\ w[i].span.parent \in Keys \cup {NoKey}
         /\ w[i].span.agent \in AgentContexts
<1>1. w[i] \in Observations  BY DEF Works
<1> QED  BY <1>1 DEF Observations, AgentContexts

\* The order of what is left is a sequence without repetition.
LEMMA LeftInOrder ==
  ASSUME NEW S, IsFiniteSet(S), S \subseteq Nat, NEW order \in InOrder(S)
  PROVE  /\ order \in Seq(S) /\ Len(order) \in Nat /\ DOMAIN order = 1..Len(order)
         /\ \A i, j \in DOMAIN order : order[i] = order[j] => i = j
<1>1. Cardinality(S) \in Nat  BY FS_CardinalityType
<1>2. /\ order \in [1..Cardinality(S) -> S]
      /\ \A i, j \in 1..Cardinality(S) : i < j => order[i] < order[j]
  BY DEF InOrder
<1>3. ASSUME NEW i \in DOMAIN order, NEW j \in DOMAIN order, i < j
      PROVE  order[i] # order[j]
  <2>1. order[i] \in Nat /\ order[j] \in Nat /\ order[i] < order[j]  BY <1>2, <1>3
  <2> QED  BY <2>1
<1>4. \A i, j \in DOMAIN order : i = j \/ i < j \/ j < i  BY <1>1, <1>2
<1> QED  BY <1>1, <1>2, <1>3, <1>4

\* Items with one key are alike: both are roots with one context, or neither is.
LEMMA OneKeyOneSpan ==
  ASSUME NEW w \in Works, NEW known, NEW i \in DOMAIN w, NEW j \in DOMAIN w,
         w[i].span.key = w[j].span.key, w[i].span.key # NoKey
  PROVE  /\ w[i].span.parent = w[j].span.parent
         /\ w[i].span.agent = w[j].span.agent
         /\ i \in Roots(w, known) <=> j \in Roots(w, known)
         /\ RootContext(w, known, i) = RootContext(w, known, j)
<1>1. w[i].span \in Spans /\ w[j].span \in Spans  BY ItemParts
<1>2. w[i].span.parent = w[j].span.parent /\ w[i].span.agent = w[j].span.agent
  BY <1>1, SpanIdentity
<1>3. i \in Roots(w, known) <=> j \in Roots(w, known)  BY <1>2 DEF Roots
<1>4. RootContext(w, known, i) = RootContext(w, known, j)  BY <1>2 DEF RootContext
<1> QED  BY <1>2, <1>3, <1>4

\* A root releases itself, whatever waits for what it releases, and nothing else.
LEMMA ReleasedParts ==
  ASSUME NEW w, NEW known, NEW r \in DOMAIN w
  PROVE  /\ r \in Released(w, known, r)
         /\ Released(w, known, r) \subseteq DOMAIN w
         /\ ReleaseClosed(w, known, Released(w, known, r))
         /\ \A i \in Released(w, known, r) :
              \/ i = r
              \/ /\ i \notin Roots(w, known)
                 /\ \E j \in Released(w, known, r) : w[j].span.key = w[i].span.parent
<1> DEFINE R == Released(w, known, r)
<1>1. r \in R /\ R \subseteq DOMAIN w  BY DEF Released
<1>2. ReleaseClosed(w, known, R)
  <2> SUFFICES ASSUME NEW i \in DOMAIN w \ Roots(w, known), NEW j \in R,
                      w[j].span.key = w[i].span.parent,
                      NEW S \in SUBSET DOMAIN w,
                      r \in S, ReleaseClosed(w, known, S)
               PROVE  i \in S
    BY DEF ReleaseClosed, Released
  <2>1. j \in S  BY DEF Released
  <2> QED  BY <2>1 DEF ReleaseClosed
<1>3. ASSUME NEW i \in R, i # r
      PROVE  i \notin Roots(w, known) /\ \E j \in R : w[j].span.key = w[i].span.parent
  <2> DEFINE S == {r} \cup {n \in R \ Roots(w, known) :
                              \E j \in R : w[j].span.key = w[n].span.parent}
  <2>1. S \in SUBSET DOMAIN w /\ r \in S /\ S \subseteq R  BY <1>1
  <2>2. ReleaseClosed(w, known, S)
    <3> SUFFICES ASSUME NEW n \in DOMAIN w \ Roots(w, known), NEW j \in S,
                        w[j].span.key = w[n].span.parent
                 PROVE  n \in S
      BY DEF ReleaseClosed
    <3>1. n \in R  BY <1>2, <2>1 DEF ReleaseClosed
    <3> QED  BY <2>1, <3>1
  <2>3. i \in S
    <3> HIDE DEF S
    <3> QED  BY <1>3, <2>1, <2>2 DEF Released
  <2> QED  BY <1>3, <2>3
<1> QED  BY <1>1, <1>2, <1>3

\* Roots that release one item have one context.
LEMMA OneContext ==
  ASSUME NEW w \in Works, NEW known, NEW r \in Roots(w, known), NEW q \in Roots(w, known),
         NEW i \in Released(w, known, r), i \in Released(w, known, q)
  PROVE  RootContext(w, known, r) = RootContext(w, known, q)
<1> SUFFICES ASSUME RootContext(w, known, r) # RootContext(w, known, q)
             PROVE  FALSE
  OBVIOUS
<1> DEFINE S == Released(w, known, r) \ Released(w, known, q)
<1>1. r \in DOMAIN w /\ q \in DOMAIN w  BY DEF Roots
<1>2. r \in S
  <2>1. r \notin Released(w, known, q)  BY <1>1, ReleasedParts
  <2> QED  BY <1>1, <2>1, ReleasedParts
<1>3. ReleaseClosed(w, known, S)
  <2> SUFFICES ASSUME NEW n \in DOMAIN w \ Roots(w, known), NEW j \in S,
                      w[j].span.key = w[n].span.parent, n \in Released(w, known, q)
               PROVE  FALSE
    BY <1>1, ReleasedParts DEF ReleaseClosed
  <2>1. n # q  OBVIOUS
  <2>2. PICK m \in Released(w, known, q) : w[m].span.key = w[n].span.parent
    BY <1>1, <2>1, ReleasedParts
  <2>3. w[n].span.parent # NoKey  BY DEF Roots
  <2>4. j \in DOMAIN w /\ m \in DOMAIN w  BY <1>1, ReleasedParts
  <2>5. /\ w[m].span.parent = w[j].span.parent
        /\ m \in Roots(w, known) <=> j \in Roots(w, known)
        /\ RootContext(w, known, m) = RootContext(w, known, j)
    BY <2>2, <2>3, <2>4, OneKeyOneSpan
  <2>6. CASE j \in Roots(w, known)
    <3>1. j = r /\ m = q  BY <1>1, <2>5, <2>6, ReleasedParts
    <3> QED  BY <2>5, <3>1
  <2>7. CASE j \notin Roots(w, known)
    <3>1. m # q  BY <2>5, <2>7
    <3>2. PICK p \in Released(w, known, q) : w[p].span.key = w[m].span.parent
      BY <1>1, <3>1, ReleasedParts
    <3>3. j \in Released(w, known, q)
      BY <1>1, <2>4, <2>5, <2>7, <3>2, ReleasedParts DEF ReleaseClosed
    <3> QED  BY <3>3
  <2> QED  BY <2>6, <2>7
<1>4. S \in SUBSET DOMAIN w  BY <1>1, ReleasedParts
<1>5. i \in S
  <2> HIDE DEF S
  <2> QED  BY <1>2, <1>3, <1>4 DEF Released
<1> QED  BY <1>5

\* What leaves is released by a root and has its context.
LEMMA ResolvedParts ==
  ASSUME NEW w, NEW known
  PROVE  /\ Resolved(w, known) \subseteq DOMAIN w
         /\ \A i \in Resolved(w, known) :
              \E r \in Roots(w, known) :
                /\ i \in Released(w, known, r)
                /\ ResolvedContext(w, known, i) = RootContext(w, known, r)
<1>1. Resolved(w, known) \subseteq DOMAIN w  BY DEF Resolved, Released
<1>2. ASSUME NEW i \in Resolved(w, known)
      PROVE  \E r \in Roots(w, known) :
               /\ i \in Released(w, known, r)
               /\ ResolvedContext(w, known, i) = RootContext(w, known, r)
  <2>1. \E r \in Roots(w, known) : i \in Released(w, known, r)
    BY DEF Resolved
  <2> QED  BY <2>1 DEF ResolvedContext
<1> QED  BY <1>1, <1>2

\* A root leaves with its own context.
LEMMA RootIsResolved ==
  ASSUME NEW w \in Works, NEW known \in Knowns, NEW i \in Roots(w, known)
  PROVE  /\ i \in Resolved(w, known)
         /\ ResolvedContext(w, known, i) = RootContext(w, known, i)
         /\ RootContext(w, known, i) \in AgentContexts
<1>1. i \in DOMAIN w  BY DEF Roots
<1>2. i \in Released(w, known, i)  BY <1>1, ReleasedParts
<1>3. i \in Resolved(w, known)  BY <1>2 DEF Resolved
<1>4. PICK r \in Roots(w, known) :
        /\ i \in Released(w, known, r)
        /\ ResolvedContext(w, known, i) = RootContext(w, known, r)
  BY <1>3, ResolvedParts
<1>5. RootContext(w, known, r) = RootContext(w, known, i)
  BY <1>2, <1>4, OneContext
<1>6. RootContext(w, known, i) \in AgentContexts
  <2>1. w[i].span.parent # NoKey /\ w[i].span.agent = NoAgent
          => known[w[i].span.parent] \in AgentContexts
    BY <1>1, ItemParts DEF Roots, Knowns, Contexts
  <2> QED  BY <1>1, <2>1, ItemParts DEF RootContext, AgentContexts
<1> QED  BY <1>3, <1>4, <1>5, <1>6

\* What waits for an item that leaves, leaves with the same context.
LEMMA ChildIsResolved ==
  ASSUME NEW w \in Works, NEW known \in Knowns, NEW j \in Resolved(w, known),
         NEW i \in DOMAIN w \ Roots(w, known), w[j].span.key = w[i].span.parent
  PROVE  /\ i \in Resolved(w, known)
         /\ ResolvedContext(w, known, i) = ResolvedContext(w, known, j)
<1>1. PICK r \in Roots(w, known) :
        /\ j \in Released(w, known, r)
        /\ ResolvedContext(w, known, j) = RootContext(w, known, r)
  BY ResolvedParts
<1>2. r \in DOMAIN w  BY DEF Roots
<1>3. i \in Released(w, known, r)  BY <1>1, <1>2, ReleasedParts DEF ReleaseClosed
<1>4. i \in Resolved(w, known)  BY <1>3 DEF Resolved
<1>5. PICK q \in Roots(w, known) :
        /\ i \in Released(w, known, q)
        /\ ResolvedContext(w, known, i) = RootContext(w, known, q)
  BY <1>4, ResolvedParts
<1>6. RootContext(w, known, q) = RootContext(w, known, r)
  BY <1>3, <1>5, OneContext
<1> QED  BY <1>1, <1>4, <1>5, <1>6

\* Items with one key leave together.
LEMMA OneKeyOneContext ==
  ASSUME NEW w \in Works, NEW known \in Knowns, NEW i \in Resolved(w, known),
         NEW j \in DOMAIN w, w[i].span.key = w[j].span.key, w[i].span.key # NoKey
  PROVE  /\ j \in Resolved(w, known)
         /\ ResolvedContext(w, known, j) = ResolvedContext(w, known, i)
<1>1. i \in DOMAIN w  BY ResolvedParts
<1>2. /\ w[i].span.parent = w[j].span.parent
      /\ i \in Roots(w, known) <=> j \in Roots(w, known)
      /\ RootContext(w, known, i) = RootContext(w, known, j)
  BY <1>1, OneKeyOneSpan
<1>3. CASE i \in Roots(w, known)
  BY <1>2, <1>3, RootIsResolved
<1>4. CASE i \notin Roots(w, known)
  <2>1. PICK r \in Roots(w, known) : i \in Released(w, known, r)
    BY ResolvedParts
  <2>2. r \in DOMAIN w /\ i # r  BY <1>4, <2>1 DEF Roots
  <2>3. PICK p \in Released(w, known, r) : w[p].span.key = w[i].span.parent
    BY <2>1, <2>2, ReleasedParts
  <2>4. p \in Resolved(w, known)  BY <2>3 DEF Resolved
  <2>5. /\ ResolvedContext(w, known, i) = ResolvedContext(w, known, p)
        /\ j \in Resolved(w, known)
        /\ ResolvedContext(w, known, j) = ResolvedContext(w, known, p)
    BY <1>1, <1>2, <1>4, <2>3, <2>4, ChildIsResolved
  <2> QED  BY <2>5
<1> QED  BY <1>3, <1>4

\* Nothing else leaves: a closed set with all roots holds all that is resolved.
LEMMA ResolvedIsLeast ==
  ASSUME NEW w, NEW known, NEW S \in SUBSET DOMAIN w,
         Roots(w, known) \subseteq S, ReleaseClosed(w, known, S)
  PROVE  Resolved(w, known) \subseteq S
BY DEF Resolved, Released

-----------------------------------------------------------------------------
(***************************************************************************)
(* The invariant of the loops.                                             *)
(***************************************************************************)
QueueItems == [index : DOMAIN work, context : AgentContexts]

QueueType ==
  /\ work \in Works /\ before \in Knowns /\ contexts \in Knowns
  /\ index \in 1..(Len(work) + 2)
  /\ waitingByParent \in [Keys -> Seq(Nat)]
  /\ queue \in Seq(QueueItems) /\ queueIndex \in 1..(Len(queue) + 1)
  /\ ready \in Seq(QueueItems)

KeyOf(n) == work[queue[n].index].span.key

\* The item i has been queued.
Queued(i) == \E n \in DOMAIN queue : queue[n].index = i

\* What was released is what was taken from the queue, in order.
ReadyIsPrefix ==
  /\ Len(ready) = queueIndex - 1
  /\ \A n \in 1..(queueIndex - 1) : ready[n] = queue[n]

\* An item is queued once, so the queue loop never meets one that it has released.
QueuedOnce ==
  \A m, n \in DOMAIN queue : queue[m].index = queue[n].index => m = n

\* What is queued leaves, with the context it is queued with.
QueuedRight ==
  \A n \in DOMAIN queue :
    /\ queue[n].index < index
    /\ queue[n].index \in Resolved(work, before)
    /\ queue[n].context = ResolvedContext(work, before, queue[n].index)

\* What is filed under a key waits for it, is not queued and is filed once.
FiledRight ==
  \A k \in Keys : \A n \in DOMAIN waitingByParent[k] :
    /\ waitingByParent[k][n] \in DOMAIN work \ Roots(work, before)
    /\ waitingByParent[k][n] < index
    /\ work[waitingByParent[k][n]].span.parent = k
    /\ ~Queued(waitingByParent[k][n])
    /\ \A m \in DOMAIN waitingByParent[k] :
         waitingByParent[k][m] = waitingByParent[k][n] => m = n

\* What was looked at is queued, or filed under its parent.
NothingLost ==
  \A i \in DOMAIN work :
    i < index =>
      \/ Queued(i)
      \/ /\ i \notin Roots(work, before)
         /\ \E n \in DOMAIN waitingByParent[work[i].span.parent] :
              waitingByParent[work[i].span.parent][n] = i

\* Nothing stays filed under the key of an item that was released.
ChildrenTaken ==
  \A n \in 1..(queueIndex - 1) :
    KeyOf(n) # NoKey => waitingByParent[KeyOf(n)] = <<>>

\* A released item's context is retained, and nothing else is.
ContextsFollow ==
  /\ \A n \in 1..(queueIndex - 1) :
       KeyOf(n) # NoKey => contexts[KeyOf(n)] = queue[n].context
  /\ \A k \in Keys :
       contexts[k] = before[k] \/ \E n \in 1..(queueIndex - 1) : KeyOf(n) = k

ScanComesFirst == index <= Len(work) => queueIndex = 1

Looping ==
  /\ ReadyIsPrefix /\ QueuedOnce /\ QueuedRight /\ FiledRight /\ NothingLost
  /\ ChildrenTaken /\ ContextsFollow /\ ScanComesFirst

\* What a finished round has to have computed, of the work w and the contexts b: the
\* items r that leave, the contexts c and the items p that stay.
Matched(w, b, r, c, p) ==
  \E waiting \in InOrder(DOMAIN w \ Resolved(w, b)) :
    LET agent == Leaving(w, b, Oldest(waiting)) IN
      /\ {Item(i, agent[i]) : i \in DOMAIN agent} = {r[n] : n \in DOMAIN r}
      /\ Len(r) = Cardinality(DOMAIN agent)
      /\ c = Learn(b, w, agent, Keys)
      /\ p = At(w, Newest(waiting))

Inv ==
  /\ QueueType
  /\ index < Len(work) + 2 => Looping
  /\ index = Len(work) + 2 =>
       queueIndex = Len(queue) + 1 /\ Matched(work, before, ready, contexts, pending)

LEMMA InitInv == Init => Inv
<1> SUFFICES ASSUME Init PROVE Inv  OBVIOUS
<1> USE ResolveQueueAssumption
<1>1. work \in Works
  <2>1. PICK n \in 0..MaxWork :
          work \in [1..n -> {o \in Observations : o.source = o.span.source}]
    BY DEF Init
  <2>2. n \in Nat /\ work \in [1..n -> Observations]  BY <2>1
  <2> QED  BY <2>2 DEF Works
<1>2. Len(work) \in Nat  BY <1>1 DEF Works
<1>3. before \in Knowns /\ contexts = before
  BY DEF Init, Knowns, Contexts
<1>4. /\ index = 1 /\ queueIndex = 1 /\ queue = <<>> /\ ready = <<>>
      /\ waitingByParent = [k \in Keys |-> <<>>]
  BY DEF Init
<1>5. QueueType  BY <1>1, <1>2, <1>3, <1>4 DEF QueueType
<1>6. \A k \in Keys : DOMAIN waitingByParent[k] = {}  BY <1>4
<1>7. Looping
  <2>1. ReadyIsPrefix /\ QueuedOnce /\ QueuedRight
    BY <1>4 DEF ReadyIsPrefix, QueuedOnce, QueuedRight
  <2>2. FiledRight  BY <1>6 DEF FiledRight
  <2>3. NothingLost
    <3>1. \A i \in DOMAIN work : ~(i < index)  BY <1>1, <1>4 DEF Works
    <3> QED  BY <3>1 DEF NothingLost
  <2>4. ChildrenTaken /\ ContextsFollow /\ ScanComesFirst
    BY <1>3, <1>4 DEF ChildrenTaken, ContextsFollow, ScanComesFirst
  <2> QED  BY <2>1, <2>2, <2>3, <2>4 DEF Looping
<1> QED  BY <1>2, <1>4, <1>5, <1>7 DEF Inv

\* What the phases say of the loop variables.
LEMMA Phases ==
  ASSUME QueueType
  PROVE  /\ Len(work) \in Nat /\ Len(queue) \in Nat /\ index \in Nat /\ queueIndex \in Nat
         /\ Phase = "scan" => index <= Len(work) /\ index \in DOMAIN work
         /\ Phase = "drain" => index > Len(work) /\ queueIndex \in DOMAIN queue
         /\ Phase = "cut" => index = Len(work) + 1 /\ queueIndex = Len(queue) + 1
         /\ Phase = "done" => index = Len(work) + 2
<1>1. Len(work) \in Nat /\ Len(queue) \in Nat /\ index \in Nat /\ queueIndex \in Nat
      /\ DOMAIN work = 1..Len(work) /\ DOMAIN queue = 1..Len(queue)
      /\ index \in 1..(Len(work) + 2) /\ queueIndex \in 1..(Len(queue) + 1)
  BY DEF QueueType, Works
<1> QED  BY <1>1 DEF Phase

\* The next of a sequence and one more.
LEMMA Appended ==
  ASSUME NEW T, NEW seq \in Seq(T), NEW x \in T
  PROVE  /\ Append(seq, x) \in Seq(T)
         /\ Len(Append(seq, x)) = Len(seq) + 1
         /\ DOMAIN seq = 1..Len(seq)
         /\ DOMAIN Append(seq, x) = 1..(Len(seq) + 1)
         /\ \A n \in DOMAIN seq : Append(seq, x)[n] = seq[n]
         /\ Append(seq, x)[Len(seq) + 1] = x
         /\ Len(seq) \in Nat
OBVIOUS

-----------------------------------------------------------------------------
(***************************************************************************)
(* The steps.                                                              *)
(***************************************************************************)

\* The scan queues a root with its context.
LEMMA ScanQueuesInv ==
  ASSUME Inv, ScanQueues
  PROVE  Inv'
<1>1. QueueType /\ Phase = "scan"  BY DEF Inv, ScanQueues
<1>2. /\ Len(work) \in Nat /\ Len(queue) \in Nat /\ index \in Nat /\ queueIndex \in Nat
      /\ index <= Len(work) /\ index \in DOMAIN work
  BY <1>1, Phases
<1>3. Looping /\ queueIndex = 1
  BY <1>2 DEF Inv, Looping, ScanComesFirst
<1>4. work \in Works /\ before \in Knowns /\ contexts \in Knowns
  BY <1>1 DEF QueueType
<1>5. contexts = before
  <2>1. \A k \in Keys : contexts[k] = before[k]
    BY <1>3 DEF Looping, ContextsFollow
  <2> QED  BY <1>4, <2>1 DEF Knowns
<1> DEFINE span == work[index].span
           context == RootContext(work, before, index)
<1>6. index \in Roots(work, before) /\ Enqueue(context)
  <2>1. \/ span.agent # NoAgent /\ Enqueue(span.agent)
        \/ span.agent = NoAgent /\ span.parent = NoKey /\ Enqueue(NoAgent)
        \/ /\ span.agent = NoAgent /\ span.parent # NoKey
           /\ before[span.parent] # Unknown
           /\ Enqueue(before[span.parent])
    BY <1>5 DEF ScanQueues
  <2> QED  BY <1>2, <2>1 DEF Roots, RootContext
<1>7. /\ index \in Resolved(work, before)
      /\ ResolvedContext(work, before, index) = context
      /\ context \in AgentContexts
  BY <1>4, <1>6, RootIsResolved
<1>8. /\ index' = index + 1 /\ queue' = Append(queue, Item(index, context))
      /\ UNCHANGED <<work, before, contexts, waitingByParent, queueIndex, ready, pending>>
  BY <1>6 DEF ScanQueues, Enqueue
<1> HIDE DEF context
<1>9. Item(index, context) \in QueueItems
  BY <1>2, <1>7 DEF Item, QueueItems
<1>10. /\ queue' \in Seq(QueueItems)
       /\ Len(queue') = Len(queue) + 1
       /\ DOMAIN queue = 1..Len(queue) /\ DOMAIN queue' = 1..(Len(queue) + 1)
       /\ \A n \in DOMAIN queue : queue'[n] = queue[n]
       /\ queue'[Len(queue) + 1] = Item(index, context)
  BY <1>1, <1>8, <1>9, Appended DEF QueueType
<1>11. QueueItems' = QueueItems  BY <1>8 DEF QueueItems
<1>12. QueueType'
  BY <1>1, <1>2, <1>3, <1>8, <1>10, <1>11 DEF QueueType
<1>13. \A n \in DOMAIN queue' :
         \/ n \in DOMAIN queue /\ queue'[n] = queue[n]
         \/ n = Len(queue) + 1 /\ queue'[n].index = index /\ queue'[n].context = context
  BY <1>2, <1>10 DEF Item
<1>14. \A n \in DOMAIN queue : queue[n].index < index /\ queue[n].index \in Nat
  <2> SUFFICES ASSUME NEW n \in DOMAIN queue
               PROVE  queue[n].index < index /\ queue[n].index \in Nat
    OBVIOUS
  <2>1. queue[n].index < index  BY <1>3 DEF Looping, QueuedRight
  <2>2. queue[n] \in QueueItems  BY <1>1 DEF QueueType
  <2>3. queue[n].index \in DOMAIN work  BY <2>2 DEF QueueItems
  <2> QED  BY <1>4, <2>1, <2>3 DEF Works
<1>15. \A i : Queued(i)' <=> Queued(i) \/ i = index
  <2>1. \A n \in DOMAIN queue : n \in DOMAIN queue'  BY <1>2, <1>10
  <2>2. Len(queue) + 1 \in DOMAIN queue'  BY <1>2, <1>10
  <2> QED  BY <1>10, <1>13, <2>1, <2>2 DEF Queued, Item
<1>16. ReadyIsPrefix'
  BY <1>3, <1>8 DEF Looping, ReadyIsPrefix
<1>17. QueuedOnce'
  <2> SUFFICES ASSUME NEW m \in DOMAIN queue', NEW n \in DOMAIN queue',
                      queue'[m].index = queue'[n].index
               PROVE  m = n
    BY DEF QueuedOnce
  <2> QED  BY <1>2, <1>3, <1>13, <1>14 DEF Looping, QueuedOnce
<1>18. QueuedRight'
  <2> SUFFICES ASSUME NEW n \in DOMAIN queue'
               PROVE  /\ queue'[n].index < index'
                      /\ queue'[n].index \in Resolved(work, before)
                      /\ queue'[n].context = ResolvedContext(work, before, queue'[n].index)
    BY <1>8 DEF QueuedRight
  <2>1. CASE n \in DOMAIN queue /\ queue'[n] = queue[n]
    <3>1. queue[n].index < index + 1  BY <1>2, <1>14, <2>1
    <3> QED  BY <1>3, <1>8, <2>1, <3>1 DEF Looping, QueuedRight
  <2>2. CASE queue'[n].index = index /\ queue'[n].context = context
    <3>1. index < index + 1  BY <1>2
    <3> QED  BY <1>7, <1>8, <2>2, <3>1
  <2> QED  BY <1>13, <2>1, <2>2
<1>19. FiledRight'
  <2> SUFFICES ASSUME NEW k \in Keys, NEW n \in DOMAIN waitingByParent[k]
               PROVE  /\ waitingByParent[k][n] \in DOMAIN work \ Roots(work, before)
                      /\ waitingByParent[k][n] < index'
                      /\ work[waitingByParent[k][n]].span.parent = k
                      /\ ~Queued(waitingByParent[k][n])'
                      /\ \A m \in DOMAIN waitingByParent[k] :
                           waitingByParent[k][m] = waitingByParent[k][n] => m = n
    BY <1>8 DEF FiledRight
  <2>1. PICK i : i = waitingByParent[k][n]  OBVIOUS
  <2>2. /\ i \in DOMAIN work \ Roots(work, before) /\ i < index
        /\ work[i].span.parent = k /\ ~Queued(i)
        /\ \A m \in DOMAIN waitingByParent[k] : waitingByParent[k][m] = i => m = n
    BY <1>3, <2>1 DEF Looping, FiledRight
  <2>3. i \in Nat  BY <1>4, <2>2 DEF Works
  <2>4. i # index  BY <1>2, <2>2, <2>3
  <2>5. ~Queued(i)'  BY <1>15, <2>2, <2>4
  <2>6. i < index'  BY <1>2, <1>8, <2>2, <2>3
  <2>7. ~Queued(waitingByParent[k][n])'  BY <1>8, <2>1, <2>5
  <2> QED  BY <2>1, <2>2, <2>6, <2>7
<1>20. NothingLost'
  <2> SUFFICES ASSUME NEW i \in DOMAIN work, i < index'
               PROVE  \/ Queued(i)'
                      \/ /\ i \notin Roots(work, before)
                         /\ \E n \in DOMAIN waitingByParent[work[i].span.parent] :
                              waitingByParent[work[i].span.parent][n] = i
    BY <1>8 DEF NothingLost
  <2>1. i < index \/ i = index  BY <1>2, <1>4, <1>8 DEF Works
  <2> QED  BY <1>3, <1>15, <2>1 DEF Looping, NothingLost
<1>21. ChildrenTaken' /\ ContextsFollow' /\ ScanComesFirst'
  BY <1>2, <1>3, <1>5, <1>8
  DEF ChildrenTaken, ContextsFollow, ScanComesFirst
<1>22. index' < Len(work') + 2  BY <1>2, <1>8
<1>23. Looping'
  BY <1>16, <1>17, <1>18, <1>19, <1>20, <1>21 DEF Looping
<1>24. ~(index' = Len(work') + 2)  BY <1>2, <1>8
<1> QED  BY <1>12, <1>23, <1>24 DEF Inv

\* The scan files an item under a parent it does not know.
LEMMA ScanWaitsInv ==
  ASSUME Inv, ScanWaits
  PROVE  Inv'
<1>1. QueueType /\ Phase = "scan"  BY DEF Inv, ScanWaits
<1>2. /\ Len(work) \in Nat /\ Len(queue) \in Nat /\ index \in Nat /\ queueIndex \in Nat
      /\ index <= Len(work) /\ index \in DOMAIN work
  BY <1>1, Phases
<1>3. Looping /\ queueIndex = 1
  BY <1>2 DEF Inv, Looping, ScanComesFirst
<1>4. work \in Works /\ before \in Knowns /\ contexts \in Knowns
  BY <1>1 DEF QueueType
<1>5. contexts = before
  <2>1. \A k \in Keys : contexts[k] = before[k]
    BY <1>3 DEF Looping, ContextsFollow
  <2> QED  BY <1>4, <2>1 DEF Knowns
<1> DEFINE parent == work[index].span.parent
<1>6. parent \in Keys /\ index \notin Roots(work, before)
  <2>1. work[index].span.parent \in Keys \cup {NoKey}
    BY <1>2, <1>4, ItemParts
  <2> QED  BY <1>5, <2>1 DEF ScanWaits, Roots
<1>7. /\ index' = index + 1
      /\ waitingByParent' = [waitingByParent EXCEPT ![parent] = Append(@, index)]
      /\ UNCHANGED <<work, before, contexts, queue, queueIndex, ready, pending>>
  BY DEF ScanWaits
<1> HIDE DEF parent
<1>8. waitingByParent \in [Keys -> Seq(Nat)]  BY <1>1 DEF QueueType
<1>9. /\ \A k \in Keys \ {parent} : waitingByParent'[k] = waitingByParent[k]
      /\ waitingByParent'[parent] = Append(waitingByParent[parent], index)
      /\ waitingByParent[parent] \in Seq(Nat)
  BY <1>6, <1>7, <1>8
<1>10. /\ waitingByParent'[parent] \in Seq(Nat)
       /\ DOMAIN waitingByParent[parent] = 1..Len(waitingByParent[parent])
       /\ DOMAIN waitingByParent'[parent] = 1..(Len(waitingByParent[parent]) + 1)
       /\ \A n \in DOMAIN waitingByParent[parent] :
            waitingByParent'[parent][n] = waitingByParent[parent][n]
       /\ waitingByParent'[parent][Len(waitingByParent[parent]) + 1] = index
       /\ Len(waitingByParent[parent]) \in Nat
  BY <1>2, <1>9, Appended
<1>11. waitingByParent' \in [Keys -> Seq(Nat)]
  BY <1>6, <1>7, <1>8, <1>9, <1>10
<1>12. QueueType'
  <2>1. QueueItems' = QueueItems  BY <1>7 DEF QueueItems
  <2> QED  BY <1>1, <1>2, <1>7, <1>11, <2>1 DEF QueueType
<1>13. \A k \in Keys : \A n \in DOMAIN waitingByParent'[k] :
         \/ n \in DOMAIN waitingByParent[k] /\ waitingByParent'[k][n] = waitingByParent[k][n]
         \/ /\ k = parent /\ n = Len(waitingByParent[parent]) + 1
            /\ waitingByParent'[k][n] = index
  <2> SUFFICES ASSUME NEW k \in Keys, NEW n \in DOMAIN waitingByParent'[k]
               PROVE  \/ n \in DOMAIN waitingByParent[k]
                         /\ waitingByParent'[k][n] = waitingByParent[k][n]
                      \/ /\ k = parent /\ n = Len(waitingByParent[parent]) + 1
                         /\ waitingByParent'[k][n] = index
    OBVIOUS
  <2>1. CASE k # parent  BY <1>9, <2>1
  <2>2. CASE k = parent
    <3> DEFINE l == Len(waitingByParent[parent])
    <3>1. l \in Nat /\ n \in 1..(l + 1)  BY <1>10, <2>2
    <3>2. n \in 1..l \/ n = l + 1
      <4> HIDE DEF l
      <4> QED  BY <3>1
    <3> QED  BY <1>10, <2>2, <3>2
  <2> QED  BY <2>1, <2>2
<1>14. \A k \in Keys : \A n \in DOMAIN waitingByParent[k] :
         /\ n \in DOMAIN waitingByParent'[k]
         /\ waitingByParent'[k][n] = waitingByParent[k][n]
         /\ waitingByParent[k][n] \in Nat /\ waitingByParent[k][n] < index
  <2> SUFFICES ASSUME NEW k \in Keys, NEW n \in DOMAIN waitingByParent[k]
               PROVE  /\ n \in DOMAIN waitingByParent'[k]
                      /\ waitingByParent'[k][n] = waitingByParent[k][n]
                      /\ waitingByParent[k][n] \in Nat /\ waitingByParent[k][n] < index
    OBVIOUS
  <2>1. n \in DOMAIN waitingByParent'[k] /\ waitingByParent'[k][n] = waitingByParent[k][n]
    BY <1>9, <1>10
  <2>2. waitingByParent[k] \in Seq(Nat)  BY <1>8
  <2>3. waitingByParent[k][n] \in Nat  BY <2>2
  <2>4. waitingByParent[k][n] < index  BY <1>3 DEF Looping, FiledRight
  <2> QED  BY <2>1, <2>3, <2>4
<1>15. ~Queued(index)
  <2> SUFFICES ASSUME NEW n \in DOMAIN queue, queue[n].index = index PROVE FALSE
    BY DEF Queued
  <2>1. index < index  BY <1>3 DEF Looping, QueuedRight
  <2> QED  BY <1>2, <2>1
<1>16. \A i : Queued(i)' <=> Queued(i)  BY <1>7 DEF Queued
<1>17. ReadyIsPrefix' /\ QueuedOnce'
  BY <1>3, <1>7 DEF Looping, ReadyIsPrefix, QueuedOnce
<1>18. QueuedRight'
  <2> SUFFICES ASSUME NEW n \in DOMAIN queue
               PROVE  /\ queue[n].index < index'
                      /\ queue[n].index \in Resolved(work, before)
                      /\ queue[n].context = ResolvedContext(work, before, queue[n].index)
    BY <1>7 DEF QueuedRight
  <2>1. /\ queue[n].index < index
        /\ queue[n].index \in Resolved(work, before)
        /\ queue[n].context = ResolvedContext(work, before, queue[n].index)
    BY <1>3 DEF Looping, QueuedRight
  <2>2. queue[n].index \in Nat
    <3>1. queue[n].index \in DOMAIN work  BY <1>4, <2>1, ResolvedParts
    <3> QED  BY <1>4, <3>1 DEF Works
  <2> QED  BY <1>2, <1>7, <2>1, <2>2
<1>19. FiledRight'
  <2> SUFFICES ASSUME NEW k \in Keys, NEW n \in DOMAIN waitingByParent'[k]
               PROVE  /\ waitingByParent'[k][n] \in DOMAIN work \ Roots(work, before)
                      /\ waitingByParent'[k][n] < index'
                      /\ work[waitingByParent'[k][n]].span.parent = k
                      /\ ~Queued(waitingByParent[k][n])'
                      /\ \A m \in DOMAIN waitingByParent'[k] :
                           waitingByParent'[k][m] = waitingByParent'[k][n] => m = n
    BY <1>7 DEF FiledRight
  <2>1. PICK i : i = waitingByParent'[k][n]  OBVIOUS
  <2>2. CASE n \in DOMAIN waitingByParent[k] /\ i = waitingByParent[k][n]
    <3>1. /\ i \in DOMAIN work \ Roots(work, before) /\ i < index
          /\ work[i].span.parent = k /\ ~Queued(i)
          /\ \A m \in DOMAIN waitingByParent[k] : waitingByParent[k][m] = i => m = n
      BY <1>3, <2>2 DEF Looping, FiledRight
    <3>2. i \in Nat /\ i # index  BY <1>2, <1>14, <2>2
    <3>3. i < index'  BY <1>2, <1>7, <3>1, <3>2
    <3>4. ~Queued(i)'  BY <1>16, <3>1
    <3>5. ~Queued(waitingByParent[k][n])'  BY <2>1, <3>4
    <3>6. \A m \in DOMAIN waitingByParent'[k] : waitingByParent'[k][m] = i => m = n
      BY <1>13, <3>1, <3>2
    <3> QED  BY <2>1, <3>1, <3>3, <3>5, <3>6
  <2>3. CASE k = parent /\ n = Len(waitingByParent[parent]) + 1 /\ i = index
    <3>1. ~Queued(i)'  BY <1>15, <1>16, <2>3
    <3>2. ~Queued(waitingByParent[k][n])'  BY <2>1, <3>1
    <3>3. i < index'  BY <1>2, <1>7, <2>3
    <3>4. \A m \in DOMAIN waitingByParent'[k] : waitingByParent'[k][m] = i => m = n
      BY <1>2, <1>13, <1>14, <2>3
    <3> QED  BY <1>2, <1>6, <2>1, <2>3, <3>2, <3>3, <3>4 DEF parent
  <2> QED  BY <1>13, <2>1, <2>2, <2>3
<1>20. NothingLost'
  <2> SUFFICES ASSUME NEW i \in DOMAIN work, i < index'
               PROVE  \/ Queued(i)'
                      \/ /\ i \notin Roots(work, before)
                         /\ \E n \in DOMAIN waitingByParent'[work[i].span.parent] :
                              waitingByParent'[work[i].span.parent][n] = i
    BY <1>7 DEF NothingLost
  <2>1. i < index \/ i = index  BY <1>2, <1>4, <1>7 DEF Works
  <2>2. CASE i = index
    <3>1. Len(waitingByParent[parent]) + 1 \in DOMAIN waitingByParent'[parent]
      BY <1>10
    <3> QED  BY <1>6, <1>10, <2>2, <3>1 DEF parent
  <2>3. CASE i < index /\ ~Queued(i)
    <3>1. /\ i \notin Roots(work, before)
          /\ \E n \in DOMAIN waitingByParent[work[i].span.parent] :
               waitingByParent[work[i].span.parent][n] = i
      BY <1>3, <2>3 DEF Looping, NothingLost
    <3>2. work[i].span.parent \in Keys
      BY <1>4, <3>1, ItemParts DEF Roots
    <3> QED  BY <1>14, <3>1, <3>2
  <2> QED  BY <1>16, <2>1, <2>2, <2>3
<1>21. ChildrenTaken' /\ ContextsFollow' /\ ScanComesFirst'
  BY <1>2, <1>3, <1>5, <1>7
  DEF ChildrenTaken, ContextsFollow, ScanComesFirst
<1>22. Looping'
  BY <1>17, <1>18, <1>19, <1>20, <1>21 DEF Looping
<1>23. ~(index' = Len(work') + 2)  BY <1>2, <1>7
<1> QED  BY <1>12, <1>22, <1>23 DEF Inv

\* The queue loop never meets an item again: what it takes is released.
LEMMA DrainTakes ==
  ASSUME Inv, Drain
  PROVE  LET item == queue[queueIndex]
             key  == work[item.index].span.key
             children == waitingByParent[key]
         IN
           /\ queueIndex' = queueIndex + 1
           /\ ready' = Append(ready, item)
           /\ IF key = NoKey
              THEN UNCHANGED <<contexts, waitingByParent, queue>>
              ELSE /\ contexts' = [contexts EXCEPT ![key] = item.context]
                   /\ queue' = queue \o [n \in DOMAIN children |->
                                           Item(children[n], item.context)]
                   /\ waitingByParent' = [waitingByParent EXCEPT ![key] = <<>>]
           /\ UNCHANGED <<work, before, index, pending>>
<1>1. QueueType /\ Phase = "drain"  BY DEF Inv, Drain
<1>2. /\ index > Len(work) /\ queueIndex \in DOMAIN queue /\ queueIndex \in Nat
      /\ index \in Nat /\ Len(work) \in Nat /\ Len(queue) \in Nat
  BY <1>1, Phases
<1>3. index < Len(work) + 2
  <2>1. index \in 1..(Len(work) + 2)  BY <1>1 DEF QueueType
  <2>2. queueIndex # Len(queue) + 1  BY <1>1, <1>2 DEF QueueType
  <2> QED  BY <1>2, <2>1, <2>2 DEF Inv
<1>4. Looping  BY <1>3 DEF Inv
<1>5. queue[queueIndex].index \notin resolved
  <2> SUFFICES ASSUME NEW n \in DOMAIN ready,
                      ready[n].index = queue[queueIndex].index
               PROVE  FALSE
    BY DEF resolved
  <2>1. /\ Len(ready) = queueIndex - 1
        /\ \A m \in 1..(queueIndex - 1) : ready[m] = queue[m]
    BY <1>4 DEF Looping, ReadyIsPrefix
  <2>2. n \in 1..(queueIndex - 1)  BY <1>1, <2>1 DEF QueueType
  <2>3. n \in DOMAIN queue /\ n # queueIndex
    BY <1>1, <1>2, <2>2 DEF QueueType
  <2> QED  BY <1>2, <1>4, <2>1, <2>2, <2>3 DEF Looping, QueuedOnce
<1> QED  BY <1>5 DEF Drain, Take

\* What stays true of the released items when one more is taken.
LEMMA DrainReady ==
  ASSUME Looping, QueueType, queueIndex \in DOMAIN queue,
         queueIndex' = queueIndex + 1, ready' = Append(ready, queue[queueIndex]),
         \A n \in DOMAIN queue : queue'[n] = queue[n],
         UNCHANGED work
  PROVE  ReadyIsPrefix' /\ ready' \in Seq(QueueItems)
<1>1. queueIndex \in Nat /\ DOMAIN queue = 1..Len(queue) /\ Len(queue) \in Nat
      /\ queueIndex >= 1
  BY DEF QueueType
<1>2. /\ Len(ready) = queueIndex - 1
      /\ \A m \in 1..(queueIndex - 1) : ready[m] = queue[m]
  BY DEF Looping, ReadyIsPrefix
<1>3. queue[queueIndex] \in QueueItems /\ ready \in Seq(QueueItems)
  BY DEF QueueType
<1>4. /\ ready' \in Seq(QueueItems) /\ Len(ready') = Len(ready) + 1
      /\ DOMAIN ready = 1..Len(ready)
      /\ \A n \in DOMAIN ready : ready'[n] = ready[n]
      /\ ready'[Len(ready) + 1] = queue[queueIndex]
  BY <1>3, Appended
<1>5. Len(ready') = queueIndex' - 1  BY <1>1, <1>2, <1>4
<1>6. ASSUME NEW n \in 1..(queueIndex' - 1) PROVE ready'[n] = queue'[n]
  <2>1. n \in 1..(queueIndex - 1) \/ n = queueIndex  BY <1>1
  <2>2. n \in DOMAIN queue  BY <1>1
  <2> QED  BY <1>1, <1>2, <1>4, <2>1, <2>2
<1> QED  BY <1>4, <1>5, <1>6 DEF ReadyIsPrefix

\* An item without a key has no children to release.
LEMMA DrainUnkeyed ==
  ASSUME Inv, Drain, KeyOf(queueIndex) = NoKey
  PROVE  Inv'
<1>1. QueueType /\ Phase = "drain"  BY DEF Inv, Drain
<1>2. /\ index > Len(work) /\ queueIndex \in DOMAIN queue /\ queueIndex \in Nat
      /\ index \in Nat /\ Len(work) \in Nat /\ Len(queue) \in Nat
      /\ DOMAIN queue = 1..Len(queue)
  BY <1>1, Phases DEF QueueType
<1>3. index < Len(work) + 2
  <2>1. index \in 1..(Len(work) + 2)  BY <1>1 DEF QueueType
  <2>2. queueIndex # Len(queue) + 1  BY <1>1, <1>2 DEF QueueType
  <2> QED  BY <1>2, <2>1, <2>2 DEF Inv
<1>4. Looping  BY <1>3 DEF Inv
<1>5. /\ queueIndex' = queueIndex + 1 /\ ready' = Append(ready, queue[queueIndex])
      /\ UNCHANGED <<contexts, waitingByParent, queue, work, before, index, pending>>
  BY DrainTakes DEF KeyOf
<1>6. ReadyIsPrefix' /\ ready' \in Seq(QueueItems)
  BY <1>1, <1>2, <1>4, <1>5, DrainReady
<1>7. QueueType'
  <2>1. QueueItems' = QueueItems  BY <1>5 DEF QueueItems
  <2> QED  BY <1>1, <1>2, <1>5, <1>6, <2>1 DEF QueueType
<1>8. \A n \in 1..(queueIndex' - 1) : n \in 1..(queueIndex - 1) \/ n = queueIndex
  BY <1>2, <1>5
<1>9. \A n \in 1..(queueIndex - 1) : n \in 1..(queueIndex' - 1)
  BY <1>2, <1>5
<1>10. \A i : Queued(i)' <=> Queued(i)  BY <1>5 DEF Queued
<1>11. QueuedOnce' /\ QueuedRight'
  BY <1>4, <1>5 DEF Looping, QueuedOnce, QueuedRight
<1>12. FiledRight' /\ NothingLost'
  BY <1>4, <1>5, <1>10 DEF Looping, FiledRight, NothingLost, Queued
<1>13. \A n : KeyOf(n)' = KeyOf(n)  BY <1>5 DEF KeyOf
<1>14. ChildrenTaken'
  <2> SUFFICES ASSUME NEW n \in 1..(queueIndex' - 1), KeyOf(n) # NoKey
               PROVE  waitingByParent[KeyOf(n)] = <<>>
    BY <1>5, <1>13 DEF ChildrenTaken
  <2>1. n \in 1..(queueIndex - 1)  BY <1>8
  <2> QED  BY <1>4, <2>1 DEF Looping, ChildrenTaken
<1>15. ContextsFollow'
  <2>1. ASSUME NEW n \in 1..(queueIndex' - 1), KeyOf(n) # NoKey
        PROVE  contexts[KeyOf(n)] = queue[n].context
    <3>1. n \in 1..(queueIndex - 1)  BY <1>8, <2>1
    <3> QED  BY <1>4, <2>1, <3>1 DEF Looping, ContextsFollow
  <2>2. ASSUME NEW k \in Keys
        PROVE  contexts[k] = before[k] \/ \E n \in 1..(queueIndex' - 1) : KeyOf(n) = k
    BY <1>4, <1>9 DEF Looping, ContextsFollow
  <2> QED  BY <1>5, <1>13, <2>1, <2>2 DEF ContextsFollow
<1>16. ScanComesFirst'  BY <1>2, <1>5 DEF ScanComesFirst
<1>17. Looping'
  BY <1>6, <1>11, <1>12, <1>14, <1>15, <1>16 DEF Looping
<1>18. ~(index' = Len(work') + 2)  BY <1>2, <1>3, <1>5
<1> QED  BY <1>7, <1>17, <1>18 DEF Inv

\* What one sequence and another after it hold.
LEMMA Joined ==
  ASSUME NEW T, NEW s \in Seq(T), NEW t \in Seq(T)
  PROVE  /\ s \o t \in Seq(T)
         /\ Len(s) \in Nat /\ Len(t) \in Nat
         /\ Len(s \o t) = Len(s) + Len(t)
         /\ DOMAIN s = 1..Len(s) /\ DOMAIN t = 1..Len(t)
         /\ DOMAIN (s \o t) = 1..(Len(s) + Len(t))
         /\ \A n \in DOMAIN s : n \in DOMAIN (s \o t) /\ (s \o t)[n] = s[n]
         /\ \A n \in DOMAIN t : /\ Len(s) + n \in DOMAIN (s \o t)
                                /\ (s \o t)[Len(s) + n] = t[n]
         /\ \A n \in DOMAIN (s \o t) : \/ n \in DOMAIN s
                                       \/ \E m \in DOMAIN t : n = Len(s) + m
<1>1. /\ s \o t \in Seq(T)
      /\ Len(s) \in Nat /\ Len(t) \in Nat
      /\ Len(s \o t) = Len(s) + Len(t)
      /\ DOMAIN s = 1..Len(s) /\ DOMAIN t = 1..Len(t)
      /\ DOMAIN (s \o t) = 1..(Len(s) + Len(t))
  OBVIOUS
<1>2. \A n \in DOMAIN s : n \in DOMAIN (s \o t) /\ (s \o t)[n] = s[n]
  BY <1>1
<1>3. ASSUME NEW n \in DOMAIN t
      PROVE  Len(s) + n \in DOMAIN (s \o t) /\ (s \o t)[Len(s) + n] = t[n]
  BY <1>1
<1>4. ASSUME NEW n \in DOMAIN (s \o t), n \notin DOMAIN s
      PROVE  \E m \in DOMAIN t : n = Len(s) + m
  <2>1. n - Len(s) \in DOMAIN t /\ n = Len(s) + (n - Len(s))  BY <1>1, <1>4
  <2> QED  BY <2>1
<1> QED  BY <1>1, <1>2, <1>3, <1>4

\* An item with a key releases what is filed under it.
LEMMA DrainKeyed ==
  ASSUME Inv, Drain, KeyOf(queueIndex) # NoKey
  PROVE  Inv'
<1> DEFINE item == queue[queueIndex]
           key == KeyOf(queueIndex)
           children == waitingByParent[key]
           released == [n \in DOMAIN children |-> Item(children[n], item.context)]
<1>1. QueueType /\ Phase = "drain"  BY DEF Inv, Drain
<1>2. /\ index > Len(work) /\ queueIndex \in DOMAIN queue /\ queueIndex \in Nat
      /\ index \in Nat /\ Len(work) \in Nat /\ Len(queue) \in Nat
      /\ DOMAIN queue = 1..Len(queue)
  BY <1>1, Phases DEF QueueType
<1>3. index < Len(work) + 2
  <2>1. index \in 1..(Len(work) + 2)  BY <1>1 DEF QueueType
  <2>2. queueIndex # Len(queue) + 1  BY <1>1, <1>2 DEF QueueType
  <2> QED  BY <1>2, <2>1, <2>2 DEF Inv
<1>4. Looping  BY <1>3 DEF Inv
<1>5. /\ queueIndex' = queueIndex + 1 /\ ready' = Append(ready, item)
      /\ contexts' = [contexts EXCEPT ![key] = item.context]
      /\ queue' = queue \o released
      /\ waitingByParent' = [waitingByParent EXCEPT ![key] = <<>>]
      /\ UNCHANGED <<work, before, index, pending>>
  BY DrainTakes DEF KeyOf
<1>6. work \in Works /\ before \in Knowns /\ contexts \in Knowns
      /\ waitingByParent \in [Keys -> Seq(Nat)] /\ queue \in Seq(QueueItems)
  BY <1>1 DEF QueueType
<1>7. item \in QueueItems /\ item.index \in DOMAIN work /\ item.context \in AgentContexts
  <2>1. item \in QueueItems  BY <1>2, <1>6
  <2> HIDE DEF item
  <2> QED  BY <2>1 DEF QueueItems
<1>8. key \in Keys /\ children \in Seq(Nat)
  <2>1. work[item.index].span.key \in Keys \cup {NoKey}  BY <1>6, <1>7, ItemParts
  <2> QED  BY <1>6, <2>1 DEF KeyOf
<1>9. item.index < index /\ item.index \in Resolved(work, before)
      /\ item.context = ResolvedContext(work, before, item.index)
  BY <1>2, <1>4 DEF Looping, QueuedRight
<1>10. \A n \in DOMAIN children :
         /\ children[n] \in DOMAIN work \ Roots(work, before)
         /\ children[n] < index
         /\ work[children[n]].span.parent = key
         /\ ~Queued(children[n])
         /\ \A m \in DOMAIN children : children[m] = children[n] => m = n
  BY <1>4, <1>8 DEF Looping, FiledRight
<1>11. work[item.index].span.key = key  BY DEF KeyOf
<1> HIDE DEF item, key, children
<1>12. /\ DOMAIN released = DOMAIN children
       /\ \A n \in DOMAIN children : /\ released[n].index = children[n]
                                     /\ released[n].context = item.context
                                     /\ released[n] \in QueueItems
  BY <1>7, <1>10 DEF Item, QueueItems
<1>13. released \in Seq(QueueItems)
  BY <1>8, <1>12
<1> HIDE DEF released
<1>14. /\ queue' \in Seq(QueueItems)
       /\ \A n \in DOMAIN queue : n \in DOMAIN queue' /\ queue'[n] = queue[n]
       /\ \A n \in DOMAIN released : /\ Len(queue) + n \in DOMAIN queue'
                                     /\ queue'[Len(queue) + n] = released[n]
       /\ \A n \in DOMAIN queue' : \/ n \in DOMAIN queue
                                   \/ \E m \in DOMAIN released : n = Len(queue) + m
       /\ Len(queue') >= Len(queue) /\ Len(queue') \in Nat
  BY <1>5, <1>6, <1>13, Joined
<1>15. \A n \in DOMAIN queue' :
         \/ n \in DOMAIN queue /\ queue'[n] = queue[n]
         \/ \E m \in DOMAIN children : /\ n = Len(queue) + m
                                       /\ queue'[n].index = children[m]
                                       /\ queue'[n].context = item.context
  BY <1>12, <1>14
<1>16. ReadyIsPrefix' /\ ready' \in Seq(QueueItems)
  BY <1>1, <1>2, <1>4, <1>5, <1>14, DrainReady DEF item
<1>17. /\ \A k \in Keys \ {key} : waitingByParent'[k] = waitingByParent[k]
       /\ waitingByParent'[key] = <<>>
       /\ waitingByParent' \in [Keys -> Seq(Nat)]
  BY <1>5, <1>6, <1>8
<1>18. /\ \A k \in Keys \ {key} : contexts'[k] = contexts[k]
       /\ contexts'[key] = item.context
       /\ contexts' \in Knowns
  <2>1. item.context \in Contexts  BY <1>7 DEF Contexts
  <2> QED  BY <1>5, <1>6, <1>8, <2>1 DEF Knowns
<1>19. QueueType'
  <2>1. QueueItems' = QueueItems  BY <1>5 DEF QueueItems
  <2>2. queueIndex' \in 1..(Len(queue') + 1)  BY <1>2, <1>5, <1>14
  <2> QED  BY <1>1, <1>5, <1>14, <1>16, <1>17, <1>18, <2>1, <2>2 DEF QueueType
<1>20. \A i : Queued(i)' <=> Queued(i) \/ \E m \in DOMAIN children : i = children[m]
  <2> SUFFICES ASSUME NEW i
               PROVE  (\E n \in DOMAIN queue' : queue'[n].index = i) <=>
                        \/ \E n \in DOMAIN queue : queue[n].index = i
                        \/ \E m \in DOMAIN children : i = children[m]
    BY DEF Queued
  <2>1. ASSUME NEW n \in DOMAIN queue', queue'[n].index = i
        PROVE  \/ \E m \in DOMAIN queue : queue[m].index = i
               \/ \E m \in DOMAIN children : i = children[m]
    BY <1>15, <2>1
  <2>2. ASSUME NEW n \in DOMAIN queue, queue[n].index = i
        PROVE  \E m \in DOMAIN queue' : queue'[m].index = i
    BY <1>14, <2>2
  <2>3. ASSUME NEW m \in DOMAIN children, i = children[m]
        PROVE  \E n \in DOMAIN queue' : queue'[n].index = i
    <3>1. Len(queue) + m \in DOMAIN queue' /\ queue'[Len(queue) + m].index = i
      BY <1>12, <1>14, <2>3
    <3> QED  BY <3>1
  <2> QED  BY <2>1, <2>2, <2>3
<1>21. QueuedOnce'
  <2> SUFFICES ASSUME NEW m \in DOMAIN queue', NEW n \in DOMAIN queue',
                      queue'[m].index = queue'[n].index
               PROVE  m = n
    BY DEF QueuedOnce
  <2>1. CASE m \in DOMAIN queue /\ n \in DOMAIN queue
    BY <1>4, <1>14, <2>1 DEF Looping, QueuedOnce
  <2>2. ASSUME NEW a \in DOMAIN queue, NEW c \in DOMAIN children,
               queue[a].index = children[c]
        PROVE  FALSE
    BY <1>10, <2>2 DEF Queued
  <2>3. CASE m \notin DOMAIN queue \/ n \notin DOMAIN queue
    <3>1. m \notin DOMAIN queue /\ n \notin DOMAIN queue
      BY <1>14, <1>15, <2>2, <2>3
    <3>2. PICK a \in DOMAIN children : m = Len(queue) + a /\ queue'[m].index = children[a]
      BY <1>15, <3>1
    <3>3. PICK c \in DOMAIN children : n = Len(queue) + c /\ queue'[n].index = children[c]
      BY <1>15, <3>1
    <3> QED  BY <1>10, <3>2, <3>3
  <2> QED  BY <2>1, <2>3
<1>22. QueuedRight'
  <2> SUFFICES ASSUME NEW n \in DOMAIN queue'
               PROVE  /\ queue'[n].index < index
                      /\ queue'[n].index \in Resolved(work, before)
                      /\ queue'[n].context = ResolvedContext(work, before, queue'[n].index)
    BY <1>5 DEF QueuedRight
  <2>1. CASE n \in DOMAIN queue /\ queue'[n] = queue[n]
    BY <1>4, <2>1 DEF Looping, QueuedRight
  <2>2. ASSUME NEW m \in DOMAIN children, queue'[n].index = children[m],
               queue'[n].context = item.context
        PROVE  /\ queue'[n].index < index
               /\ queue'[n].index \in Resolved(work, before)
               /\ queue'[n].context = ResolvedContext(work, before, queue'[n].index)
    <3>1. /\ children[m] \in Resolved(work, before)
          /\ ResolvedContext(work, before, children[m])
               = ResolvedContext(work, before, item.index)
      BY <1>6, <1>9, <1>10, <1>11, ChildIsResolved
    <3> QED  BY <1>9, <1>10, <2>2, <3>1
  <2> QED  BY <1>15, <2>1, <2>2
<1>23. FiledRight'
  <2> SUFFICES ASSUME NEW k \in Keys, NEW n \in DOMAIN waitingByParent'[k]
               PROVE  /\ waitingByParent'[k][n] \in DOMAIN work \ Roots(work, before)
                      /\ waitingByParent'[k][n] < index
                      /\ work[waitingByParent'[k][n]].span.parent = k
                      /\ ~Queued(waitingByParent[k][n])'
                      /\ \A m \in DOMAIN waitingByParent'[k] :
                           waitingByParent'[k][m] = waitingByParent'[k][n] => m = n
    BY <1>5 DEF FiledRight
  <2>1. k # key /\ waitingByParent'[k] = waitingByParent[k]  BY <1>17
  <2>2. PICK i : i = waitingByParent'[k][n]  OBVIOUS
  <2>3. /\ i \in DOMAIN work \ Roots(work, before) /\ i < index
        /\ work[i].span.parent = k /\ ~Queued(i)
        /\ \A m \in DOMAIN waitingByParent[k] : waitingByParent[k][m] = i => m = n
    BY <1>4, <2>1, <2>2 DEF Looping, FiledRight
  <2>4. \A m \in DOMAIN children : i # children[m]  BY <1>10, <2>1, <2>3
  <2>5. ~Queued(i)'  BY <1>20, <2>3, <2>4
  <2>6. ~Queued(waitingByParent[k][n])'  BY <2>2, <2>5
  <2> QED  BY <2>1, <2>2, <2>3, <2>6
<1>24. NothingLost'
  <2> SUFFICES ASSUME NEW i \in DOMAIN work, i < index, ~Queued(i)'
               PROVE  /\ i \notin Roots(work, before)
                      /\ \E n \in DOMAIN waitingByParent'[work[i].span.parent] :
                           waitingByParent'[work[i].span.parent][n] = i
    BY <1>5 DEF NothingLost
  <2>1. ~Queued(i) /\ \A m \in DOMAIN children : i # children[m]  BY <1>20
  <2>2. /\ i \notin Roots(work, before)
        /\ \E n \in DOMAIN waitingByParent[work[i].span.parent] :
             waitingByParent[work[i].span.parent][n] = i
    BY <1>4, <2>1 DEF Looping, NothingLost
  <2>3. work[i].span.parent \in Keys
    BY <1>6, <2>2, ItemParts DEF Roots
  <2>4. work[i].span.parent # key  BY <2>1, <2>2 DEF children
  <2> QED  BY <1>17, <2>2, <2>3, <2>4
<1>25. \A n \in 1..(queueIndex' - 1) : n \in 1..(queueIndex - 1) \/ n = queueIndex
  BY <1>2, <1>5
<1>26. \A n \in 1..(queueIndex - 1) : n \in 1..(queueIndex' - 1)
  BY <1>2, <1>5
<1>27. \A n \in DOMAIN queue : KeyOf(n)' = KeyOf(n)  BY <1>5, <1>14 DEF KeyOf
<1>28. \A n \in 1..(queueIndex' - 1) : n \in DOMAIN queue  BY <1>2, <1>5
<1>29. KeyOf(queueIndex) = key  BY DEF key
<1>30. \A n \in DOMAIN queue : KeyOf(n) \in Keys \cup {NoKey}
  <2> SUFFICES ASSUME NEW n \in DOMAIN queue PROVE KeyOf(n) \in Keys \cup {NoKey}
    OBVIOUS
  <2>1. queue[n] \in QueueItems  BY <1>6
  <2>2. queue[n].index \in DOMAIN work  BY <2>1 DEF QueueItems
  <2> QED  BY <1>6, <2>2, ItemParts DEF KeyOf
<1>31. ChildrenTaken'
  <2> SUFFICES ASSUME NEW n \in 1..(queueIndex' - 1), KeyOf(n)' # NoKey
               PROVE  waitingByParent'[KeyOf(n)'] = <<>>
    BY DEF ChildrenTaken
  <2>1. n \in DOMAIN queue /\ KeyOf(n)' = KeyOf(n)  BY <1>27, <1>28
  <2>2. CASE KeyOf(n) = key  BY <1>17, <2>1, <2>2
  <2>3. CASE KeyOf(n) # key
    <3>1. n \in 1..(queueIndex - 1)  BY <1>25, <1>29, <2>3
    <3>2. waitingByParent[KeyOf(n)] = <<>>
      BY <1>4, <2>1, <3>1 DEF Looping, ChildrenTaken
    <3> QED  BY <1>17, <1>30, <2>1, <2>3, <3>2
  <2> QED  BY <2>2, <2>3
<1>32. ContextsFollow'
  <2>1. ASSUME NEW n \in 1..(queueIndex' - 1), KeyOf(n)' # NoKey
        PROVE  contexts'[KeyOf(n)'] = queue'[n].context
    <3>1. n \in DOMAIN queue /\ KeyOf(n)' = KeyOf(n) /\ queue'[n] = queue[n]
      BY <1>14, <1>27, <1>28
    <3>2. CASE KeyOf(n) = key
      <4>1. queue[n].index \in Resolved(work, before)
            /\ queue[n].context = ResolvedContext(work, before, queue[n].index)
        BY <1>4, <3>1 DEF Looping, QueuedRight
      <4>2. queue[n].index \in DOMAIN work  BY <1>6, <4>1, ResolvedParts
      <4>3. work[queue[n].index].span.key = key  BY <3>2 DEF KeyOf
      <4>4. ResolvedContext(work, before, queue[n].index)
              = ResolvedContext(work, before, item.index)
        BY <1>6, <1>9, <1>11, <4>2, <4>3, <2>1, <3>1, <3>2, OneKeyOneContext
      <4> QED  BY <1>9, <1>18, <3>1, <3>2, <4>1, <4>4
    <3>3. CASE KeyOf(n) # key
      <4>1. n \in 1..(queueIndex - 1)  BY <1>25, <1>29, <3>3
      <4>2. contexts[KeyOf(n)] = queue[n].context
        BY <1>4, <2>1, <3>1, <4>1 DEF Looping, ContextsFollow
      <4> QED  BY <1>18, <1>30, <2>1, <3>1, <3>3, <4>2
    <3> QED  BY <3>2, <3>3
  <2>2. ASSUME NEW k \in Keys
        PROVE  contexts'[k] = before[k] \/ \E n \in 1..(queueIndex' - 1) : KeyOf(n)' = k
    <3>1. CASE k = key
      <4>1. queueIndex \in 1..(queueIndex' - 1)  BY <1>2, <1>5
      <4> QED  BY <1>2, <1>27, <1>29, <3>1, <4>1
    <3>2. CASE k # key
      <4>1. contexts[k] = before[k] \/ \E n \in 1..(queueIndex - 1) : KeyOf(n) = k
        BY <1>4 DEF Looping, ContextsFollow
      <4> QED  BY <1>18, <1>26, <1>27, <1>28, <3>2, <4>1
    <3> QED  BY <3>1, <3>2
  <2> QED  BY <1>5, <2>1, <2>2 DEF ContextsFollow
<1>33. ScanComesFirst'  BY <1>2, <1>5 DEF ScanComesFirst
<1>34. Looping'
  BY <1>16, <1>21, <1>22, <1>23, <1>24, <1>31, <1>32, <1>33 DEF Looping
<1>35. ~(index' = Len(work') + 2)  BY <1>2, <1>3, <1>5
<1> QED  BY <1>19, <1>34, <1>35 DEF Inv

\* When the queue is empty, what was queued is what the definition says leaves.
LEMMA QueueIsResolved ==
  ASSUME Inv, Phase = "cut"
  PROVE  /\ resolved = Resolved(work, before)
         /\ \A i : Queued(i) <=> i \in Resolved(work, before)
<1>1. QueueType  BY DEF Inv
<1>2. /\ index = Len(work) + 1 /\ queueIndex = Len(queue) + 1
      /\ Len(work) \in Nat /\ Len(queue) \in Nat
  BY <1>1, Phases
<1>3. Looping  BY <1>2 DEF Inv
<1>4. work \in Works /\ before \in Knowns /\ DOMAIN queue = 1..Len(queue)
      /\ DOMAIN work = 1..Len(work)
  BY <1>1 DEF QueueType, Works
<1>5. Len(ready) = Len(queue) /\ DOMAIN ready = DOMAIN queue
      /\ \A n \in DOMAIN queue : ready[n] = queue[n]
  <2>1. Len(ready) = queueIndex - 1 /\ \A n \in 1..(queueIndex - 1) : ready[n] = queue[n]
    BY <1>3 DEF Looping, ReadyIsPrefix
  <2>2. DOMAIN ready = 1..Len(ready)  BY <1>1 DEF QueueType
  <2> QED  BY <1>2, <1>4, <2>1, <2>2
<1>6. \A i : i \in resolved <=> Queued(i)  BY <1>5 DEF resolved, Queued
<1>7. resolved \subseteq Resolved(work, before)
  <2> SUFFICES ASSUME NEW n \in DOMAIN queue
               PROVE  queue[n].index \in Resolved(work, before)
    BY <1>6 DEF Queued
  <2> QED  BY <1>3 DEF Looping, QueuedRight
<1>8. resolved \subseteq DOMAIN work  BY <1>4, <1>7, ResolvedParts
<1>9. \A i \in DOMAIN work : i < index  BY <1>2, <1>4
<1>10. Roots(work, before) \subseteq resolved
  <2> SUFFICES ASSUME NEW i \in Roots(work, before) PROVE Queued(i)
    BY <1>6
  <2>1. i \in DOMAIN work  BY DEF Roots
  <2> QED  BY <1>3, <1>9, <2>1 DEF Looping, NothingLost
<1>11. ReleaseClosed(work, before, resolved)
  <2> SUFFICES ASSUME NEW i \in DOMAIN work \ Roots(work, before), NEW j \in resolved,
                      work[j].span.key = work[i].span.parent, ~Queued(i)
               PROVE  FALSE
    BY <1>6 DEF ReleaseClosed
  <2>1. PICK n \in DOMAIN queue : queue[n].index = j  BY <1>6 DEF Queued
  <2>2. n \in 1..(queueIndex - 1) /\ KeyOf(n) = work[i].span.parent
    BY <1>2, <1>4, <2>1 DEF KeyOf
  <2>3. KeyOf(n) # NoKey  BY <2>2 DEF Roots
  <2>4. waitingByParent[work[i].span.parent] = <<>>
    BY <1>3, <2>2, <2>3 DEF Looping, ChildrenTaken
  <2>5. \E m \in DOMAIN waitingByParent[work[i].span.parent] :
          waitingByParent[work[i].span.parent][m] = i
    BY <1>3, <1>9 DEF Looping, NothingLost
  <2> QED  BY <2>4, <2>5
<1>12. Resolved(work, before) \subseteq resolved
  <2> HIDE DEF resolved
  <2> QED  BY <1>8, <1>10, <1>11, ResolvedIsLeast
<1> QED  BY <1>6, <1>7, <1>12

\* The cut makes the round what the definition says.
LEMMA CutInv ==
  ASSUME Inv, Cut
  PROVE  Inv'
<1>1. QueueType /\ Phase = "cut"  BY DEF Inv, Cut
<1>2. /\ index = Len(work) + 1 /\ queueIndex = Len(queue) + 1
      /\ Len(work) \in Nat /\ Len(queue) \in Nat
  BY <1>1, Phases
<1>3. Looping  BY <1>2 DEF Inv
<1>4. work \in Works /\ before \in Knowns /\ contexts \in Knowns
      /\ DOMAIN queue = 1..Len(queue) /\ DOMAIN work = 1..Len(work)
      /\ queue \in Seq(QueueItems)
  BY <1>1 DEF QueueType, Works
<1> DEFINE R == Resolved(work, before)
           W == DOMAIN work \ R
<1>5. PICK unresolved \in InOrder(W) :
        /\ contexts' = [k \in Keys |->
             IF \E n \in 1..Overflow(unresolved) : work[unresolved[n]].span.key = k
             THEN NoAgent ELSE contexts[k]]
        /\ ready' = ready \o [n \in 1..Overflow(unresolved) |-> Item(unresolved[n], NoAgent)]
        /\ pending' = At(work, Newest(unresolved))
  <2>1. resolved = R  BY <1>1, QueueIsResolved
  <2> HIDE DEF resolved, R
  <2> QED  BY <2>1 DEF Cut
<1>6. /\ index' = index + 1
      /\ UNCHANGED <<work, before, waitingByParent, queue, queueIndex>>
  BY DEF Cut
<1>7. R \subseteq DOMAIN work  BY <1>4, ResolvedParts
<1>8. IsFiniteSet(W) /\ W \subseteq Nat /\ W \subseteq DOMAIN work
  <2>1. IsFiniteSet(1..Len(work))  BY <1>2, FS_Interval
  <2>2. IsFiniteSet(W)  BY <1>4, <2>1, FS_Subset
  <2> QED  BY <1>4, <2>2
<1> DEFINE over == Overflow(unresolved)
           forced == Oldest(unresolved)
           agent == Leaving(work, before, forced)
           cut == [n \in 1..over |-> Item(unresolved[n], NoAgent)]
           D == R \cup forced
<1> HIDE DEF R, W
<1>9. /\ unresolved \in Seq(W) /\ Len(unresolved) \in Nat
      /\ \A i, j \in DOMAIN unresolved : unresolved[i] = unresolved[j] => i = j
      /\ DOMAIN unresolved = 1..Len(unresolved)
  BY <1>8, LeftInOrder
<1>10. over \in 0..Len(unresolved) /\ forced \subseteq W
  <2>1. over \in 0..Len(unresolved)  BY <1>9 DEF Overflow
  <2> HIDE DEF over
  <2>2. forced = {unresolved[i] : i \in 1..over}  BY DEF Oldest, over
  <2> QED  BY <1>9, <2>1, <2>2
<1>11. /\ DOMAIN cut = 1..over /\ over \in Nat
       /\ \A n \in 1..over : /\ n \in DOMAIN unresolved /\ unresolved[n] \in forced
                             /\ cut[n] = Item(unresolved[n], NoAgent)
       /\ \A i \in forced : \E n \in 1..over : unresolved[n] = i
  <2>1. forced = {unresolved[i] : i \in 1..over}  BY DEF Oldest
  <2>2. over \in Nat /\ 1..over \subseteq DOMAIN unresolved  BY <1>9, <1>10
  <2> HIDE DEF forced, over
  <2> QED  BY <2>1, <2>2
<1>12. forced \subseteq DOMAIN work /\ forced \cap R = {}
  <2> HIDE DEF forced
  <2> QED  BY <1>8, <1>10 DEF W
<1>13. /\ agent \in [D -> AgentContexts] /\ DOMAIN agent = D
       /\ \A i \in forced : agent[i] = NoAgent
       /\ \A i \in R : agent[i] = ResolvedContext(work, before, i)
  <2>1. agent = [i \in D |-> IF i \in forced THEN NoAgent
                             ELSE ResolvedContext(work, before, i)]
    BY DEF Leaving, R
  <2>2. ASSUME NEW i \in R
        PROVE  ResolvedContext(work, before, i) \in AgentContexts
    <3>1. PICK r \in Roots(work, before) :
            ResolvedContext(work, before, i) = RootContext(work, before, r)
      BY ResolvedParts DEF R
    <3> QED  BY <1>4, <3>1, RootIsResolved
  <2> HIDE DEF forced, agent
  <2> QED  BY <1>12, <2>1, <2>2 DEF AgentContexts
<1> HIDE DEF over, forced, agent, cut
<1>14. cut \in Seq(QueueItems)
  <2>1. \A n \in 1..over : cut[n] \in QueueItems
    BY <1>11, <1>12 DEF Item, QueueItems, AgentContexts
  <2>2. cut = [n \in 1..over |-> cut[n]]  BY DEF cut
  <2>3. cut \in [1..over -> QueueItems]  BY <2>1, <2>2
  <2> QED  BY <1>11, <2>3
<1>15. /\ ready \in Seq(QueueItems) /\ Len(ready) = Len(queue)
       /\ \A n \in DOMAIN ready : n \in DOMAIN queue /\ ready[n] = queue[n]
  <2>1. Len(ready) = queueIndex - 1 /\ \A n \in 1..(queueIndex - 1) : ready[n] = queue[n]
    BY <1>3 DEF Looping, ReadyIsPrefix
  <2> QED  BY <1>1, <1>2, <1>4, <2>1 DEF QueueType
<1>16. /\ ready' \in Seq(QueueItems)
       /\ Len(ready') = Len(ready) + over /\ DOMAIN ready' = 1..Len(ready')
       /\ Len(ready') \in Nat
       /\ DOMAIN ready = 1..Len(ready) /\ Len(ready) \in Nat
       /\ \A n \in DOMAIN ready : n \in DOMAIN ready' /\ ready'[n] = ready[n]
       /\ \A n \in 1..over : /\ Len(ready) + n \in DOMAIN ready'
                             /\ ready'[Len(ready) + n] = cut[n]
       /\ \A n \in DOMAIN ready' : \/ n \in DOMAIN ready
                                   \/ \E m \in 1..over : n = Len(ready) + m
  <2>1. ready' = ready \o cut  BY <1>5 DEF cut, over
  <2>2. Len(cut) = over /\ DOMAIN cut = 1..over  BY <1>11, <1>14
  <2>3. /\ ready' \in Seq(QueueItems)
        /\ Len(ready) \in Nat /\ Len(ready') = Len(ready) + Len(cut)
        /\ DOMAIN ready = 1..Len(ready)
        /\ \A n \in DOMAIN ready : n \in DOMAIN ready' /\ ready'[n] = ready[n]
        /\ \A n \in DOMAIN cut : /\ Len(ready) + n \in DOMAIN ready'
                               /\ ready'[Len(ready) + n] = cut[n]
        /\ \A n \in DOMAIN ready' : \/ n \in DOMAIN ready
                                     \/ \E m \in DOMAIN cut : n = Len(ready) + m
    <3> DEFINE joined == ready \o cut
    <3>1. /\ joined \in Seq(QueueItems)
          /\ Len(ready) \in Nat /\ Len(joined) = Len(ready) + Len(cut)
          /\ DOMAIN ready = 1..Len(ready)
          /\ \A n \in DOMAIN ready : n \in DOMAIN joined /\ joined[n] = ready[n]
          /\ \A n \in DOMAIN cut : /\ Len(ready) + n \in DOMAIN joined
                                 /\ joined[Len(ready) + n] = cut[n]
          /\ \A n \in DOMAIN joined : \/ n \in DOMAIN ready
                                      \/ \E m \in DOMAIN cut : n = Len(ready) + m
      <4>1. ready \in Seq(QueueItems) /\ cut \in Seq(QueueItems)  BY <1>14, <1>15
      <4> QED  BY <4>1, Joined
    <3> HIDE DEF joined
    <3>2. ready' = joined  BY <2>1 DEF joined
    <3> QED  BY <3>1, <3>2
  <2>4. DOMAIN ready' = 1..Len(ready') /\ Len(ready') \in Nat  BY <2>3
  <2> QED  BY <2>2, <2>3, <2>4
\* A released position is either queued, with its context, or cut, with none.
<1>17. \A n \in DOMAIN ready' :
         \/ /\ n \in DOMAIN queue /\ ready'[n] = queue[n] /\ n <= Len(ready)
            /\ queue[n].index \in R /\ queue[n].context = agent[queue[n].index]
         \/ \E m \in 1..over : /\ n = Len(ready) + m /\ unresolved[m] \in forced
                               /\ ready'[n] = Item(unresolved[m], agent[unresolved[m]])
  <2> SUFFICES ASSUME NEW n \in DOMAIN ready'
               PROVE
         \/ /\ n \in DOMAIN queue /\ ready'[n] = queue[n] /\ n <= Len(ready)
            /\ queue[n].index \in R /\ queue[n].context = agent[queue[n].index]
         \/ \E m \in 1..over : /\ n = Len(ready) + m /\ unresolved[m] \in forced
                               /\ ready'[n] = Item(unresolved[m], agent[unresolved[m]])
    OBVIOUS
  <2>1. CASE n \in DOMAIN ready
    <3>1. n \in DOMAIN queue /\ ready'[n] = queue[n] /\ n <= Len(ready)
      BY <1>15, <1>16, <2>1
    <3>2. queue[n].index \in R /\ queue[n].context = agent[queue[n].index]
      BY <1>3, <1>13, <3>1 DEF Looping, QueuedRight, R
    <3> QED  BY <3>1, <3>2
  <2>2. ASSUME NEW m \in 1..over, n = Len(ready) + m
        PROVE  /\ unresolved[m] \in forced
               /\ ready'[n] = Item(unresolved[m], agent[unresolved[m]])
    BY <1>11, <1>13, <1>16, <2>2
  <2> QED  BY <1>16, <2>1, <2>2
<1>18. \A n \in DOMAIN ready' :
         ready'[n].index \in D /\ ready'[n] = Item(ready'[n].index, agent[ready'[n].index])
  <2> SUFFICES ASSUME NEW n \in DOMAIN ready'
               PROVE  /\ ready'[n].index \in D
                      /\ ready'[n] = Item(ready'[n].index, agent[ready'[n].index])
    OBVIOUS
  <2>1. ASSUME n \in DOMAIN queue, ready'[n] = queue[n], queue[n].index \in R,
               queue[n].context = agent[queue[n].index]
        PROVE  /\ ready'[n].index \in D
               /\ ready'[n] = Item(ready'[n].index, agent[ready'[n].index])
    <3>1. queue[n] \in QueueItems  BY <1>4, <2>1
    <3>2. queue[n] = Item(queue[n].index, queue[n].context)
      BY <3>1 DEF QueueItems, Item
    <3> QED  BY <2>1, <3>2
  <2>2. ASSUME NEW m \in 1..over, unresolved[m] \in forced,
               ready'[n] = Item(unresolved[m], agent[unresolved[m]])
        PROVE  /\ ready'[n].index \in D
               /\ ready'[n] = Item(ready'[n].index, agent[ready'[n].index])
    BY <2>2 DEF Item
  <2> QED  BY <1>17, <2>1, <2>2
<1>19. \A i \in D : \E n \in DOMAIN ready' : ready'[n].index = i
  <2> SUFFICES ASSUME NEW i \in D PROVE \E n \in DOMAIN ready' : ready'[n].index = i
    OBVIOUS
  <2>1. CASE i \in R
    <3>1. PICK n \in DOMAIN queue : queue[n].index = i
      BY <1>1, <2>1, QueueIsResolved DEF Queued, R
    <3>2. n \in DOMAIN ready  BY <1>4, <1>15, <1>16
    <3> QED  BY <1>15, <1>16, <3>1, <3>2
  <2>2. CASE i \in forced
    <3>1. PICK n \in 1..over : unresolved[n] = i  BY <1>11, <2>2
    <3>2. ready'[Len(ready) + n] = Item(i, NoAgent)  BY <1>11, <1>16, <3>1
    <3>3. Len(ready) + n \in DOMAIN ready'  BY <1>16
    <3>4. ready'[Len(ready) + n].index = i  BY <3>2 DEF Item
    <3> QED  BY <3>3, <3>4
  <2> QED  BY <2>1, <2>2
<1>20. \A m, n \in DOMAIN ready' : ready'[m].index = ready'[n].index => m = n
  <2> SUFFICES ASSUME NEW m \in DOMAIN ready', NEW n \in DOMAIN ready',
                      ready'[m].index = ready'[n].index
               PROVE  m = n
    OBVIOUS
  <2> DEFINE first(a) == a \in DOMAIN queue /\ ready'[a] = queue[a] /\ queue[a].index \in R
             last(a) == \E c \in 1..over : /\ a = Len(ready) + c /\ unresolved[c] \in forced
                                           /\ ready'[a].index = unresolved[c]
  <2>1. \A a \in DOMAIN ready' : first(a) \/ last(a)  BY <1>17 DEF Item
  <2>2. CASE first(m) /\ first(n)
    BY <1>3, <2>2 DEF Looping, QueuedOnce
  <2>3. CASE last(m) /\ last(n)
    BY <1>9, <1>11, <2>3
  <2>4. ~(first(m) /\ last(n)) /\ ~(last(m) /\ first(n))  BY <1>12
  <2> QED  BY <2>1, <2>2, <2>3, <2>4
<1>21. Len(ready') = Cardinality(D)
  <2> DEFINE f == [n \in DOMAIN ready' |-> ready'[n].index]
  <2>1. f \in Bijection(DOMAIN ready', D)
    <3>1. f \in [DOMAIN ready' -> D]  BY <1>18
    <3>2. \A m, n \in DOMAIN ready' : f[m] = f[n] => m = n  BY <1>20
    <3>3. \A i \in D : \E n \in DOMAIN ready' : f[n] = i  BY <1>19
    <3> HIDE DEF f
    <3> QED  BY <3>1, <3>2, <3>3 DEF Bijection, Injection, Surjection, IsInjective
  <2>2. ExistsBijection(DOMAIN ready', D)  BY <2>1 DEF ExistsBijection
  <2>3. IsFiniteSet(DOMAIN ready') /\ Cardinality(DOMAIN ready') = Len(ready')
    BY <1>16, FS_Interval
  <2> HIDE DEF D
  <2> QED  BY <2>2, <2>3, FS_Bijection
<1>22. {Item(i, agent[i]) : i \in D} = {ready'[n] : n \in DOMAIN ready'}
  <2>1. ASSUME NEW i \in D PROVE \E n \in DOMAIN ready' : ready'[n] = Item(i, agent[i])
    BY <1>18, <1>19
  <2> HIDE DEF D
  <2> QED  BY <1>18, <2>1
<1>23. contexts' = Learn(before, work, agent, Keys)
  <2> DEFINE holders(k) == {i \in DOMAIN agent : work[i].span.key = k}
             learned(k) == IF holders(k) # {} THEN agent[CHOOSE i \in holders(k) : TRUE]
                           ELSE before[k]
  <2>1. Learn(before, work, agent, Keys) = [k \in Keys |-> learned(k)]
    BY DEF Learn
  <2>2. ASSUME NEW k \in Keys
        PROVE  contexts'[k] = learned(k)
    <3>1. k # NoKey  OBVIOUS
    <3>2. CASE \E n \in 1..over : work[unresolved[n]].span.key = k
      <4>1. contexts'[k] = NoAgent  BY <1>5, <3>2 DEF over
      <4>2. PICK n \in 1..over : work[unresolved[n]].span.key = k  BY <3>2
      <4>3. unresolved[n] \in forced  BY <1>11
      <4>4. \A j \in R : work[j].span.key # k
        BY <1>4, <1>12, <3>1, <4>2, <4>3, OneKeyOneContext DEF R
      <4>5. holders(k) # {} /\ holders(k) \subseteq forced
        BY <1>13, <4>2, <4>3, <4>4
      <4> HIDE DEF holders
      <4>6. (CHOOSE i \in holders(k) : TRUE) \in forced  BY <4>5
      <4> QED  BY <1>13, <4>1, <4>5, <4>6
    <3>3. CASE ~\E n \in 1..over : work[unresolved[n]].span.key = k
      <4>1. contexts'[k] = contexts[k]  BY <1>5, <3>3 DEF over
      <4>2. \A i \in forced : work[i].span.key # k  BY <1>11, <3>3
      <4>3. holders(k) = {i \in R : work[i].span.key = k}  BY <1>13, <4>2
      <4>4. CASE holders(k) = {}
        <5>1. ~\E n \in 1..(queueIndex - 1) : KeyOf(n) = k
          <6> SUFFICES ASSUME NEW n \in 1..(queueIndex - 1), KeyOf(n) = k PROVE FALSE
            OBVIOUS
          <6>1. n \in DOMAIN queue  BY <1>2, <1>4
          <6>2. queue[n].index \in R  BY <1>3, <6>1 DEF Looping, QueuedRight, R
          <6> QED  BY <4>3, <4>4, <6>2 DEF KeyOf
        <5>2. contexts[k] = before[k]  BY <1>3, <5>1 DEF Looping, ContextsFollow
        <5> HIDE DEF holders
        <5> QED  BY <4>1, <4>4, <5>2
      <4>5. CASE holders(k) # {}
        <5>1. PICK h : h = CHOOSE i \in holders(k) : TRUE  OBVIOUS
        <5>2. h \in holders(k)
          <6> HIDE DEF holders
          <6> QED  BY <4>5, <5>1
        <5>3. h \in R /\ work[h].span.key = k  BY <4>3, <5>2
        <5>4. PICK n \in DOMAIN queue : queue[n].index = h
          BY <1>1, <5>3, QueueIsResolved DEF Queued, R
        <5>5. n \in 1..(queueIndex - 1) /\ KeyOf(n) = k
          BY <1>2, <1>4, <5>3, <5>4 DEF KeyOf
        <5>6. contexts[k] = queue[n].context
          BY <1>3, <3>1, <5>5 DEF Looping, ContextsFollow
        <5>7. queue[n].context = agent[h]
          BY <1>3, <1>13, <5>3, <5>4 DEF Looping, QueuedRight, R
        <5> HIDE DEF holders
        <5> QED  BY <4>1, <4>5, <5>1, <5>6, <5>7
      <4> QED  BY <4>4, <4>5
    <3> QED  BY <3>2, <3>3
  <2>3. contexts' = [k \in Keys |-> contexts'[k]]  BY <1>5
  <2> HIDE DEF learned
  <2> QED  BY <2>1, <2>2, <2>3
<1>24. pending' = At(work, Newest(unresolved))  BY <1>5
<1>25. Matched(work, before, ready', contexts', pending')
  <2>1. unresolved \in InOrder(DOMAIN work \ Resolved(work, before))
    BY DEF W, R
  <2>2. agent = Leaving(work, before, Oldest(unresolved))  BY DEF agent, forced
  <2> HIDE DEF D
  <2>3. /\ {Item(i, agent[i]) : i \in DOMAIN agent} = {ready'[n] : n \in DOMAIN ready'}
        /\ Len(ready') = Cardinality(DOMAIN agent)
    BY <1>13, <1>21, <1>22
  <2> QED  BY <1>23, <1>24, <2>1, <2>2, <2>3 DEF Matched
<1>26. QueueType'
  <2>1. QueueItems' = QueueItems  BY <1>6 DEF QueueItems
  <2>2. contexts' \in Knowns  BY <1>4, <1>5 DEF Knowns, Contexts, AgentContexts
  <2>3. index' \in 1..(Len(work) + 2)  BY <1>2, <1>6
  <2> QED  BY <1>1, <1>6, <1>16, <2>1, <2>2, <2>3 DEF QueueType
<1>27. ~(index' < Len(work') + 2)  BY <1>2, <1>6
<1>28. queueIndex' = Len(queue') + 1  BY <1>2, <1>6
<1> QED  BY <1>6, <1>25, <1>26, <1>27, <1>28 DEF Inv

LEMMA NextInv == Inv /\ [Next]_vars => Inv'
<1> SUFFICES ASSUME Inv, [Next]_vars PROVE Inv'  OBVIOUS
<1>1. CASE ScanQueues  BY <1>1, ScanQueuesInv
<1>2. CASE ScanWaits  BY <1>2, ScanWaitsInv
<1>3. CASE Drain  BY <1>3, DrainUnkeyed, DrainKeyed
<1>4. CASE Cut  BY <1>4, CutInv
<1>5. CASE UNCHANGED vars
  <2>1. UNCHANGED <<work, before, contexts, index, waitingByParent, queue, queueIndex,
                    ready, pending>>
    BY <1>5 DEF vars
  <2>2. QueueType' <=> QueueType  BY <2>1 DEF QueueType, QueueItems
  <2>3. /\ ReadyIsPrefix' <=> ReadyIsPrefix
        /\ QueuedOnce' <=> QueuedOnce
        /\ QueuedRight' <=> QueuedRight
        /\ ScanComesFirst' <=> ScanComesFirst
    BY <2>1 DEF ReadyIsPrefix, QueuedOnce, QueuedRight, ScanComesFirst
  <2>4. (FiledRight' <=> FiledRight) /\ (NothingLost' <=> NothingLost)
    BY <2>1 DEF FiledRight, NothingLost, Queued
  <2>5. (ChildrenTaken' <=> ChildrenTaken) /\ (ContextsFollow' <=> ContextsFollow)
    BY <2>1 DEF ChildrenTaken, ContextsFollow, KeyOf
  <2>6. Looping' <=> Looping  BY <2>3, <2>4, <2>5 DEF Looping
  <2> QED  BY <2>1, <2>2, <2>6 DEF Inv
<1> QED  BY <1>1, <1>2, <1>3, <1>4, <1>5 DEF Next

\* A round of resolveTraceContexts, whatever its work, the retained contexts and the
\* limit, ends with what the definitions of TraceContext say: the items that leave
\* with their contexts, the contexts learned, and the items that stay.
THEOREM RoundsMatch == Spec => []RoundMatchesDefinition
<1>1. Inv => RoundMatchesDefinition
  <2> SUFFICES ASSUME Inv, Phase = "done"
               PROVE  Matched(work, before, ready, contexts, pending)
    BY DEF RoundMatchesDefinition, Matched
  <2>1. index = Len(work) + 2  BY Phases DEF Inv
  <2> QED  BY <2>1 DEF Inv
<1> QED  BY <1>1, InitInv, NextInv, PTL DEF Spec
=============================================================================
