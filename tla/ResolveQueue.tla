---------------------------- MODULE ResolveQueue ----------------------------
(***************************************************************************)
(* resolveTraceContexts of internal/collector/receiver.go, loop by loop:   *)
(* the scan that queues what has a context and files the rest under its    *)
(* parent, the queue loop that releases children, and the cut of what      *)
(* exceeds the limit.  It runs under the mutex; the module takes any work  *)
(* and any retained contexts as input and is compared with the definitions *)
(* of TraceContext, which the receiver's step uses.                        *)
(***************************************************************************)
EXTENDS TraceContext

CONSTANTS
  MaxWork,        \* bound: items of one round
  RetainedContexts \* bound: the contexts a round may start from

ASSUME ResolveQueueAssumption ==
  /\ MaxWork \in Nat
  /\ RetainedContexts \subseteq [Keys -> AgentContexts \cup {Unknown}]

VARIABLES
  work,      \* what is pending, then what is new
  before,    \* Receiver.contexts when the round starts
  contexts,  \* Receiver.contexts
  index,     \* the item the scan looks at
  waitingByParent,
  queue,     \* resolvedObservation records, in the order they are queued
  queueIndex,
  ready,     \* the released items, in order
  pending    \* Receiver.pending; <<>> until the round ends

vars == <<work, before, contexts, index, waitingByParent, queue, queueIndex,
          ready, pending>>

Phase ==
  IF index <= Len(work) THEN "scan"
  ELSE IF queueIndex <= Len(queue) THEN "drain"
  ELSE IF index = Len(work) + 1 THEN "cut" ELSE "done"

resolved == {ready[i].index : i \in DOMAIN ready}

Item(i, context) == [index |-> i, context |-> context]

Init ==
  /\ work \in UNION {[1..n -> {o \in Observations : o.source = o.span.source}] :
                       n \in 0..MaxWork}
  /\ before \in RetainedContexts
  /\ contexts = before
  /\ index = 1
  /\ waitingByParent = [k \in Keys |-> <<>>]
  /\ queue = <<>> /\ queueIndex = 1
  /\ ready = <<>> /\ pending = <<>>

-----------------------------------------------------------------------------
\* Mutant: the parent's retained context is not handed on.
EnqueueEmpty(context) == queue' = Append(queue, Item(index, NoAgent))

Enqueue(context) == queue' = Append(queue, Item(index, context))

ScanQueues ==
  /\ Phase = "scan"
  /\ LET span == work[index].span IN
       \/ span.agent # NoAgent /\ Enqueue(span.agent)
       \/ span.agent = NoAgent /\ span.parent = NoKey /\ Enqueue(NoAgent)
       \/ /\ span.agent = NoAgent /\ span.parent # NoKey
          /\ contexts[span.parent] # Unknown
          /\ Enqueue(contexts[span.parent])
  /\ index' = index + 1
  /\ UNCHANGED <<work, before, contexts, waitingByParent, queueIndex, ready,
                 pending>>

ScanWaits ==
  /\ Phase = "scan"
  /\ LET span == work[index].span IN
       /\ span.agent = NoAgent /\ span.parent # NoKey
       /\ contexts[span.parent] = Unknown
       /\ waitingByParent' =
            [waitingByParent EXCEPT ![span.parent] = Append(@, index)]
  /\ index' = index + 1
  /\ UNCHANGED <<work, before, contexts, queue, queueIndex, ready, pending>>

Take(key) == waitingByParent' = [waitingByParent EXCEPT ![key] = <<>>]

Drain ==
  /\ Phase = "drain"
  /\ queueIndex' = queueIndex + 1
  /\ LET item == queue[queueIndex]
         key == work[item.index].span.key
         children == waitingByParent[key]
     IN
       IF item.index \in resolved
       THEN UNCHANGED <<ready, contexts, waitingByParent, queue>>
       ELSE /\ ready' = Append(ready, item)
            /\ IF key = NoKey
               THEN UNCHANGED <<contexts, waitingByParent, queue>>
               ELSE /\ contexts' = [contexts EXCEPT ![key] = item.context]
                    /\ queue' = queue \o [n \in DOMAIN children |->
                                            Item(children[n], item.context)]
                    /\ Take(key)
  /\ UNCHANGED <<work, before, index, pending>>

\* The unresolved items keep their order; beyond the limit the oldest become
\* ready without an agent, and children they could release stay where they are.
Cut ==
  /\ Phase = "cut"
  /\ \E unresolved \in InOrder(DOMAIN work \ resolved) :
       LET overflow == Overflow(unresolved)
           key(n) == work[unresolved[n]].span.key
       IN
         /\ contexts' = [k \in Keys |->
              IF \E n \in 1..overflow : key(n) = k THEN NoAgent ELSE contexts[k]]
         /\ ready' = ready \o [n \in 1..overflow |-> Item(unresolved[n], NoAgent)]
         /\ pending' = At(work, Newest(unresolved))
  /\ index' = index + 1
  /\ UNCHANGED <<work, before, waitingByParent, queue, queueIndex>>

Next == ScanQueues \/ ScanWaits \/ Drain \/ Cut

Spec == Init /\ [][Next]_vars

-----------------------------------------------------------------------------
(***************************************************************************)
(* Properties.                                                             *)
(***************************************************************************)

\* The round ends with what the definitions of TraceContext say: the items that
\* leave with their contexts, the contexts learned, the items that stay.
RoundMatchesDefinition ==
  Phase = "done" =>
    \E waiting \in InOrder(DOMAIN work \ Resolved(work, before)) :
      LET agent == Leaving(work, before, Oldest(waiting)) IN
        /\ {Item(i, agent[i]) : i \in DOMAIN agent}
             = {ready[n] : n \in DOMAIN ready}
        /\ Len(ready) = Cardinality(DOMAIN agent)
        /\ contexts = Learn(before, work, agent, Keys)
        /\ pending = At(work, Newest(waiting))

=============================================================================
