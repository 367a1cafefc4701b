----------------------------- MODULE MCReceiver -----------------------------
(***************************************************************************)
(* Small instances of the receiver.  The spans are one trace: an agent     *)
(* span, a child without identity, a grandchild, a sub-agent below the     *)
(* child, and a child without an identifier of its own.                    *)
(***************************************************************************)
EXTENDS Receiver

CONSTANTS k1, k2, k3, k4, k5, k6, outer, inner, app, verifier

MCKeys == {k1, k2, k3, k4, k5, k6}
MCAgents == {outer, inner}

Agent      == [key |-> k1, parent |-> NoKey, agent |-> outer, source |-> app]
Child      == [key |-> k2, parent |-> k1, agent |-> NoAgent, source |-> app]
Grandchild == [key |-> k3, parent |-> k2, agent |-> NoAgent, source |-> app]
SubAgent   == [key |-> k4, parent |-> k2, agent |-> inner, source |-> app]
Anonymous  == [key |-> NoKey, parent |-> k2, agent |-> NoAgent, source |-> app]

\* A child that claims another source.
Claim == [key |-> k2, parent |-> k1, agent |-> NoAgent, source |-> verifier]

\* Two spans that name each other as parent, which no arrival can resolve.
Egg == [key |-> k5, parent |-> k6, agent |-> NoAgent, source |-> app]
Hen == [key |-> k6, parent |-> k5, agent |-> NoAgent, source |-> app]

MCSources == {app, verifier}
OneSource == {app}

\* One process and its restart, a window and a queue of three, spans in any order:
\* a child ahead of its parent, in its batch and in an earlier one, a retry inside
\* a batch and across batches, and a cycle of parents that fills the queue.
TraceSpans == {Agent, Child, Grandchild, SubAgent, Anonymous, Egg, Hen}
TraceBatches ==
  {<<Agent>>, <<Grandchild>>, <<Child, Child>>, <<Anonymous, SubAgent>>,
   <<Egg, Hen>>, <<Child, Agent, Grandchild>>}

\* Two exporters that retry each other's spans, one of which claims a protected
\* source, with its credential and without.
FaultSpans == {Agent, Claim}
FaultBatches == {<<Agent>>, <<Claim>>, <<Agent, Claim>>}
=============================================================================
