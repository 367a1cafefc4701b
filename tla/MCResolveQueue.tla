--------------------------- MODULE MCResolveQueue ---------------------------
(***************************************************************************)
(* Rounds of up to MaxWork items over the spans of one trace: an agent     *)
(* below a chain that leads back to it, items without identifier, a cycle  *)
(* of two parents and a span that names itself as parent.                  *)
(***************************************************************************)
EXTENDS ResolveQueue

CONSTANTS k1, k2, k3, k4, k5, k6, outer, inner, app

MCKeys == {k1, k2, k3, k4, k5, k6}
MCAgents == {outer, inner}
MCSources == {app}

Span(key, parent, agent) ==
  [key |-> key, parent |-> parent, agent |-> agent, source |-> app]

MCSpans == {
  Span(k1, k3, outer), Span(k2, k1, NoAgent), Span(k3, k2, NoAgent),
  Span(NoKey, k2, NoAgent), Span(NoKey, NoKey, NoAgent),
  Span(k4, k5, NoAgent), Span(k5, k4, NoAgent), Span(NoKey, k4, inner),
  Span(k6, k6, NoAgent)}

\* Nothing retained; the empty context of a span forced out earlier; an agent.
MCRetained ==
  {[k \in MCKeys |-> Unknown],
   [k \in MCKeys |-> IF k = k2 THEN NoAgent ELSE Unknown],
   [k \in MCKeys |-> IF k = k1 THEN outer ELSE Unknown]}
=============================================================================
