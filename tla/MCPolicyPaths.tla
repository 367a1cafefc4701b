---------------------------- MODULE MCPolicyPaths ----------------------------
(***************************************************************************)
(* Small instances of PolicyPaths.                                         *)
(***************************************************************************)
EXTENDS PolicyPaths

CONSTANTS calls, owns

MCRelations == {calls, owns}
Missing == 9

Edges(from, relation, to) == [from : from, relation : {relation}, to : to]
MCEdges == Edges(1..4, calls, 1..4 \cup {Missing}) \cup Edges({2, 3}, owns, {1, 3})

\* Every graph of one to four of these edges: cycles, loops, parallel edges, and
\* edges to a node that is missing.
MCGraphs ==
  {[nodes |-> 1..4, edges |-> {c, d, e, f}] : c, d, e, f \in MCEdges}

PathRule(from, via, relations, to) ==
  [from |-> from, via |-> via, relations |-> relations, to |-> to]

\* One relation from anywhere; two of different kinds; three with a selector for
\* each node in between; and rules that are refused.
MCRules ==
  {PathRule(1..4, <<>>, <<calls>>, {2, 3}),
   PathRule({1, 2}, <<>>, <<calls, owns>>, {2, 3}),
   PathRule({1}, <<2..4, {3, 4}>>, <<calls, calls, calls>>, {2, 3, 4}),
   PathRule({1}, <<>>, <<>>, {1}), PathRule({1}, <<{2}, {3}>>, <<calls, owns>>, {3})}
=============================================================================
