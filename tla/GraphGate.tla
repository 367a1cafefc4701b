------------------------------ MODULE GraphGate ------------------------------
(***************************************************************************)
(* What a pipeline does with the graphs of FindingImport: a policy decides *)
(* whether one passes (internal/policy), and a diff whether it is still    *)
(* the graph that was approved (internal/graphdiff).                       *)
(*                                                                         *)
(* A node's type, name and provider are part of its identity, so of a      *)
(* selector only the nodes it matches by them are kept, beside its minimum *)
(* evidence.  Nodes of this model have no version.                         *)
(***************************************************************************)
EXTENDS FindingImport

CONSTANTS
  Kinds,     \* the type of every component
  Policies   \* the policies graphs are tested against

ComponentKinds == {"agent", "mcp_server"}
KindOf(id) == IF IsFinding(id) THEN "finding" ELSE Kinds[id]

Selectors == [nodes : SUBSET (Components \cup Findings), minimumEvidence : Ranks]
MaxPathRelations == 8

\* via is empty or has one selector for every node between the ends.
PathRules == [from : Selectors, via : Seq(Selectors), relations : Seq(Relations),
              to : Selectors]

ASSUME GateAssumption ==
  /\ Kinds \in [Components -> ComponentKinds]
  /\ \A p \in Policies :
       /\ p.minimumEvidence \in [DOMAIN p.minimumEvidence -> Inferred..Verified]
       /\ DOMAIN p.minimumEvidence \subseteq ComponentKinds \cup {"finding"}
       /\ p.deniedFindingLevels \subseteq Levels
       /\ p.forbidInferred \in BOOLEAN /\ p.forbidFieldConflicts \in BOOLEAN
       /\ \A rule \in p.deniedPaths :
            /\ rule \in PathRules
            /\ Len(rule.relations) \in 1..MaxPathRelations
            /\ Len(rule.via) \in {0, Len(rule.relations) - 1}

Graph == [nodes |-> nodes, edges |-> edges]

-----------------------------------------------------------------------------
(***************************************************************************)
(* policy.Evaluate.                                                        *)
(***************************************************************************)

\* Mutant: a selector's minimum is taken as the level itself.
MatchesLevel(selector, graph, id) ==
  /\ id \in selector.nodes
  /\ selector.minimumEvidence \in {0, graph.nodes[id].evidence.level}

\* compiledSelector.matches.
Matches(selector, graph, id) ==
  /\ id \in selector.nodes
  /\ graph.nodes[id].evidence.level >= selector.minimumEvidence

\* A path that matches has a start, distinct nodes of the graph and the relations.
DeniedPath(rule, graph, path) ==
  /\ \A i, j \in DOMAIN path : path[i] = path[j] => i = j
  /\ Matches(rule.from, graph, path[1])
  /\ Matches(rule.to, graph, path[Len(rule.relations) + 1])
  /\ \A i \in DOMAIN rule.relations :
       [from |-> path[i], relation |-> rule.relations[i], to |-> path[i + 1]]
         \in DOMAIN graph.edges
  /\ \A i \in DOMAIN rule.via : Matches(rule.via[i], graph, path[i + 1])

\* The nodes a denied path starts from.
Starts(rule, graph) ==
  {path[1] : path \in {p \in [1..Len(rule.relations) + 1 -> DOMAIN graph.nodes] :
                         DeniedPath(rule, graph, p)}}

Conflicts(n) == {field \in Fields : Cardinality(Candidates(n.claims[field])) > 1}

\* The violations of Report: the rule, the node, and what of either it is about.
Violations(graph, policy) ==
  LET violation(rule, id, about) == [rule |-> rule, node |-> id, about |-> about]
      level(id) == graph.nodes[id].evidence.level
      ids       == DOMAIN graph.nodes
  IN  {violation("forbid-inferred", id, "") :
         id \in {i \in ids : policy.forbidInferred /\ level(i) = Inferred}}
      \cup {violation("minimum-evidence", id, "") :
              id \in {i \in ids : /\ KindOf(i) \in DOMAIN policy.minimumEvidence
                                  /\ level(i) < policy.minimumEvidence[KindOf(i)]}}
      \cup (UNION {{violation("denied-finding-level", f, l) :
                      l \in FindingLevels(graph.nodes[f]) \cap policy.deniedFindingLevels} :
                     f \in {id \in ids : IsFinding(id)}})
      \cup (UNION {{violation("forbid-field-conflict", id, field) :
                      field \in Conflicts(graph.nodes[id])} :
                     id \in {i \in ids : policy.forbidFieldConflicts}})
      \cup (UNION {{violation("denied-path", start, rule) : start \in Starts(rule, graph)} :
                     rule \in policy.deniedPaths})

-----------------------------------------------------------------------------
(***************************************************************************)
(* graphdiff.Compare.                                                      *)
(***************************************************************************)

\* Mutant: a level is not compared.
ChangedFieldsShown(before, after) ==
  {f \in Fields : before.shown[f] # after.shown[f]}
    \cup {x \in {"fieldEvidence"} : before.claims # after.claims}

\* changedFields: digests and properties, the claims, and the level; counts, times
\* and sources of the node itself are not compared.
ChangedFields(before, after) ==
  {f \in Fields : before.shown[f] # after.shown[f]}
    \cup {x \in {"fieldEvidence"} : before.claims # after.claims}
    \cup {x \in {"evidence.level"} : before.evidence.level # after.evidence.level}

Compare(before, after) ==
  LET same(f, g) == DOMAIN f \cap DOMAIN g
      changedEdge(e) == before.edges[e].level # after.edges[e].level
  IN  [addedNodes   |-> DOMAIN after.nodes \ DOMAIN before.nodes,
       removedNodes |-> DOMAIN before.nodes \ DOMAIN after.nodes,
       changedNodes |-> {id \in same(before.nodes, after.nodes) :
                           ChangedFields(before.nodes[id], after.nodes[id]) # {}},
       addedEdges   |-> DOMAIN after.edges \ DOMAIN before.edges,
       removedEdges |-> DOMAIN before.edges \ DOMAIN after.edges,
       changedEdges |-> {e \in same(before.edges, after.edges) : changedEdge(e)}]

HasChanges(diff) == \E part \in DOMAIN diff : diff[part] # {}

-----------------------------------------------------------------------------
(***************************************************************************)
(* Properties.                                                             *)
(***************************************************************************)

\* An approved graph for which the diff finds no change needs no new verdict: every
\* policy has the same violations for both, although counts, times and sources that
\* the diff passes over have changed.
NoChangeSameVerdict ==
  [][LET before == Graph
         after  == Graph'
     IN  ~HasChanges(Compare(before, after)) =>
           \A p \in Policies : Violations(after, p) = Violations(before, p)]_vars

\* More evidence cures only a lack of evidence: a denied level, a conflict or a denied
\* path that was once reported is reported of every later graph.
OnlyStrengthIsCured ==
  [][LET before == Graph
         after  == Graph'
     IN  \A p \in Policies :
           {v \in Violations(before, p) :
              v.rule \notin {"forbid-inferred", "minimum-evidence"}}
             \subseteq Violations(after, p)]_vars
=============================================================================
