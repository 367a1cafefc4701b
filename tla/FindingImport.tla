--------------------------- MODULE FindingImport ---------------------------
(***************************************************************************)
(* Scanner findings in an evidence graph: internal/sarif/sarif.go binds    *)
(* the failing results of a SARIF document to the one component whose      *)
(* artifact they are about, while spans go on to say things of that        *)
(* component; internal/policy reads the findings' levels and               *)
(* internal/cyclonedx exports both.                                        *)
(*                                                                         *)
(* Artifact URIs, digests and SARIF levels are numbers in their            *)
(* lexical order, 0 the empty string (module Evidence).  A finding node    *)
(* has its level as its only field, a component its URI and digest; what   *)
(* is identical in all findings of one identity, and the scanner's         *)
(* version, are left out.  Documents are well-formed and within limits.    *)
(***************************************************************************)
EXTENDS Evidence, Sequences, Functions

CONSTANTS
  Components,  \* the identifiers of nodes that are not findings
  Scanners,    \* tool names
  Rules,       \* rule identifiers
  Facts,       \* what spans may say of a server and the agent that calls it
  Documents,   \* SARIF documents, each a sequence of runs
  Stored,      \* the nodes a graph may have at first
  NoAgent,     \* a span without an agent
  MaxSteps     \* bound: observations and imports

Error == 1
None == 2
Note == 3
Warning == 4
Levels == Error..Warning

Fields == {"uri", "digest", "level"}
Findings == [scanner : Scanners, rule : Rules, uri : Values, digest : Values]
Relations == {"connects_to", "affected_by"}

AllNodes == [shown    : [Fields -> Values \cup {0}],
             claims   : [Fields -> AllClaims],
             evidence : Summaries]

\* suppressions are the statuses, "accepted" an absent one too; names are the
\* identifiers in ruleId and rule.id, indexes those in ruleIndex and rule.index,
\* from 1; a location is a URI, empty, or Unresolvable.
Unresolvable == -1
Results ==
  [suppressions : SUBSET {"accepted", "underReview", "rejected", "invalid"},
   kind  : {"fail", "other", "invalid"}, names : SUBSET Rules, indexes : SUBSET Nat,
   level : Levels \cup {0}, locations : Seq(Values \cup {0, Unresolvable})]
Runs == [scanner : Scanners, successful : BOOLEAN, results : Seq(Results),
         rules : Seq([id : Rules, level : Levels \cup {0}])]

ASSUME ImportAssumption ==
  /\ Levels \subseteq Values /\ Scanners \subseteq Sources
  /\ NoAgent \notin Components /\ Components \cap Findings = {}
  /\ \A f \in Facts :
       /\ f.server \in Components /\ f.agent \in Components \cup {NoAgent}
       /\ f.uri \in Values \cup {0} /\ f.digest \in Values \cup {0}
       /\ f.level \in Inferred..Verified /\ f.time \in Nat \ {0}
       /\ f.source \in Sources
  /\ Documents \subseteq Seq(Runs)
  /\ \A g \in Stored : DOMAIN g \subseteq Components /\ g \in [DOMAIN g -> AllNodes]
  /\ MaxSteps \in Nat

VARIABLES
  nodes,     \* the nodes of the graph, by their identifiers
  edges,     \* the evidence of its edges, by what they join
  steps,     \* bound: observations and imports so far
  reported   \* history: the failing results about the artifact, one by one

vars == <<nodes, edges, steps, reported>>

IsFinding(id) == id \in Findings

\* A graph without nodes, or without edges.
Nothing == [id \in {} |-> 0]

-----------------------------------------------------------------------------
(***************************************************************************)
(* Nodes and their fields: model.go and merge.go, as in EvidenceGraph.     *)
(***************************************************************************)
NoFields == [f \in Fields |-> NoClaims]
NothingShown == [f \in Fields |-> 0]

ResolveFieldEvidence(n) ==
  [n EXCEPT !.shown = [f \in Fields |->
     IF Candidates(n.claims[f]) = {} THEN @[f] ELSE Selected(n.claims[f])]]

\* A stored node shows what its claims resolve to, as every node does that a command
\* wrote; it may be from before there were claims.
ASSUME StoredAssumption ==
  \A g \in Stored : \A id \in DOMAIN g : ResolveFieldEvidence(g[id]) = g[id]

EnsureFieldEvidence(n) ==
  LET legacy == [n.evidence EXCEPT !.level = Inferred, !.count = 1] IN
    [n EXCEPT !.claims = [f \in Fields |-> [v \in Values |->
       IF v = n.shown[f] /\ v \notin Candidates(n.claims[f]) THEN legacy
       ELSE n.claims[f][v]]]]

Upgraded(n) == ResolveFieldEvidence(EnsureFieldEvidence(n))

\* Mutant: a node that exists already is replaced.
MergeNodeReplacing(current, incoming) == incoming

MergeNode(current, incoming) ==
  ResolveFieldEvidence(
    [shown    |-> current.shown,
     claims   |-> [f \in Fields |-> MergeClaims(current.claims[f], incoming.claims[f])],
     evidence |-> MergeEvidenceSummary(current.evidence, incoming.evidence)])

\* Merge: every node of either graph.
Merge(current, incoming) ==
  [id \in DOMAIN current \cup DOMAIN incoming |->
     IF id \notin DOMAIN incoming THEN Upgraded(current[id])
     ELSE IF id \notin DOMAIN current THEN Upgraded(incoming[id])
     ELSE MergeNode(Upgraded(current[id]), Upgraded(incoming[id]))]

MergeEdges(current, incoming) ==
  [e \in DOMAIN current \cup DOMAIN incoming |->
     IF e \notin DOMAIN incoming THEN current[e]
     ELSE IF e \notin DOMAIN current THEN incoming[e]
     ELSE MergeEvidenceSummary(current[e], incoming[e])]

Said(source, level, time, count) ==
  [NoSummary EXCEPT !.sources = {source}, !.level = level, !.count = count,
                    !.first = time, !.last = time]

\* A node that evidence says values of: none for a field that is 0.
NodeSaying(value, evidence) ==
  ResolveFieldEvidence(
    [shown    |-> NothingShown,
     claims   |-> [f \in Fields |-> [v \in Values |->
                     IF v = value[f] THEN evidence ELSE NoSummary]],
     evidence |-> evidence])

\* addObservation, for a span that names an MCP server, its artifact or not, and
\* its agent or not; merged into the graph.
Observe(fact) ==
  /\ steps < MaxSteps
  /\ LET evidence == Said(fact.source, fact.level, fact.time, 1)
         named    == {fact.server, fact.agent} \ {NoAgent}
         value(c) == [NothingShown EXCEPT
                        !["uri"] = IF c = fact.server THEN fact.uri ELSE 0,
                        !["digest"] = IF c = fact.server THEN fact.digest ELSE 0]
     IN  /\ nodes' = Merge(nodes, [c \in named |-> NodeSaying(value(c), evidence)])
         /\ edges' = MergeEdges(edges,
              [e \in {[from |-> a, relation |-> "connects_to", to |-> fact.server] :
                        a \in {fact.agent} \ {NoAgent}} |-> evidence])
  /\ steps' = steps + 1
  /\ UNCHANGED reported

-----------------------------------------------------------------------------
(***************************************************************************)
(* Reading a document.                                                     *)
(***************************************************************************)

\* Mutant: every suppression hides the result.
SuppressedByAny(result) == result.suppressions # {}

\* activeSuppression: under review or rejected, it hides nothing.
Suppressed(result) == "accepted" \in result.suppressions

\* resolveRuleID: whatever names the rule must name one and the same.
NamedRules(run, result) ==
  result.names \cup {run.rules[i].id : i \in result.indexes \cap DOMAIN run.rules}
RuleResolves(run, result) ==
  result.indexes \subseteq DOMAIN run.rules /\ Cardinality(NamedRules(run, result)) = 1
RuleOf(run, result) == CHOOSE r \in Rules : r \in NamedRules(run, result)

\* A result without a level has its rule's, and then "warning".
LevelOf(run, result) ==
  LET defaults == {d.level : d \in {run.rules[i] : i \in
                     {j \in DOMAIN run.rules : run.rules[j].id = RuleOf(run, result)}}}
  IN  IF result.level # 0 THEN result.level
      ELSE IF defaults \subseteq {0} THEN Warning
      ELSE CHOOSE l \in defaults : TRUE

\* resultMatchesArtifact: the first location that is not the artifact decides.
Elsewhere(result, uri) ==
  {i \in DOMAIN result.locations : result.locations[i] # uri}
Unresolved(result, uri) ==
  \E i \in Elsewhere(result, uri) : /\ result.locations[i] = Unresolvable
                                    /\ \A j \in Elsewhere(result, uri) : i <= j
AboutArtifact(result, uri) ==
  result.locations # <<>> /\ Elsewhere(result, uri) = {}

\* The positions of the results of a run that become findings.
Attached(run, uri) ==
  {i \in DOMAIN run.results :
     /\ ~Suppressed(run.results[i])
     /\ run.results[i].kind = "fail"
     /\ AboutArtifact(run.results[i], uri)}

\* A result that findingsForRun returns an error for: what a suppression or the
\* kind hides is not looked at.
RefusedResult(run, result, uri) ==
  \/ "invalid" \in result.suppressions
  \/ ~Suppressed(result) /\ result.kind = "invalid"
  \/ /\ ~Suppressed(result) /\ result.kind = "fail"
     /\ \/ ~RuleResolves(run, result)
        \/ LevelOf(run, result) = None
        \/ Unresolved(result, uri)

RefusedRun(run, uri) ==
  \/ ~run.successful
  \/ \E i, j \in DOMAIN run.rules : i # j /\ run.rules[i].id = run.rules[j].id
  \/ \E i \in DOMAIN run.results : RefusedResult(run, run.results[i], uri)
  \/ \E i, j \in Attached(run, uri) :
       /\ RuleOf(run, run.results[i]) = RuleOf(run, run.results[j])
       /\ LevelOf(run, run.results[i]) # LevelOf(run, run.results[j])

-----------------------------------------------------------------------------
(***************************************************************************)
(* Binding it.                                                             *)
(***************************************************************************)

\* fieldEvidenceIsExact, and the comparison with the value shown: a claim, where
\* there is one, is of this value only.
Bound(n, field, value) ==
  n.shown[field] = value /\ Candidates(n.claims[field]) \subseteq {value}

\* Mutant: the digest is not compared.
TargetsByURI(uri, digest) ==
  {id \in DOMAIN nodes : ~IsFinding(id) /\ Bound(nodes[id], "uri", uri)}

\* findTarget: the nodes that match exactly.  Import needs one.
Targets(uri, digest) ==
  {id \in DOMAIN nodes : /\ ~IsFinding(id)
                         /\ Bound(nodes[id], "uri", uri)
                         /\ Bound(nodes[id], "digest", digest)}

FindingOf(run, i, uri, digest) ==
  [scanner |-> run.scanner, rule |-> RuleOf(run, run.results[i]),
   uri |-> uri, digest |-> digest]

\* findingsForRun, and the node of each: its evidence counts the occurrences.
FindingsOfRun(run, sarifURI, uri, digest, time) ==
  LET attached == Attached(run, sarifURI)
      id(i)    == FindingOf(run, i, uri, digest)
  IN  [f \in {id(i) : i \in attached} |->
         LET same == {i \in attached : id(i) = f}
             i    == CHOOSE j \in same : TRUE
         IN  NodeSaying([NothingShown EXCEPT !["level"] = LevelOf(run, run.results[i])],
                        Said(run.scanner, Observed, time, Cardinality(same)))]

FindingsOf(doc, sarifURI, uri, digest, time) ==
  FoldFunction(LAMBDA run, found :
                 Merge(found, FindingsOfRun(run, sarifURI, uri, digest, time)),
               Nothing, doc)

\* What the scanner said of the artifact, result by result.
Reports(doc, sarifURI, uri, digest) ==
  UNION {{[step |-> steps, run |-> n, result |-> i,
           finding |-> FindingOf(doc[n], i, uri, digest),
           level |-> LevelOf(doc[n], doc[n].results[i])] :
            i \in {j \in DOMAIN doc[n].results :
                    LET result == doc[n].results[j] IN
                      /\ result.kind = "fail" /\ "accepted" \notin result.suppressions
                      /\ result.locations \in Seq({sarifURI}) \ {<<>>}}} :
         n \in DOMAIN doc}

\* Mutant: the target is in the graph that is merged.
ImportWithTarget(doc, sarifURI, uri, digest, time) ==
  /\ steps < MaxSteps
  /\ \A n \in DOMAIN doc : ~RefusedRun(doc[n], sarifURI)
  /\ Cardinality(Targets(uri, digest)) = 1
  /\ LET found  == FindingsOf(doc, sarifURI, uri, digest, time)
         target == [t \in Targets(uri, digest) |-> nodes[t]]
     IN  nodes' = Merge(Merge(nodes, target), found)
  /\ steps' = steps + 1
  /\ reported' = reported \cup Reports(doc, sarifURI, uri, digest)
  /\ UNCHANGED edges

\* Import: everything or, when a run is refused or the target is not the only
\* one, nothing.
Import(doc, sarifURI, uri, digest, time) ==
  /\ steps < MaxSteps
  /\ \A n \in DOMAIN doc : ~RefusedRun(doc[n], sarifURI)
  /\ Cardinality(Targets(uri, digest)) = 1
  /\ LET found == FindingsOf(doc, sarifURI, uri, digest, time) IN
       /\ nodes' = Merge(nodes, found)
       /\ edges' = MergeEdges(edges,
            [e \in {[from |-> t, relation |-> "affected_by", to |-> f] :
                      t \in Targets(uri, digest), f \in DOMAIN found} |->
               found[e.to].evidence])
  /\ steps' = steps + 1
  /\ reported' = reported \cup Reports(doc, sarifURI, uri, digest)

-----------------------------------------------------------------------------
\* findingLevels of a policy: the level shown, and every other one claimed.
FindingLevels(n) == ({n.shown["level"]} \cup Candidates(n.claims["level"])) \ {0}

\* Mutant: findings are components.
ExportEveryNode ==
  [components      |-> DOMAIN nodes,
   dependencies    |-> [c \in DOMAIN nodes |-> {e.to : e \in {d \in DOMAIN edges : d.from = c}}],
   vulnerabilities |-> [f \in {} |-> {}]]

\* cyclonedx.Export: the references of the document.
Export ==
  LET components == {id \in DOMAIN nodes : ~IsFinding(id)}
      found      == {id \in DOMAIN nodes : IsFinding(id)}
  IN  [components      |-> components,
       dependencies    |-> [c \in components |->
                              {e.to : e \in {d \in DOMAIN edges : d.from = c}} \cap components],
       vulnerabilities |-> [f \in found |->
                              {e.from : e \in {d \in DOMAIN edges :
                                            d.relation = "affected_by" /\ d.to = f}}
                                \cap components]]

Init ==
  /\ nodes \in Stored
  /\ edges = Nothing
  /\ steps = 0
  /\ reported = {}

Next ==
  \/ \E fact \in Facts : Observe(fact)
  \/ \E doc \in Documents, uri, digest \in Values, time \in {f.time : f \in Facts} :
       Import(doc, uri, uri, digest, time)

Spec == Init /\ [][Next]_vars
-----------------------------------------------------------------------------
(***************************************************************************)
(* Properties.                                                             *)
(***************************************************************************)

\* A gate that denies a level fails while a scanner has ever reported it of the
\* artifact, and for nothing else: no later import, at another level or with the
\* result suppressed, hides it (SCHEMA.md, "deniedFindingLevels").
GateSeesEveryReport ==
  /\ {id \in DOMAIN nodes : IsFinding(id)} = {r.finding : r \in reported}
  /\ \A f \in {r.finding : r \in reported} :
       FindingLevels(nodes[f]) = {r.level : r \in {q \in reported : q.finding = f}}

\* A finding's count is the number of results that reported it, in all runs and
\* imports, and its levels share them out.
OccurrencesAreCounted ==
  \A f \in {r.finding : r \in reported} :
    /\ nodes[f].evidence.count = Cardinality({r \in reported : r.finding = f})
    /\ \A l \in Levels :
         nodes[f].claims["level"][l].count
           = Cardinality({r \in reported : r.finding = f /\ r.level = l})

\* A component that a finding affects has claimed the very file the finding is
\* about: if it shows another one by now, it has a conflict, which
\* forbidFieldConflicts reports.
BindingIsOnRecord ==
  \A e \in DOMAIN edges :
    e.relation = "affected_by" =>
      \A field \in {"uri", "digest"} :
        e.to[field] \in Candidates(nodes[e.from].claims[field])

\* The exported document is closed and whole: an edge is a dependency between two
\* of its components or one of a vulnerability's affects, and none is dropped.
ExportIsWhole ==
  LET bom == Export IN
    /\ \A e \in DOMAIN edges :
         IF e.relation = "affected_by"
         THEN e.to \in DOMAIN bom.vulnerabilities /\ e.from \in bom.vulnerabilities[e.to]
         ELSE e.from \in bom.components /\ e.to \in bom.dependencies[e.from]
    /\ \A f \in DOMAIN bom.vulnerabilities : bom.vulnerabilities[f] # {}
    /\ \A f \in DOMAIN bom.vulnerabilities :
         bom.vulnerabilities[f] \subseteq bom.components
    /\ \A c \in bom.components : bom.dependencies[c] \subseteq bom.components

\* An import changes nothing of a component that was not said before: it only
\* turns values without claims into claims.
ImportKeepsComponents ==
  [][reported' # reported =>
       \A id \in DOMAIN nodes :
         ~IsFinding(id) =>
           /\ nodes'[id].shown = nodes[id].shown
           /\ nodes'[id].evidence = nodes[id].evidence
           /\ nodes'[id].claims = EnsureFieldEvidence(nodes[id]).claims]_vars
=============================================================================
