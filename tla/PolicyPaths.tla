----------------------------- MODULE PolicyPaths -----------------------------
(***************************************************************************)
(* The search for a denied path in an evidence graph: matches and findPath *)
(* of internal/policy/policy.go, for one path rule.  The recursion is a    *)
(* stack: path is the path of the innermost call, and untried has what the *)
(* loop of every call has left to look at.                                 *)
(*                                                                         *)
(* Node identifiers are numbers, which are ordered as the strings are.  A  *)
(* selector is the set of nodes it matches.                                *)
(***************************************************************************)
EXTENDS Naturals, Sequences, FiniteSets
Sets == INSTANCE FiniteSetsExt
Seqs == INSTANCE SequencesExt

CONSTANTS
  Relations,        \* the kinds of relationship
  Graphs,           \* the graphs a policy is evaluated against
  Rules,            \* the path rules of policies
  MaxPathRelations  \* maxPathRelations, 8 in the code

\* An edge may name a node that the graph does not have.
AllGraphs ==
  [nodes : SUBSET Nat, edges : SUBSET [from : Nat, relation : Relations, to : Nat]]

ASSUME GraphsAssumption == Graphs \subseteq AllGraphs

ASSUME RulesAssumption ==
  \A r \in Rules :
    /\ r = [from |-> r.from, via |-> r.via, relations |-> r.relations, to |-> r.to]
    /\ r.from \subseteq Nat /\ r.to \subseteq Nat
    /\ r.via \in Seq(SUBSET Nat) /\ r.relations \in Seq(Relations)

ASSUME LimitAssumption == MaxPathRelations \in Nat

\* What compilePathRule does not refuse.
Compiled ==
  {r \in Rules : /\ Len(r.relations) \in 1..MaxPathRelations
                 /\ Len(r.via) \in {0, Len(r.relations) - 1}}

VARIABLES
  graph,    \* the graph
  rule,     \* the compiled rule
  starts,   \* the start nodes matches has still to look at
  path,     \* the nodes of the path being extended, <<>> between two starts
  untried,  \* per node of path: where its outgoing edges lead, not yet tried
  matches   \* the paths found

vars == <<graph, rule, starts, path, untried, matches>>

Last(seq) == seq[Len(seq)]
Full == Len(path) = Len(rule.relations) + 1

\* The targets of adjacency[n] for the i-th relation of the rule.  A full path
\* has no next relation.
Outgoing(n, i) ==
  {e.to : e \in {d \in graph.edges : /\ i \in DOMAIN rule.relations
                                     /\ d.from = n
                                     /\ d.relation = rule.relations[i]}}

Init ==
  /\ graph \in Graphs
  /\ rule \in Compiled
  /\ starts = graph.nodes \cap rule.from
  /\ path = <<>> /\ untried = <<>>
  /\ matches = {}

\* The next start, in the order of their identifiers.
Begin ==
  /\ path = <<>> /\ starts # {}
  /\ LET start == Sets!Min(starts) IN
       /\ starts' = starts \ {start}
       /\ path' = <<start>>
       /\ untried' = <<Outgoing(start, 1)>>
  /\ UNCHANGED <<graph, rule, matches>>

\* Mutant: via selectors are taken one position late.
AdmissibleLate(n) ==
  /\ n \in graph.nodes
  /\ \A i \in DOMAIN path : path[i] # n
  /\ Len(path) \in 2..Len(rule.via) => n \in rule.via[Len(path) - 1]

\* Mutant: an edge to a node that is missing is followed.
AdmissibleMissing(n) ==
  /\ \A i \in DOMAIN path : path[i] # n
  /\ Len(path) \in DOMAIN rule.via => n \in rule.via[Len(path)]

\* The loop's conditions on the next node: it exists, is not on the path, and
\* matches its via selector if the rule has any and it is not the last one.
Admissible(n) ==
  /\ n \in graph.nodes
  /\ \A i \in DOMAIN path : path[i] # n
  /\ Len(path) \in DOMAIN rule.via => n \in rule.via[Len(path)]

\* Mutant: the edges are taken in the opposite order.
NextLast == Sets!Max(Last(untried))

\* The adjacency of a node is sorted by the identifier of the target.
NextTarget == Sets!Min(Last(untried))

\* Mutant: the edge is not crossed off.
ExtendForEver ==
  /\ path # <<>> /\ Last(untried) # {}
  /\ IF Admissible(NextTarget)
     THEN /\ path' = Append(path, NextTarget)
          /\ untried' = Append(untried, Outgoing(NextTarget, Len(path) + 1))
     ELSE /\ untried' = [untried EXCEPT ![Len(untried)] = @ \ {NextTarget}]
          /\ UNCHANGED path
  /\ UNCHANGED <<graph, rule, starts, matches>>

\* One turn of the loop of findPath: the next edge is skipped or followed.
Extend ==
  /\ path # <<>> /\ Last(untried) # {}
  /\ LET rest == [untried EXCEPT ![Len(untried)] = @ \ {NextTarget}] IN
       IF Admissible(NextTarget)
       THEN /\ path' = Append(path, NextTarget)
            /\ untried' = Append(rest, Outgoing(NextTarget, Len(path) + 1))
       ELSE /\ untried' = rest
            /\ UNCHANGED path
  /\ UNCHANGED <<graph, rule, starts, matches>>

\* Mutant: a failed call ends the search.
BacktrackToStart ==
  /\ path # <<>> /\ Last(untried) = {} /\ ~(Full /\ Last(path) \in rule.to)
  /\ path' = <<>> /\ untried' = <<>>
  /\ UNCHANGED <<graph, rule, starts, matches>>

\* findPath returns without a path, and its caller's loop goes on.
Backtrack ==
  /\ path # <<>> /\ Last(untried) = {} /\ ~(Full /\ Last(path) \in rule.to)
  /\ path' = Seqs!Front(path) /\ untried' = Seqs!Front(untried)
  /\ UNCHANGED <<graph, rule, starts, matches>>

\* Every call returns the path at once, and matches has the one of this start.
Found ==
  /\ path # <<>> /\ Full /\ Last(path) \in rule.to
  /\ matches' = matches \cup {path}
  /\ path' = <<>> /\ untried' = <<>>
  /\ UNCHANGED <<graph, rule, starts>>

Next == Begin \/ Extend \/ Backtrack \/ Found

Spec == Init /\ [][Next]_vars

\* A single goroutine that waits for nothing.
FairSpec == Spec /\ WF_vars(Next)
-----------------------------------------------------------------------------
(***************************************************************************)
(* Properties.                                                             *)
(***************************************************************************)

\* Types of the state, and one loop per call.
TypeOK ==
  /\ graph \in AllGraphs /\ rule \in Compiled
  /\ starts \subseteq graph.nodes \cap rule.from
  /\ path \in Seq(graph.nodes) /\ Len(path) <= Len(rule.relations) + 1
  /\ untried \in Seq(SUBSET Nat) /\ Len(untried) = Len(path)
  /\ matches \subseteq Seq(graph.nodes)

\* The simple paths with exactly the rule's sequence of relationships between
\* nodes that its selectors match (SCHEMA.md, "deniedPaths").
DeniedPaths ==
  {q \in [1..Len(rule.relations) + 1 -> graph.nodes] :
     /\ q[1] \in rule.from /\ Last(q) \in rule.to
     /\ \A i \in DOMAIN rule.relations :
          [from |-> q[i], relation |-> rule.relations[i], to |-> q[i + 1]]
            \in graph.edges
     /\ \A i \in DOMAIN rule.via : q[i + 1] \in rule.via[i]
     /\ \A i, j \in DOMAIN q : i # j => q[i] # q[j]}

\* Nothing is reported but a denied path: backtracking leaves no node of an
\* abandoned path in the one that is reported.
OnlyDeniedPaths == matches \subseteq DeniedPaths

Decided(n) == n \notin starts /\ (path # <<>> => path[1] # n)

\* A start that the search is done with has a report if a denied path begins
\* there: no edge is skipped that leads to one, and no search ends too early.
NoDeniedPathMissed ==
  \A q \in DeniedPaths : Decided(q[1]) => \E p \in matches : p[1] = q[1]

\* The path reported for a start is the first in the order of identifiers: the
\* report depends on the graph only and not on the order of its edges.
FirstIsReported ==
  \A p \in matches, q \in DeniedPaths :
    p[1] = q[1] /\ p # q =>
      \E i \in DOMAIN p : p[i] < q[i] /\ \A j \in 1..i - 1 : p[j] = q[j]

\* The search ends, having looked at every start, so that NoDeniedPathMissed
\* comes to speak of the whole report. The rule bounds how deep a path goes, and
\* findPath's loop passes every edge of a node once.
SearchEnds == <>(starts = {} /\ path = <<>>)
=============================================================================
