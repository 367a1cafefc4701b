--------------------------- MODULE EvidenceGraph ---------------------------
(***************************************************************************)
(* What becomes of the observations of one node: trust caps them           *)
(* (internal/trust), a batch is built from them (internal/normalize), the  *)
(* batch is merged into the receiver's graph (internal/aggregate), and a   *)
(* restart caps the graph it loads.  The node has one mutable field, its   *)
(* version; digests and properties are claimed the same way.  An edge is a *)
(* node without fields.                                                    *)
(***************************************************************************)
EXTENDS Evidence, Functions
Sets == INSTANCE FiniteSetsExt

CONSTANTS
  Observations,     \* what spans may say of the node
  Policies,         \* the trust policies a process may be started with
  Stored,           \* the nodes a first process may find in the graph file
  MaxObservations,  \* bound: observations in a behaviour
  MaxRestarts       \* bound: restarts in a behaviour

AllNodes == [version  : Values \cup {0}, observed : SUBSET Values,
             claims   : AllClaims,       evidence : Summaries]
NoNode == [version |-> 0, observed |-> {}, claims |-> NoClaims,
           evidence |-> NoSummary]

\* An observation of any kind has a level, a source and a time; it may lack a
\* trace identifier and a version.
ASSUME GraphAssumption ==
  /\ Observations \subseteq [level : Inferred..Verified, source : Sources,
                             trace : Nat, time : Nat \ {0},
                             value : Values \cup {0}]
  /\ Policies \subseteq TrustPolicies
  /\ MaxObservations \in Nat
  /\ MaxRestarts \in Nat

\* The first process finds no node, or one from before field evidence existed,
\* which has a version and no claims.  Every decoder names a source and a time.
ASSUME StoredAssumption ==
  /\ Stored \subseteq AllNodes
  /\ \A n \in Stored : n # NoNode =>
       /\ n.evidence.level # 0 /\ n.evidence.count > 0
       /\ n.evidence.sources # {} /\ n.evidence.first \in 1..n.evidence.last
       /\ n.claims = NoClaims
       /\ Cardinality(n.evidence.traces) <= MaxTraceIDs

VARIABLES
  process,   \* the command that runs, or "scanned" when a scan has ended
  policy,    \* its trust policy
  batch,     \* the node in its Builder
  node,      \* the node in the graph: the receiver's, or the one scan wrote
  restarts,  \* bound: restarts so far
  loaded,    \* history: the node this process started with
  gathered,  \* history: the observations in batch, at their capped levels
  arrived,   \* history: the observations merged by this process
  claimed    \* history: the observations of every process, uncapped

vars == <<process, policy, batch, node, restarts, loaded, gathered, arrived,
          claimed>>

-----------------------------------------------------------------------------
(***************************************************************************)
(* Building a batch.                                                       *)
(***************************************************************************)

\* Mutant: the level is not looked at.
ApplyNothing(p, o) == o

\* Policy.Apply.
Apply(p, o) ==
  IF o.level > MaximumFor(p, o.source)
  THEN [o EXCEPT !.level = MaximumFor(p, o.source)] ELSE o

ObservationEvidence(o) ==
  [level |-> o.level, count |-> 1, sources |-> {o.source},
   traces |-> {o.trace} \ {0}, first |-> o.time, last |-> o.time]

\* The builder's list of a node's trace identifiers is cut to its first entries,
\* of which several may be the same: slots counts them.
EmptyBatch == [evidence |-> NoSummary, slots |-> 0, claims |-> NoClaims]

\* Mutant: the list is not cut.
AddNodeUncut(b, o) ==
  LET claim == ObservationEvidence(o) IN
    [evidence |-> MergeEvidenceSummary(b.evidence, claim),
     slots    |-> b.slots + Cardinality(claim.traces),
     claims   |-> [v \in Values |->
                     IF v = o.value
                     THEN MergeEvidenceSummary(b.claims[v], claim)
                     ELSE b.claims[v]]]

\* addNode, mergeEvidence.
AddNode(b, o) ==
  LET claim == ObservationEvidence(o)
      kept  == IF b.slots < MaxTraceIDs THEN claim.traces ELSE {}
  IN  [evidence |-> MergeEvidenceSummary(b.evidence,
                                         [claim EXCEPT !.traces = kept]),
       slots    |-> b.slots + Cardinality(kept),
       claims   |-> [v \in Values |->
                       IF v = o.value
                       THEN MergeEvidenceSummary(b.claims[v], claim)
                       ELSE b.claims[v]]]

ResolveFieldEvidence(n) ==
  IF Candidates(n.claims) = {} THEN n
  ELSE [n EXCEPT !.version = Selected(n.claims),
                 !.observed = @ \cup Candidates(n.claims)]

\* BuildWithOptions, once every observation of the request is added.
Build(b) ==
  ResolveFieldEvidence(
    [version  |-> 0, observed |-> {}, evidence |-> b.evidence,
     claims   |-> [v \in Values |-> LimitTraces(b.claims[v])]])

-----------------------------------------------------------------------------
(***************************************************************************)
(* Merging it.                                                             *)
(***************************************************************************)

\* Mutant: old values are taken at the level of their node.
EnsureAtNodeLevel(n) ==
  [n EXCEPT !.claims = [v \in Values |->
     IF v \in Candidates(n.claims) THEN n.claims[v]
     ELSE IF v = n.version \/ v \in n.observed THEN n.evidence
     ELSE NoSummary]]

\* Mutant: only the version shown becomes a claim.
EnsureShown(n) ==
  LET legacy == [n.evidence EXCEPT !.level = Inferred, !.count = 1] IN
    [n EXCEPT !.claims = [v \in Values |->
       IF v \in Candidates(n.claims) THEN n.claims[v]
       ELSE IF v = n.version THEN legacy ELSE NoSummary]]

\* The values of a node from before field evidence become inferred claims, the
\* former ones without times.
EnsureFieldEvidence(n) ==
  LET legacy   == [n.evidence EXCEPT !.level = Inferred, !.count = 1]
      historic == [legacy EXCEPT !.first = 0, !.last = 0]
  IN  [n EXCEPT !.claims = [v \in Values |->
         IF v \in Candidates(n.claims) THEN n.claims[v]
         ELSE IF v = n.version THEN legacy
         ELSE IF v \in n.observed THEN historic
         ELSE NoSummary]]

\* mergeNode, or the append of a node the graph does not have yet.
MergeNode(current, incoming) ==
  ResolveFieldEvidence(
    [version  |-> current.version,
     observed |-> current.observed \cup incoming.observed,
     claims   |-> MergeClaims(current.claims, incoming.claims),
     evidence |-> MergeEvidenceSummary(current.evidence, incoming.evidence)])

\* Merge, for this node of the graph.
Merge(current, incoming) ==
  LET merged == MergeNode(ResolveFieldEvidence(EnsureFieldEvidence(current)),
                          ResolveFieldEvidence(EnsureFieldEvidence(incoming)))
  IN  [merged EXCEPT !.claims = [v \in Values |-> LimitTraces(@[v])],
                     !.evidence = LimitTraces(@)]

\* Mutant: only the node's own summary is capped.
CapNodeOnly(p, n) == [n EXCEPT !.evidence = CapSummary(p, @)]

\* Mutant: capped claims are not resolved again.
CapUnresolved(p, n) ==
  [n EXCEPT !.claims = [v \in Values |-> CapSummary(p, @[v])],
            !.evidence = CapSummary(p, @)]

\* CapGraphInPlace, for this node, and the Canonicalize after it.
CapNode(p, n) ==
  ResolveFieldEvidence(
    [n EXCEPT !.claims = [v \in Values |-> CapSummary(p, @[v])],
              !.evidence = CapSummary(p, @)])

-----------------------------------------------------------------------------
CappedObservations == {Apply(p, o) : p \in Policies, o \in Observations}
NoObservations == [o \in CappedObservations |-> 0]

\* The graph file is made by a first collect, or by a scan.
Init ==
  /\ process \in {"scan", "collect"}
  /\ policy \in Policies
  /\ batch = EmptyBatch
  /\ IF process = "scan" THEN node = NoNode
     ELSE \E n \in Stored : node = CapNode(policy, n)
  /\ restarts = 0
  /\ loaded = node
  /\ gathered = NoObservations /\ arrived = NoObservations /\ claimed = {}

\* One more observation of the request being accepted, or of the document being
\* scanned.  What OTLP says is observed at most (otlpEvidenceLevel).
AddObservation(o) ==
  /\ process # "scanned"
  /\ process = "collect" => o.level <= Observed
  /\ SumFunction(gathered) + SumFunction(arrived) < MaxObservations
  /\ batch' = AddNode(batch, Apply(policy, o))
  /\ gathered' = [gathered EXCEPT ![Apply(policy, o)] = @ + 1]
  /\ claimed' = claimed \cup {o}
  /\ UNCHANGED <<process, policy, node, restarts, loaded, arrived>>

BatchIsDone ==
  /\ batch' = EmptyBatch
  /\ arrived' = [o \in CappedObservations |-> arrived[o] + gathered[o]]
  /\ gathered' = NoObservations
  /\ UNCHANGED <<policy, restarts, loaded, claimed>>

\* The request is merged.  It may have said nothing of this node.
MergeBatch ==
  /\ process = "collect"
  /\ node' = Merge(node, Build(batch))
  /\ UNCHANGED process
  /\ BatchIsDone

\* runScan writes the graph of its one document.
WriteScan ==
  /\ process = "scan"
  /\ node' = Build(batch)
  /\ process' = "scanned"
  /\ BatchIsDone

\* New and loadExistingGraph, by a collect with this policy.
Restart(p) ==
  /\ restarts < MaxRestarts
  /\ restarts' = restarts + 1
  /\ process' = "collect"
  /\ policy' = p
  /\ node' = CapNode(p, node)
  /\ loaded' = node'
  /\ batch' = EmptyBatch
  /\ gathered' = NoObservations /\ arrived' = NoObservations
  /\ UNCHANGED claimed

Next ==
  \/ \E o \in Observations : AddObservation(o)
  \/ MergeBatch \/ WriteScan
  \/ \E p \in Policies : Restart(p)

Spec == Init /\ [][Next]_vars
-----------------------------------------------------------------------------
(***************************************************************************)
(* Properties.                                                             *)
(***************************************************************************)

\* Types of the state.
TypeOK ==
  /\ process \in {"scan", "scanned", "collect"} /\ policy \in Policies
  /\ batch \in [evidence : Summaries, slots : 0..MaxTraceIDs, claims : AllClaims]
  /\ node \in AllNodes /\ loaded \in AllNodes
  /\ restarts \in 0..MaxRestarts
  /\ gathered \in [CappedObservations -> Nat]
  /\ arrived \in [CappedObservations -> Nat]
  /\ claimed \subseteq Observations

\* No summary of the graph is stronger than the strongest maximum of its sources
\* under the policy in force: not after merging what other processes left, and
\* not after a restart under a stricter policy (THREAT_MODEL.md, "reapplies
\* current source caps").
IsCapped(p, s) == s.level <= Ceiling(p, s.sources)
WithinCeilings ==
  /\ IsCapped(policy, node.evidence)
  /\ \A v \in Values : IsCapped(policy, node.claims[v])

\* The value shown is the strongest claim, then the latest, then the smallest,
\* whenever there are claims: also after a restart has weakened some of them
\* (README.md, "the strongest evidence, then the latest observation time").
SelectedIsStrongest ==
  \A v \in Candidates(node.claims) :
    LET chosen == node.claims[node.version]
        other  == node.claims[v]
    IN  /\ other.level <= chosen.level
        /\ other.level = chosen.level => other.last <= chosen.last
        /\ other.level = chosen.level /\ other.last = chosen.last
             => node.version <= v

\* What a node as a whole is known by backs what is known of its field: a claim
\* is never stronger, more frequent, wider or later than its node.
NodeBacksItsField ==
  \A v \in Candidates(node.claims) :
    LET claim == node.claims[v]
        whole == node.evidence
    IN  /\ claim.level <= whole.level
        /\ claim.count <= whole.count
        /\ claim.sources \subseteq whole.sources
        /\ claim.last <= whole.last
        /\ claim.first # 0 => whole.first \in 1..claim.first

\* A summary computed at once from a base and a set of observations.
Reference(base, told) ==
  LET times == ({base.first} \cup {o.time : o \in told}) \ {0} IN
    [level   |-> Sets!Max({base.level} \cup {o.level : o \in told}),
     count   |-> base.count + SumFunctionOnSet(arrived, told),
     sources |-> base.sources \cup {o.source : o \in told},
     traces  |-> Limited(base.traces \cup {o.trace : o \in told}),
     first   |-> IF times = {} THEN 0 ELSE Sets!Min(times),
     last    |-> Sets!Max({base.last} \cup {o.time : o \in told})]

Told(values) == {o \in CappedObservations : arrived[o] > 0 /\ o.value \in values}

\* What the graph says is a function of what was merged, not of the order it came
\* in or of how requests grouped it (SCHEMA.md, "independent of arrival order").
\* A node's own trace identifiers are the exception: they are those of the first
\* observations of every batch, and no more than MaxTraceIDs of them.
FunctionOfEvidence ==
  arrived # NoObservations =>
    /\ \A v \in Values :
         node.claims[v] = Reference(EnsureFieldEvidence(loaded).claims[v], Told({v}))
    /\ node.evidence = [Reference(loaded.evidence, Told(Values \cup {0}))
                          EXCEPT !.traces = node.evidence.traces]
    /\ node.evidence.traces
         \subseteq loaded.evidence.traces \cup {o.trace : o \in Told(Values \cup {0})}
    /\ Cardinality(node.evidence.traces) <= MaxTraceIDs

\* No claim is stronger than some observation of that very value: it takes nothing
\* from the level of its node, of another value, or of what a program from before
\* field evidence wrote (SCHEMA.md, "When a v0.7 graph").
NoInventedStrength ==
  \A v \in Candidates(node.claims) :
    \/ node.claims[v].level = Inferred
    \/ \E o \in claimed : o.value = v /\ o.level >= node.claims[v].level

Covers(new, old) ==
  /\ new.count >= old.count
  /\ old.sources \subseteq new.sources
  /\ new.last >= old.last
  /\ old.first # 0 => new.first \in 1..old.first

\* No step takes evidence back: counts, sources, times and versions only grow, and
\* a level drops only when a process starts (SCHEMA.md, "Continuous collection").
EvidenceNeverShrinks ==
  [][/\ Covers(node'.evidence, node.evidence)
     /\ \A v \in Values : Covers(node'.claims[v], node.claims[v])
     /\ node.observed \subseteq node'.observed
     /\ restarts' = restarts =>
          /\ node'.evidence.level >= node.evidence.level
          /\ \A v \in Values : node'.claims[v].level >= node.claims[v].level]_vars

\* validateFieldEvidence of signing.go: claims, where there are any, agree with the
\* values that older consumers read.
Signable(n) ==
  Candidates(n.claims) # {} =>
    /\ n.version = Selected(n.claims)
    /\ n.observed = Candidates(n.claims)
    /\ \A v \in Candidates(n.claims) : n.claims[v].level \in Inferred..Verified

\* Whatever collect or scan has written can be signed: upgrades, merges and capping
\* never leave a node that the signer takes for tampered with.
CanBeSigned == Signable(node)

\* SCHEMA.md:50 says that untrusted verification does not survive a restart: a
\* claim keeps only a level that some observation of it has under the policy in
\* force.  A summary has one level for all its sources, and it is capped by the
\* strongest of them.
StrengthIsEarned ==
  \A v \in Candidates(node.claims) :
    \/ node.claims[v].level = Inferred
    \/ \E o \in claimed :
         o.value = v /\ Apply(policy, o).level >= node.claims[v].level
=============================================================================
