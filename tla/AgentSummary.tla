---------------------------- MODULE AgentSummary ----------------------------
(***************************************************************************)
(* The graph that collect makes of the spans of a trace, beside the one    *)
(* scan makes of the same spans in one document.  Collect reduces every    *)
(* span and normalizes in batches of its own: what it releases at once,    *)
(* whatever requests the spans came in.  An invoke_agent span may name the *)
(* model its agent was asked to use; prepareObservations                   *)
(* (internal/normalize/context.go) takes the model from it if a concrete   *)
(* operation below it is in the same batch.                                *)
(*                                                                         *)
(* Every span is sent once and nothing is evicted (module Receiver has     *)
(* both) and has a key, so the context of a released span is the one       *)
(* retained for its key, and what its batch would give it.                 *)
(***************************************************************************)
EXTENDS SpanFacts

CONSTANT MaxBatch  \* bound: spans in a request

ASSUME SummaryAssumption ==
  /\ MaxBatch \in Nat
  /\ \A s \in Spans : s.key # NoKey
  /\ \A s, t \in Spans : s.key = t.key => s = t
  /\ NoAgent \notin Keys

VARIABLES
  left,      \* spans not exported yet
  pending,   \* observations waiting for their parent
  contexts,  \* per key: its agent context, or Unknown
  merged,    \* spans in the graph, with their agent, whole or without their model
  inOrder    \* history: no span was exported before the spans below it

vars == <<left, pending, contexts, merged, inOrder>>

Merged == [span : Spans, agent : AgentContexts, whole : BOOLEAN]

Init ==
  /\ left = Spans
  /\ pending = <<>>
  /\ contexts = [k \in Keys |-> Unknown]
  /\ merged = {}
  /\ inOrder = TRUE

\* Mutant: one call suppresses every summary of its batch.
SuppressedAll(batch) ==
  {s \in batch : IsSummary(s) /\ \E call \in batch : IsConcrete(call)}

\* From every concrete operation up to the first invoke_agent span of the batch.
Suppressed(batch) ==
  LET itself == [s \in batch |-> s]
      stop   == [s \in batch |-> IF IsSummary(s) THEN s.key ELSE NoAgent]
      above  == UNION {Lineage(itself, stop, call) : call \in {s \in batch : IsConcrete(s)}}
  IN  {s \in above : IsSummary(s)}

\* BuildWithOptions, for spans with their agents.
Built(batch, agent) ==
  LET without == Suppressed(batch) IN
    {[span |-> s, agent |-> agent[s], whole |-> s \notin without] : s \in batch}

\* acceptBound: what was waiting and is new is resolved, and what is resolved is
\* one batch for BuildWithOptions.
Accept(batch) ==
  LET work == pending \o [i \in DOMAIN batch |-> [span   |-> batch[i],
                                                  source |-> batch[i].source]]
      ready == Resolved(work, contexts)
  IN  /\ contexts' = Learn(contexts, work,
                           [i \in ready |-> ResolvedContext(work, contexts, i)], Keys)
      /\ merged' = merged \cup
           Built({work[i].span : i \in ready}, [s \in Spans |-> contexts'[s.key]])
      /\ \E waiting \in InOrder(DOMAIN work \ ready) : pending' = At(work, waiting)

Export(batch) ==
  /\ \A i, j \in DOMAIN batch : i # j => batch[i] # batch[j]
  /\ inOrder' = (inOrder /\ \A i \in DOMAIN batch, s \in left :
       s.parent = batch[i].key => \E j \in DOMAIN batch : batch[j] = s)
  /\ left' = left \ {batch[i] : i \in DOMAIN batch}
  /\ Accept(batch)

Next == \E size \in 1..MaxBatch : \E batch \in [1..size -> left] : Export(batch)

Spec == Init /\ [][Next]_vars

-----------------------------------------------------------------------------
Told(attributes, e) ==
  {[span |-> e.span, fact |-> f] :
     f \in Facts(IF e.whole THEN attributes ELSE WithoutModel(attributes), e.agent)}

\* The graph: every fact with the spans it is from.
Collected == UNION {Told(Reduced(Says[e.span]), e) : e \in merged}
Scanned == UNION {Told(Says[e.span], e) : e \in Built(Spans, TrueAgent)}

\* The spans counted as a model call.
Counted == {e.span : e \in {m \in merged : m.whole /\ Says[m.span].model # NoName}}

-----------------------------------------------------------------------------
(***************************************************************************)
(* Properties.                                                             *)
(***************************************************************************)

\* The spans below a span, those below another invoke_agent span excepted.
Below(s) ==
  {t \in Spans :
     \A S \in SUBSET Spans :
       (\A u \in Spans :
          \/ u.parent = s.key
          \/ \E v \in S : ~IsSummary(v) /\ u.parent = v.key
          => u \in S)
       => t \in S}

\* While spans are exported as they end, a summary is not counted beside a concrete
\* call below it (SCHEMA.md, "This avoids counting one call twice").
NoCallCountedTwice ==
  inOrder => \A s, t \in Counted :
    IsSummary(s) /\ IsConcrete(t) => t \notin Below(s)

\* A span is still to come, waits, or is in the graph, once; it is there without its
\* model only if it is a summary and a concrete operation below it is there whole.
NoCallUncounted ==
  LET waiting == {pending[i].span : i \in DOMAIN pending}
      there   == {e.span : e \in merged}
  IN  /\ merged \subseteq Merged /\ Cardinality(there) = Cardinality(merged)
      /\ Cardinality(waiting) = Len(pending)
      /\ left \cup waiting \cup there = Spans
      /\ left \cap (waiting \cup there) = {} /\ waiting \cap there = {}
      /\ \A e \in merged : ~e.whole =>
           /\ IsSummary(e.span)
           /\ \E c \in merged : c.whole /\ IsConcrete(c.span) /\ c.span \in Below(e.span)

\* No span below another names an agent of its own, except for summaries: a call that
\* does is released before the summary above it.
OnlySummariesAreNamed ==
  \A s \in Spans : s.agent # NoAgent => IsSummary(s) \/ s.parent = NoKey

\* When everything has arrived, in whatever order, collect has the nodes and edges of
\* a scan, each from the same spans, except for models and for agents that only
\* attributes outside the allowlist gave away; in order of ending, for models too,
\* if no call names its agent.
CollectAgreesWithScan ==
  left = {} /\ pending = <<>> =>
    LET model(p) == [type |-> "model", name |-> Says[p.span].model, provider |-> NoName]
        ofModel  == {p \in Scanned \cup Collected :
                       \/ p.fact = model(p)
                       \/ "to" \in DOMAIN p.fact /\ p.fact.to = model(p)}
        lost     == {p \in Scanned :
                       p.fact \in KnownToScanOnly(p.span, TrueAgent[p.span])}
    IN  /\ Collected \ ofModel = (Scanned \ ofModel) \ lost
        /\ inOrder /\ OnlySummariesAreNamed
             => Collected \cap ofModel = (Scanned \cap ofModel) \ lost
=============================================================================
