------------------------------ MODULE Receiver ------------------------------
(***************************************************************************)
(* The live receiver of internal/collector/receiver.go: concurrent export  *)
(* requests, one mutex, the deduplication window, the queue of children    *)
(* whose parent is missing, the evidence graph and its two snapshot files. *)
(*                                                                         *)
(* A request is handled by one goroutine, named by the exporter that sent  *)
(* it.  Everything acceptBound does to memory is one step, taken with the  *)
(* mutex free; the two snapshot files are then written in two more steps   *)
(* with the mutex held, because a crash or a disk error may fall between   *)
(* them, and a failed request takes the mutex again to be counted.         *)
(*                                                                         *)
(* The graph is the bag of the evidence merged into it.  How a bag becomes *)
(* nodes, edges and fields, and how source trust caps its levels, is not   *)
(* modelled here.                                                          *)
(***************************************************************************)
EXTENDS TraceContext

CONSTANTS
  Exporters,       \* clients, one request in flight each
  Batches,         \* the span sequences one request may carry
  Protected,       \* sources with a credential binding
  Nobody,          \* the mutex is free
  Unbound,         \* the global credential, or none where none is required
  WriteBOM,        \* TRUE when Config.BOMOut is set
  MaxRequests,     \* bound: requests sent in a behaviour
  MaxRestarts      \* bound: process deaths in a behaviour

ASSUME ReceiverAssumption ==
  /\ Batches \subseteq Seq(Spans)
  /\ Protected \subseteq Sources
  /\ Unbound \notin Sources
  /\ Nobody \notin Exporters
  /\ WriteBOM \in BOOLEAN
  /\ MaxRequests \in Nat
  /\ MaxRestarts \in Nat

VARIABLES
  mu,         \* the exporter whose handler holds Receiver.mu, or Nobody
  handler,    \* per exporter: where its request is, and what it carries
  seen,       \* Receiver.seen
  seenOrder,  \* Receiver.seenOrder
  contexts,   \* Receiver.contexts, Unknown for a key without entry
  pending,    \* Receiver.pending
  graph,      \* Receiver.graph: how often each entry was merged
  stats,      \* Receiver.stats, the counters of spans
  graphFile,  \* the snapshot at Config.GraphOut
  bomFile,    \* the snapshot at Config.BOMOut, as the evidence it exports
  sent,       \* bound: requests sent so far
  restarts,   \* bound: process deaths so far
  pressure,   \* history: a window evicted, the queue overflowed, or a restart
  durable,    \* history: keys acknowledged while not pending
  vouched     \* history: observations received under a bound credential

memory == <<seen, seenOrder, contexts, pending, graph, stats>>
disk == <<graphFile, bomFile>>
bounds == <<sent, restarts>>
history == <<pressure, durable, vouched>>
vars == <<mu, handler, memory, disk, bounds, history>>

-----------------------------------------------------------------------------
\* A bag of entries.
NoEvidence == [e \in Entries |-> 0]
Contained(a, b) == \A e \in Entries : a[e] <= b[e]
KeysIn(bag) == {e.span.key : e \in {f \in Entries : bag[f] > 0}} \ {NoKey}
Elements(seq) == {seq[i] : i \in DOMAIN seq}
\* Mutant: a missing identifier is taken for a key.
KeysOfAll(observations) == {o.span.key : o \in Elements(observations)}

KeysOf(observations) == {o.span.key : o \in Elements(observations)} \ {NoKey}

NoContexts == [k \in Keys |-> Unknown]
NoStats == [requests |-> 0, received |-> 0, accepted |-> 0,
            duplicate |-> 0, pending |-> 0, failed |-> 0]

Stages == {"idle", "accept", "writeGraph", "writeBOM", "failed",
           "read", "respond"}
Idle == [stage |-> "idle", batch |-> <<>>]
Stage(e) == handler[e].stage
Move(e, stage) == handler' = [handler EXCEPT ![e].stage = stage]
Finish(e) == handler' = [handler EXCEPT ![e] = Idle]

Init ==
  /\ mu = Nobody
  /\ handler = [e \in Exporters |-> Idle]
  /\ seen = {} /\ seenOrder = <<>>
  /\ contexts = NoContexts
  /\ pending = <<>>
  /\ graph = NoEvidence
  /\ stats = NoStats
  /\ graphFile = NoEvidence /\ bomFile = NoEvidence
  /\ sent = 0 /\ restarts = 0
  /\ pressure = FALSE /\ durable = {} /\ vouched = {}

-----------------------------------------------------------------------------
(***************************************************************************)
(* A request arrives.  handleTraces and Export authenticate it and decode  *)
(* its body, and acceptAuthenticated binds its source, without the mutex.  *)
(* A request refused before its body is decoded changes nothing and is not *)
(* a step.                                                                 *)
(***************************************************************************)

\* The observations of a batch: a bound credential replaces the claimed source.
Bind(batch, credential) ==
  [i \in DOMAIN batch |->
     [span   |-> batch[i],
      source |-> IF credential \in Protected THEN credential
                 ELSE batch[i].source]]

\* Mutant: only the first observation is checked.
MayAssertFirst(batch, credential) ==
  credential \in Protected \/ batch[1].source \notin Protected

\* acceptAuthenticated: without a bound credential no observation of the batch
\* may claim a protected source.
MayAssert(batch, credential) ==
  \/ credential \in Protected
  \/ \A i \in DOMAIN batch : batch[i].source \notin Protected

Send(e) ==
  /\ Stage(e) = "idle"
  /\ sent < MaxRequests
  /\ sent' = sent + 1
  /\ UNCHANGED <<mu, memory, disk, restarts, pressure, durable>>

Receive(e) ==
  /\ Send(e)
  /\ \E batch \in Batches, credential \in Protected \cup {Unbound} :
       /\ MayAssert(batch, credential)
       /\ handler' = [handler EXCEPT ![e] =
            [stage |-> "accept", batch |-> Bind(batch, credential)]]
       /\ vouched' = IF credential \in Protected
                     THEN vouched \cup Elements(Bind(batch, credential))
                     ELSE vouched

\* The body does not decode, or the batch claims a source it may not: nothing is
\* accepted and the request is to be counted as failed.
Refuse(e) ==
  /\ Send(e)
  /\ Move(e, "failed")
  /\ UNCHANGED vouched

\* GET /v1/evidence, /v1/bom or /v1/stats.
ReceiveRead(e) ==
  /\ Send(e)
  /\ Move(e, "read")
  /\ UNCHANGED vouched

-----------------------------------------------------------------------------
(***************************************************************************)
(* acceptBound, up to persist.                                             *)
(***************************************************************************)

\* Mutant: keys are remembered only after the loop over the batch.
FreshBeforeBatch(batch) ==
  {i \in DOMAIN batch : batch[i].span.key = NoKey
                          \/ batch[i].span.key \notin seen}

\* The positions of a batch the deduplication loop lets through: observations
\* without identifiers, and the first of each key that is not remembered.
Fresh(batch) ==
  {i \in DOMAIN batch :
     LET key == batch[i].span.key IN
       \/ key = NoKey
       \/ /\ key \notin seen
          /\ \A j \in 1..(i - 1) : batch[j].span.key # key}

\* trimDedupe takes the context of an evicted key with it.
Forget(evicted) ==
  [k \in Keys |-> IF k \in evicted THEN Unknown ELSE contexts[k]]

\* BuildWithOptions and Merge: the released observations become evidence, each
\* attributed through the parents released with it.
EntryOf(work, agent, i) ==
  [span   |-> work[i].span,
   source |-> work[i].source,
   agent  |-> InheritedAgent([j \in DOMAIN agent |-> work[j].span], agent, i)]

\* Mutant: an entry that exists already is not counted again.
MergeNew(bag, work, agent) ==
  [e \in Entries |->
     IF bag[e] > 0 THEN bag[e]
     ELSE Cardinality({i \in DOMAIN agent : EntryOf(work, agent, i) = e})]

Merge(bag, work, agent) ==
  [e \in Entries |->
     bag[e] + Cardinality({i \in DOMAIN agent : EntryOf(work, agent, i) = e})]

\* resolveTraceContexts, trimTraceContexts and what they release.
Resolve(work, evicted) ==
  LET known == Forget(evicted) IN
  \E waiting \in InOrder(DOMAIN work \ Resolved(work, known)) :
    LET forced == Oldest(waiting)
        agent  == Leaving(work, known, forced)
    IN
      /\ pending' = At(work, Newest(waiting))
      /\ contexts' = Learn(known, work, agent, seen')
      /\ graph' = Merge(graph, work, agent)
      /\ pressure' = (pressure \/ evicted # {} \/ forced # {})

\* The dedupe loop's bookkeeping, and trimDedupe.
Remember(keys) ==
  /\ seenOrder' = Newest(seenOrder \o keys)
  /\ seen' = (seen \cup Elements(keys))
               \ Oldest(seenOrder \o keys)

Accept(e) ==
  /\ Stage(e) = "accept"
  /\ mu = Nobody
  /\ mu' = e
  /\ Move(e, "writeGraph")
  /\ LET batch == handler[e].batch
         fresh == Fresh(batch)
     IN  \E order \in InOrder(fresh),
            named \in InOrder({i \in fresh : batch[i].span.key # NoKey}) :
           LET unique == At(batch, order)
               keys   == [n \in DOMAIN named |-> batch[named[n]].span.key]
           IN
             /\ Remember(keys)
             /\ IF unique = <<>>
                THEN UNCHANGED <<contexts, pending, graph, pressure>>
                ELSE Resolve(pending \o unique, Oldest(seenOrder \o keys))
             /\ stats' =
                  [requests  |-> stats.requests + 1,
                   received  |-> stats.received + Len(batch),
                   accepted  |-> stats.accepted + Len(unique),
                   duplicate |-> stats.duplicate + (Len(batch) - Len(unique)),
                   pending   |-> Len(pending'),
                   failed    |-> stats.failed]
  /\ UNCHANGED <<disk, bounds, durable, vouched>>

-----------------------------------------------------------------------------
(***************************************************************************)
(* persist, with the mutex held.  writeFileAtomic writes a temporary file  *)
(* and renames it, so a snapshot is replaced whole or not at all.          *)
(***************************************************************************)

\* acceptBound returns without an error: the mutex is released and the request
\* acknowledged.
Acknowledge(e) ==
  /\ mu' = Nobody
  /\ Finish(e)
  /\ durable' = durable \cup (KeysOf(handler[e].batch) \ KeysOf(pending))

WriteGraphFile(e) ==
  /\ Stage(e) = "writeGraph"
  /\ graphFile' = graph
  /\ IF WriteBOM THEN Move(e, "writeBOM") /\ UNCHANGED <<mu, durable>>
                 ELSE Acknowledge(e)
  /\ UNCHANGED <<memory, bomFile, bounds, pressure, vouched>>

WriteBOMFile(e) ==
  /\ Stage(e) = "writeBOM"
  /\ bomFile' = graph
  /\ Acknowledge(e)
  /\ UNCHANGED <<memory, graphFile, bounds, pressure, vouched>>

\* Mutant: the error of a write is not returned.
WriteFailsSilently(e) ==
  /\ Stage(e) \in {"writeGraph", "writeBOM"}
  /\ Acknowledge(e)
  /\ UNCHANGED <<memory, disk, bounds, pressure, vouched>>

\* Mutant: the mutex is not released on the error path.
WriteFailsLocked(e) ==
  /\ Stage(e) \in {"writeGraph", "writeBOM"}
  /\ Move(e, "failed")
  /\ UNCHANGED <<mu, memory, disk, bounds, history>>

\* A snapshot cannot be written: the file keeps its old content, what memory has
\* accepted stays accepted, and the request fails.
WriteFails(e) ==
  /\ Stage(e) \in {"writeGraph", "writeBOM"}
  /\ mu' = Nobody
  /\ handler' = [handler EXCEPT ![e] = [Idle EXCEPT !.stage = "failed"]]
  /\ UNCHANGED <<memory, disk, bounds, history>>

\* recordFailure takes the mutex again; then the error is answered.
RecordFailure(e) ==
  /\ Stage(e) = "failed"
  /\ mu = Nobody
  /\ stats' = [stats EXCEPT !.failed = @ + 1]
  /\ Finish(e)
  /\ UNCHANGED <<mu, seen, seenOrder, contexts, pending, graph, disk, bounds,
                 history>>

-----------------------------------------------------------------------------
\* A read holds the mutex while it writes its answer to the client.
Serve(e) ==
  /\ Stage(e) = "read"
  /\ mu = Nobody
  /\ mu' = e
  /\ Move(e, "respond")
  /\ UNCHANGED <<memory, disk, bounds, history>>

\* The client has the answer, or the server's WriteTimeout has passed.
Served(e) ==
  /\ Stage(e) = "respond"
  /\ mu' = Nobody
  /\ Finish(e)
  /\ UNCHANGED <<memory, disk, bounds, history>>

-----------------------------------------------------------------------------
\* loadExistingGraph: the graph a new process starts from.
\* Mutant: the existing file is not read.
LoadedNothing == NoEvidence
Loaded == graphFile

\* The process dies, at any point, and New starts another one over the same
\* files: loadExistingGraph reads the graph, everything else starts empty.
Restart ==
  /\ restarts < MaxRestarts
  /\ restarts' = restarts + 1
  /\ mu' = Nobody
  /\ handler' = [e \in Exporters |-> Idle]
  /\ seen' = {} /\ seenOrder' = <<>>
  /\ contexts' = NoContexts
  /\ pending' = <<>>
  /\ graph' = Loaded
  /\ stats' = NoStats
  /\ pressure' = TRUE
  /\ UNCHANGED <<disk, sent, durable, vouched>>

-----------------------------------------------------------------------------
Step(e) ==
  \/ Receive(e) \/ Refuse(e) \/ ReceiveRead(e)
  \/ Accept(e) \/ WriteGraphFile(e) \/ WriteBOMFile(e) \/ WriteFails(e)
  \/ RecordFailure(e)
  \/ Serve(e) \/ Served(e)

Next == Restart \/ \E e \in Exporters : Step(e)

Spec == Init /\ [][Next]_vars

\* A goroutine that can run runs.  sync.Mutex hands itself to a waiter that has
\* waited for a millisecond, so a handler that wants it again and again gets it;
\* a write to disk ends, well or badly, and WriteTimeout ends a write to a client.
Fairness ==
  \A e \in Exporters :
    /\ SF_vars(Accept(e)) /\ SF_vars(RecordFailure(e)) /\ SF_vars(Serve(e))
    /\ WF_vars(WriteGraphFile(e) \/ WriteBOMFile(e) \/ WriteFails(e))
    /\ WF_vars(Served(e))

FairSpec == Spec /\ Fairness
-----------------------------------------------------------------------------
(***************************************************************************)
(* Properties.                                                             *)
(***************************************************************************)

\* Types of the state.
TypeOK ==
  /\ mu \in Exporters \cup {Nobody}
  /\ handler \in [Exporters -> [stage : Stages, batch : Seq(Observations)]]
  /\ seen \subseteq Keys /\ seenOrder \in Seq(Keys)
  /\ contexts \in [Keys -> AgentContexts \cup {Unknown}]
  /\ pending \in Seq(Observations)
  /\ graph \in [Entries -> Nat]
  /\ stats \in [requests : Nat, received : Nat, accepted : Nat,
                duplicate : Nat, pending : Nat, failed : Nat]
  /\ graphFile \in [Entries -> Nat] /\ bomFile \in [Entries -> Nat]
  /\ sent \in 0..MaxRequests /\ restarts \in 0..MaxRestarts
  /\ pressure \in BOOLEAN /\ durable \subseteq Keys
  /\ vouched \subseteq Observations

\* The set the deduplication loop looks keys up in and the order trimDedupe
\* evicts them in are the same keys, each once: a key in the set alone would
\* never be evicted, one in the order twice would be forgotten while it counts
\* as recent.
WindowIsOneQueue ==
  /\ seen = Elements(seenOrder)
  /\ \A i, j \in DOMAIN seenOrder : seenOrder[i] = seenOrder[j] => i = j

\* MaxDedupeItems bounds the window, the queue of waiting children and the
\* retained contexts, whatever order spans arrive in (RUNTIME_RECEIVER.md,
\* "Resource and retry controls").
MemoryBounded ==
  /\ Len(seenOrder) <= MaxDedupeItems
  /\ Len(pending) <= MaxDedupeItems
  /\ {k \in Keys : contexts[k] # Unknown} \subseteq seen

\* A remembered span is in the graph or waits for its parent.  Were it in
\* neither, its retries would be acknowledged as duplicates and its evidence
\* lost.
RememberedIsHeld == seen \subseteq KeysIn(graph) \cup KeysOf(pending)

\* No span waits for a parent whose agent is known: a resolution releases all
\* descendants it can, across requests.  A parent that was itself forced out of
\* the queue has the empty context and may leave a child behind.
NoStrandedChild ==
  \A i \in DOMAIN pending :
    LET span == pending[i].span IN
      /\ span.agent = NoAgent /\ span.parent # NoKey
      /\ contexts[span.parent] \in {Unknown, NoAgent}
      /\ contexts[span.parent] = NoAgent => pressure

\* A span is attributed to its nearest explicit agent or to none, in whatever
\* order and company it arrives, through evictions, overflow and restarts:
\* never to the agent of another subtree.
NeverMisattributed ==
  /\ \A e \in Entries : graph[e] > 0 => e.agent \in {NoAgent, TrueAgent[e.span]}
  /\ \A s \in Spans :
       s.key # NoKey =>
         contexts[s.key] \in {Unknown, NoAgent, TrueAgent[s]}

\* Without eviction, overflow or restart nothing is attributed to the service
\* fallback that has an explicit agent above it, even if the parent came later.
ExactWithoutPressure ==
  ~pressure =>
    \A e \in Entries : graph[e] > 0 => e.agent = TrueAgent[e.span]

\* Without eviction, overflow or restart a span with identifiers is counted at
\* most once, and not while it still waits, whatever is sent again, in one batch
\* or in several, by one exporter or by several.
CountedOnce ==
  ~pressure =>
    /\ \A e, f \in Entries :
         graph[e] > 0 /\ graph[f] > 0 /\ e.span.key = f.span.key
         /\ e.span.key # NoKey => e = f /\ graph[e] = 1
    /\ KeysIn(graph) \cap KeysOf(pending) = {}

\* What was acknowledged and not left waiting is in the graph file from then on:
\* through failed writes, crashes between the two files, and restarts.
AcknowledgedIsDurable == durable \subseteq KeysIn(graphFile)

\* Evidence under a protected source was received under a credential bound to it,
\* however long the span waited and whoever sent its parent.
ProtectedIsVouched ==
  \A e \in Entries :
    graph[e] > 0 /\ e.source \in Protected
      => [span |-> e.span, source |-> e.source] \in vouched

\* A bag as a set, in which an entry counted n times is n pieces, and how many
\* pieces that is.
Pieces(bag) == UNION {{e} \X (1..bag[e]) : e \in Entries}
Total(bag) == Cardinality(Pieces(bag))

\* Each accepted observation becomes one piece of evidence or waits, none is
\* dropped and none is made up: the counters, the graph and the queue move
\* together in every step of a process.
Conservation ==
  [][restarts' = restarts =>
       /\ Total(graph') + Len(pending') - stats'.accepted
            = Total(graph) + Len(pending) - stats.accepted
       /\ stats'.received = stats'.accepted + stats'.duplicate
       /\ stats'.pending = Len(pending')]_vars

\* The receiver implements the ledger it promises.
Ledger == INSTANCE EvidenceLedger WITH
  Facts <- Entries, counted <- graph, published <- graphFile,
  exported <- bomFile
ImplementsLedger == Ledger!LedgerSpec

\* Every request is answered: nothing waits for the mutex, or holds it, for ever.
EveryRequestAnswered ==
  \A e \in Exporters : Stage(e) # "idle" ~> Stage(e) = "idle"
=============================================================================
