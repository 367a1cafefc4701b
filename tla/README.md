# A formal model of AI Evidence BOM

TLA+ modules for the parts of this repository whose behaviour is hard to test,
TLC configurations that check them on small instances, and proofs that TLAPS
checks for every instance.

`aiebom` turns runtime telemetry of AI agents into an evidence graph: which
agent called which model, tool or server, how often, and how well attested that
is. The graph is published as a JSON file and as a CycloneDX BOM, compared with
earlier ones, tested against policies and signed. A graph is made either by a
batch command from files, or by the live receiver, a process that accepts
OTLP spans over HTTP and gRPC and keeps both files current. The receiver is the
only part with concurrency, retained state and crash recovery, and it is the
core of this model; modules beside it cover what the normalizer makes of a span,
the evidence graph, the life of the collecting process, the import of scanner
findings, the policy and the diff a pipeline gates on, and the files that key
generation, signing and verifying leave for one another.

## 1. Inventory

| part | state it keeps | operations | who calls it |
|---|---|---|---|
| live receiver `internal/collector/receiver.go` | one mutex; `seen` and `seenOrder` (deduplication window); `contexts` (agent of a remembered span); `pending` (children whose parent is missing); `graph`; `stats`; two snapshot files | `New` (loads the graph file), `handleTraces` and `Export` (ingest), `handleEvidence`, `handleBOM`, `handleStats` (reads), `acceptBound`, `resolveTraceContexts`, `trimDedupe`, `persist`, `recordFailure` | HTTP and gRPC servers, one goroutine a request |
| trace context inheritance `internal/normalize/context.go` | none | `prepareObservations`, `ApplyAgentContext` | receiver, batch commands |
| normalizer `internal/normalize/normalize.go`, `privacy.go` | none | `BuildWithOptions` | receiver, batch commands |
| aggregation `internal/aggregate/merge.go` | none (updates the graph it is given) | `Merge` | receiver |
| evidence model `internal/model/model.go` | none | `Canonicalize`, `ResolveFieldEvidence`, `MergeEvidenceSummary`, level order | all |
| source authentication `internal/sourceauth/policy.go` | bindings, read only | `Load`, `Validate`, `Authenticate`, `Protects` | receiver |
| source trust `internal/trust/policy.go` | ceilings, read only | `Apply`, `CapGraphInPlace` | receiver, batch commands |
| input decoding `internal/input` | none | `Load`, OTLP JSON and protobuf decoders | receiver, batch commands |
| policy `internal/policy/policy.go` | none | `Evaluate` with a path search | command line |
| graph diff `internal/graphdiff/diff.go` | none | `Compare` (what changed between an approved graph and a later one) | command line |
| CycloneDX export `internal/cyclonedx/export.go` | none | `Export` | receiver, command line |
| SARIF import `internal/sarif/sarif.go` | none | `ArtifactIdentity`, `Import` (binds a document's findings to a component and merges them) | command line |
| signing `internal/signing/signing.go` | none | `GenerateKeyPair`, `Sign`, `SignCanonicalEvidence` (canonical form of a graph), `Verify` (three versions of an envelope) | command line |
| command line `cmd/aiebom/main.go` | the files at the paths it is given | `collect` (start and shutdown of the servers), `scan`, `keygen`, `sign`, `verify`, `export`, `sarif`, `diff`, `policy` | user |

### How the parts interact

An exporter's request reaches `handleTraces` (HTTP) or `Export` (gRPC), is
authenticated against the global token and the source bindings, decoded by
`internal/input`, and bound to its source. `acceptBound` then takes the mutex
and does the rest under it: deduplication, resolution of parents, normalization,
merging, and both file writes. Reads take the same mutex and hold it while they
write the answer. A failed request releases the mutex and takes it again to be
counted. The receiver and its predecessor process share only the graph file.

The batch commands share nothing but files: `scan` or `collect` writes a graph,
`sarif` adds findings to one, `policy` and `diff` judge it, `sign` reads it with a
key and writes an envelope, and `verify` reads all three. `collect` renames a
finished file into place, `keygen` creates files that must not exist, and every other
command empties its output and writes it in place (`writeJSON`).

### What is hard

* Spans come in any order, from several exporters, again after a timeout; a
  child may come before its parent, and what it stands for depends on the
  parent's agent.
* Three bounded memories (window, waiting queue, contexts) evict on their own
  schedules and must agree about what is known.
* A snapshot write may fail after memory has changed, and the process may die
  between any two of: accepting, the graph file, the BOM file, the answer.
* A released child releases its own children, in a loop that grows the queue it
  iterates over.
* One mutex for everything: any path that keeps it stops the receiver.
* Two servers share one shutdown deadline, and two processes share one file that
  nobody locks.
* A path search backtracks over a path shared by all levels of its recursion.
* What an `invoke_agent` span counts for depends on what is released with it.
* A finding is bound to a component that later spans go on to change, and is
  reported again at other levels.
* A waiting span is reduced to metadata, while `scan` sees all of it: both must
  lead to one graph.
* Key files are created by commands that may run at once, and fail between the
  two halves; graphs and envelopes are emptied and written while others read them.
* A signature outlives every way to write a graph down, and no way to change it.

### What makes each part correct

* Receiver: nothing acknowledged is lost, nothing is counted twice inside the
  window, memory is bounded, every request is answered, files only catch up.
* Context inheritance: a span belongs to its nearest explicit ancestor or to no
  agent, never to another subtree.
* Source authentication: evidence under a protected source was vouched for.
* Source trust: no level above the ceiling of its source, restarts included.
* Aggregation: counts add up; order of arrival changes nothing that is compared.
* Policy: a path is reported if and only if one exists, and the first of them; a
  finding's level is denied if a scanner ever reported it.
* Export and import: no dangling reference; an import changes what it names only.
* Normalizer: `collect` finds what `scan` finds, as far as reduced spans can tell.
* Diff: no change reported means that no policy changes its mind.
* Signing: an envelope verifies for the graph it was made of, however it is
  written down, and for no other; every graph the program writes can be signed.
* Command line: a file is replaced whole or not at all; shutdown loses nothing
  that was acknowledged.

Every hazard is listed at its line in `PROJECT.json`, with the properties that
would catch it or the reason no property covers it yet.

## 2. Modules

`TraceContext` holds the vocabulary and the pure part. A span is a record of
its key (the trace-id/span-id pair of `observationKey`, `NoKey` when an
identifier is missing), its parent's key, the agent its own attributes name and
the source its payload claims. `Released` is the least set of waiting items
closed under "waits for a member": what the queue loop of
`resolveTraceContexts` computes, as a definition. `InheritedAgent` is the
inheritance of `prepareObservations`. `TrueAgent` is the reference answer,
computed over all spans at once.

`Receiver` is the state machine. Its variables have the names of the struct's
fields. `handler` holds what each request goroutine is doing. The correspondence:

| action | code |
|---|---|
| `Receive`, `Refuse`, `ReceiveRead` | a request is authenticated, decoded and bound, without the mutex |
| `Accept` | `acceptBound` from `Lock` to `persist`: the loop over the batch, `trimDedupe`, `resolveTraceContexts`, `BuildWithOptions`, `Merge`, counters |
| `WriteGraphFile`, `WriteBOMFile` | `persist`; each write is atomic because `writeFileAtomic` renames a temporary file |
| `WriteFails` | an error of either write; memory keeps what it accepted |
| `RecordFailure` | `recordFailure`, which takes the mutex again |
| `Serve`, `Served` | a read, which holds the mutex until the client has the answer |
| `Restart` | the process dies at any point; `New` and `loadExistingGraph` start another |

`Accept` is one step because everything in it happens with the mutex held and
touches memory only; the file writes are steps of their own because a crash or
an error may fall between them. The graph is a bag of entries (span, source,
attributed agent): what the receiver must get right is which evidence is merged
and how often. Three variables are history (`pressure`, `durable`, `vouched`)
and two are bounds (`sent`, `restarts`).

`ResolveQueue` is `resolveTraceContexts` loop by loop, with the `waiting` map and
the queue it appends to while iterating. It is checked to compute exactly what
the definitions of `TraceContext` say, and proved to, so that `Receiver` may use the
definitions.

`EvidenceLedger` is the abstract specification: a ledger that is only added to,
a published copy that only catches up with it, an export that only catches up
with the published copy, and a crash that takes memory back to what was
published and no further. `Receiver` implements it with `counted <- graph`,
`published <- graphFile`, `exported <- bomFile`.

`Evidence` has the pure part of the evidence model: summaries, the claims about
one mutable field of a node, the preference among them, the limit on trace
identifiers, and the ceilings of a trust policy. Strings that are only compared
are numbers, a level is its rank.

`EvidenceGraph` is what becomes of the observations of one node, which the
receiver's model takes as a bag:

| action | code |
|---|---|
| `AddObservation` | `Policy.Apply`, then `addNode` of the batch's builder |
| `MergeBatch` | the end of `BuildWithOptions`, and `aggregate.Merge` for this node: upgrade of values without claims, merge, selection, limits |
| `WriteScan` | a `scan` that writes the graph of its one document |
| `Restart` | a `collect` started on that graph with another policy: `CapGraphInPlace` and the selection after it |

The node has one mutable field; versions, digests and properties are treated
alike by the code. `gathered`, `arrived`, `claimed` and `loaded` are history: they
let the properties say what the graph should be by computing it at once from
everything that was merged.

`CollectLifecycle` is `runCollect`: several processes, one after the other or
overlapping, that start, serve and stop one or two servers over one graph file.

| action | code |
|---|---|
| `New` | `collector.New`, which reads the graph file |
| `ListenHTTP`, `ListenGRPC` | `net.Listen` for an enabled server; an error ends the process |
| `Signal` | SIGINT or SIGTERM, fatal until `signal.NotifyContext` |
| `Arrive`, `Merge`, `Persist`, `Answer` | a request's handler, with the mutex between merging and writing |
| `ServeFails`, `TakeError` | a server's goroutine reports an error; the select closes both servers |
| `TakeSignal`, `HTTPDrained`, `GRPCDrained` | the orderly shutdown, HTTP first |
| `Expire`, `GiveUp` | the ten-second `shutdownContext` over both |

What a handler does inside the receiver is `Receiver`'s subject; here a request
is merged, written, answered, or cut off when its process ends.

`PolicyPaths` is the search for denied paths. A selector is the set of nodes it
matches and an identifier a number in its lexical order; edges may end at a node
that is not in the graph.

| action | code |
|---|---|
| `Begin` | `compiledPathRule.matches`: the next start in order, and whether it matches `from` |
| `Extend`, `Backtrack` | `findPath`: the call for the next edge in order that may be followed, and the return without a path |
| `Found` | `findPath` returns a path of full length, which `matches` reports |

The stack of calls is the path and, for every node on it, the edge being tried;
`DeniedPaths` is the reference definition, over sequences of nodes.

`SpanFacts` is what one span says. `Facts` are the nodes and edges that
`addObservation` makes of it under the agent it was given, `Reduced` is
`MetadataOnlyObservation`, and `KnownToScanOnly` are the facts that rest on a
service name standing for the agent because of attributes that a reduced span no
longer has.

`AgentSummary` extends it with the spans of a trace and the two ways to a graph.
`Export` sends any spans that have not been sent, in any grouping, and `Accept`
(`acceptBound`) releases what can be and makes one batch of it; `Suppressed` is
`prepareObservations`: an `invoke_agent` span loses its model if a concrete
operation below it is in the same batch. `Collected` is the graph that follows, each
fact with the spans it is from, and `Scanned` the graph of all spans in one batch.
`inOrder` is history. A key belongs to one span here (`SummaryAssumption`): repetition
and eviction are `Receiver`'s subject. `OnlySummariesAreNamed` says of the trace
what `summary_named_call` shows to matter: no call below another span names its agent.

`FindingImport` is what happens to scanner findings.

| action or operator | code |
|---|---|
| `Observe` | a span about a server: the MCP part of `addObservation`, its node and the `connects_to` edge of its agent, merged into the graph |
| `Import` | `sarif.Import`: `findTarget`, `findingsForRun` for every run, one node and edge for each finding, `aggregate.Merge` |
| `RefusedRun`, `RefusedResult` | the error returns of `findingsForRun` |
| `Attached` | the results it does not skip |
| `FindingLevels` | `findingLevels` of the policy |
| `Export` | the references of `cyclonedx.Export`: components, dependencies, affects |

A node has three fields here (URI and digest of a component, level of a finding);
documents are given as their runs and results. Edges carry their own evidence.
`reported` is history: what the scanner said of the artifact, result by result, in
every import that succeeded.

`GraphGate` extends `FindingImport` with what a pipeline asks of its graphs.
`Violations` is `policy.Evaluate`: levels of evidence, levels of findings, conflicts
and denied paths, the last by definition (that the search finds them is
`PolicyPaths`). `Compare` is `graphdiff.Compare`. Its properties compare the graphs
before and after every step.

`SignedDocument` is signing without files: `Accepted` and `Canonical` are
`canonicalizeEvidence`, `Envelope` is `sign` and `Verifies` is `Verify`, for the raw
version of an envelope and both canonical ones. Digests and signatures are ideal: a
digest is what was digested, a signature the key and the message. A text is a graph
as it is written: items in an order, times in a zone, lists with repetitions. The
check of field claims inside it is `Signable` of `EvidenceGraph`, over nodes as that
module has them.

`Artifacts` is several commands at once over one set of files.

| action | code |
|---|---|
| `CreatePrivate`, `WritePrivate`, `CreatePublic`, `WritePublic` | `runKeygen`: `writeExclusive` for each half, which opens a file that must not exist and then writes it |
| `ReadPayload`, `ReadKey`, `Verify` | `runSign` and `runVerify` read their files one after the other; `Verify` reads the envelope and decides |
| `Open`, `Write` | `writeJSON` of `scan` and `sign`: the output is emptied, then written |
| `Fail` | an error or a signal at any point; the files stay as they are |
| `Reformat`, `Amend` | people: the same graph written differently, or a graph with more in it |

Two writers of one file may leave a mixture (`Garbled`). `signed` and `meaning` are
history: what every envelope was made of, and which texts say the same. `edits` is a
bound. The instance has no two graphs of one time of generation (`StoredAssumption`),
which is how `meaning` tells graphs apart.

An `MC` module gives the constants their values for TLC: `MCReceiver`,
`MCResolveQueue`, `MCEvidenceGraph`, `MCCollectLifecycle`, `MCPolicyPaths`,
`MCAgentSummary`, `MCGraphGate` and `MCArtifacts`. `ReceiverProofs`,
`ResolveQueueProofs`, `EvidenceGraphProofs`, `AgentSummaryProofs`, `FindingProofs`,
`LifecycleProofs`, `PathProofs` and `ArtifactProofs` hold the lemmas and theorems, each
with what it needs of sequences, finite sets and shared definitions, because no
two of the state machines can be extended by one module.

## 3. Runs

| run | instance | what it shows |
|---|---|---|
| `resolve_round` | every work list of up to four spans over nine shapes, three states of the retained contexts | the release loop computes exactly the released set, contexts and queue of the definitions |
| `receiver_trace` | one process and its restart, seven spans of one trace with a sub-agent and a cycle of parents, five requests, limit 3 | without eviction, overflow or restart every span that could wait ends with the right agent and counts once, in any order, grouping and repetition; with them the bounds hold, no evidence goes to another agent, no child whose parent is known is stranded, and no observation is dropped or made up |
| `receiver_faults` | two exporters and readers, limit 1, both files, a protected source claimed with and without its credential, three requests, failing writes, two restarts | whatever write fails and wherever the process dies, acknowledged evidence is in the graph file, only vouched evidence is counted under the protected source, the receiver implements the ledger and every request is answered |
| `evidence_merge` | four observations of one node, two policies, a legacy node or none, a restart | in any order and grouping the node is the same function of what was merged, shows its strongest claim, stays within the ceilings and its limits, invents no strength, loses no evidence and can be signed |
| `evidence_trust` | two sources about one version at three levels, three observations, both authorised and then one, a restart | a disagreement: `docs/SCHEMA.md:50` says untrusted verification does not survive a restart, but a summary has one level for all its sources and `internal/trust/policy.go:145` caps it by the strongest of them, so a level stays that no observation has under the new policy |
| `lifecycle_stop` | two processes in turn, two servers, two requests in flight, failing servers | an orderly stop has answered everything it let in; acknowledged evidence stays in the file; a process that was told to stop, or lost a server, ends |
| `lifecycle_overlap` | a successor may start before its predecessor has ended | a disagreement: `docs/RUNTIME_RECEIVER.md:135` says evidence history continues after restart, but the successor reads the file (`cmd/aiebom/main.go:160`) while the predecessor, whose port is already free, still writes its last requests; the successor's next write drops them |
| `policy_search` | every graph of one to four edges over four nodes and a missing one, three shapes of rule | the search ends, reports denied paths only, one for every start that has any, and the first of them |
| `summary_any_order` | nine spans of three agents, a tool, a server and its discovery; calls that name no agent; any order, alone or in pairs | a summary loses its model only to a call that is counted; `collect` has the nodes and edges of `scan`, each from the same spans, except for models and what only unreduced spans give away, and in export order for models too, as long as no call names its agent |
| `summary_named_call` | the same, with a call that names its agent | a disagreement: `docs/SCHEMA.md:99` says a summary is suppressed when a concrete operation exists below it, but a call that names its agent is released at once (`receiver.go:443`) and is not in the batch of the summary that ends after it (`context.go:99`), so both are counted |
| `finding_gate` | four facts about two servers, six documents, two of them refused, a new graph or a stored one, two policies, five steps | a gate on levels sees every report that was ever attached and nothing else; more evidence cures only a lack of evidence; a graph the diff finds unchanged has the same violations; occurrences add up; a finding's component has claimed the file it is about; an import leaves components as they were; the exported document has every edge and no dangling reference |
| `artifact_files` | three keygens that share paths, two scans of one output, a canonical and a raw signer, two verifiers, in six groups; no keys, or old keys with an envelope of an earlier release | a keygen that succeeded keeps both halves of its pair; an envelope verifies exactly for the key and the graph (or, raw, the bytes) it was made of |

Bounds. `MaxRequests` and `MaxRestarts` end the behaviours; `MaxDedupeItems` of
1 and 3 makes eviction and overflow happen within them (a batch of two keys
over a window of one already evicts a key of its own; seven spans in five requests
overflow a queue and a window of three). Three generations of
spans make the release chain longer than one step, and a cycle of two is the
smallest that can never be released. Where a run has one exporter, concurrency
adds nothing to what it checks, because `Accept` is one step under the mutex;
the run about faults has two. Its three requests are enough for a failed write,
a retry and a read or a second exporter between them; three of its four
properties are also theorems, as are all those of `receiver_trace`. Four observations
(`MaxObservations`) are enough for two batches of two with every pair of level,
source, time and value; a trace limit of two is exceeded by three of them. One
restart (`MaxRestarts`) suffices because `CapNode` depends on the node and the new
policy only. `MaxFailures` of two lets a server of either process fail. Four edges are enough
for a cycle beside a path of the longest rule, and for a branch that fails after
a shared prefix. Nine spans are two agents with a call each, a tool above the first call and an
embedding below it, and one span of each other kind alone; `MaxBatch` of two puts every pair
of them together or apart, and the release of waiting spans makes larger batches.
Five steps (`MaxSteps`) are two observations, two imports and an observation or
an import after, before or between them. In `artifact_files` the commands run in
groups (`Launches`) of those that can meet at a file, and `edits` allows two edits
of the graph between signing and verifying where nothing else writes it, one or none
otherwise; `Offsets` has one move of the time zone.

Deadlock. The behaviours end when the bounds are used up, and a search or a process
ends, so these runs say `CHECK_DEADLOCK FALSE`; that no request is stuck is what
`EveryRequestAnswered` and `ProcessEnds` say.

Fairness (`FairSpec`). A goroutine that can run does (weak fairness of the steps
taken with the mutex held: a disk write ends, and `WriteTimeout` ends a write to
a slow client). Taking the mutex is strongly fair, because `sync.Mutex` hands
itself to a waiter that has waited for a millisecond. Exporters are not fair:
no request needs to be sent. In `CollectLifecycle` only `Run(p)` is weakly fair:
the goroutine of `runCollect` and its timer. Handlers are not, because a client or
a disk may be slow for ever; that is what the deadline is for. `PolicyPaths` is one goroutine: weak fairness of
`Next`. Its search is bounded by the length of the rule, whether the graph has cycles or not.

## 4. Proofs

### The receiver

`ReceiverProofs` proves, for any set of exporters, spans, batches and any
limits, under the assumptions of `TraceContext` and `Receiver` (spans have the
declared fields, nulls differ from values, the limit is positive, batches are
sequences of spans):

* `TypeCorrect`, `MemoryStaysBounded`, `MutexIsHeld`, `RememberedStaysHeld`,
  `AcknowledgedStaysDurable`, from one inductive invariant, `IInv`;
* `ReceiverImplementsLedger`, the refinement, and from it `FilesStayBehind` and
  `GraphFileOnlyGrows`;
* `ProtectedStaysVouched`, from `IInv` and `SourcesInv`;
* `NothingDroppedOrMadeUp`, from `IInv` and `CountersInv`.

Why `IInv` is needed. "Acknowledged evidence is on disk" is not inductive: the
acknowledging step writes the graph but acknowledges the batch, so the batch
must be known to be in the graph or waiting while its files are written
(`BatchIsHeld`), which rests on every remembered key being held
(`RememberedIsHeld`) because the batch may consist of duplicates, on nobody else
changing the graph meanwhile (`HolderHasTheMutex`), and, for the second file, on
the first being equal to memory (`GraphIsWritten`). A restart keeps it because
the graph file never loses evidence (`FilesAreBehind`). The deduplication
window is one queue (`WindowIsOneQueue`) so that cutting `seenOrder` and
subtracting from `seen` remain the same thing.

`Conservation` counts a bag as the set of its pieces (`Pieces`: an entry counted
`n` times is `n` of them), so that adding evidence is a bijection between the new
pieces and the items that leave the queue (`MergeAddsPieces`), and no sum is taken.
That every item of the work leaves or waits, and none does both, is
`ResolveConserves`.

`SpanIdentity` (a key names one span) is an assumption of the model that these
theorems do not use; the next ones do. They say which agent a span is given, for any
spans, order, repetition, eviction, overflow and restart:

* `NeverMisattributes`, `AttributesExactly` and `StrandsNobody` from `IInv` and
  `AttributionInv`. The reference answer of a child is that of its parent
  (`TrueAgent` is defined over the least set closed under parents), and both that
  set and `Released` are least, so whatever is released through one another shares
  one answer; no induction over the chain is needed. The invariant says that what
  is retained for a key is right for the span with that key, because the next child
  is answered from it, that what is in the graph is right, and that nobody waits for
  a parent that is known. `Right` admits "no agent" once something was evicted,
  forced out or lost (`pressure`), and not before, which makes one invariant of the
  weak and the strong theorem.
* `CountsOnce` from `OnceInv`: without pressure the window remembers every key that
  is counted or waiting, and no two of a round's items have one key, so `Merge` adds
  each at most once.

### The release loop

All of this is about the definitions `Released` and `Leaving`. `ResolveQueueProofs`
proves that they are what the loops of `resolveTraceContexts` compute
(`RoundsMatch`), for any work, any retained contexts and any limit. The loop reads and
writes three things at once: the queue it iterates over, the `waiting` map whose lists
it deletes, and `contexts`, which decides who is ready. Its invariant, `Looping`, says:

* nothing is lost: what was looked at is queued or filed under its parent
  (`NothingLost`), and nothing stays filed under the key of an item that was released
  (`ChildrenTaken`). So when the queue is empty, what is still filed waits for nobody
  who left, and the queue holds a set that is closed as `Released` demands; being the
  least such set, `Released` is inside the queue (`QueueIsResolved`);
* nothing is released that should not be: what is queued belongs to the least set and
  carries the context that its root has (`QueuedRight`), and an item is queued once
  (`QueuedOnce`), which `FiledRight` keeps up: who is filed is not queued and is filed
  once, although two spans may have one key;
* a released key has the context of its item, and no other key has changed
  (`ContextsFollow`). `OneContext` is what makes this well defined: an item is
  reached from one root context only, because a key names one span (`SpanIdentity`)
  and a span has one parent.

### The evidence graph

`EvidenceGraphProofs` begins with the algebra of summaries, for any sources, values,
policies and limits: `MergeCommutes`, `MergeAssociates` and `PreferenceIsTotalOrder`,
which are why order and grouping cannot matter; what a ceiling does to a summary; sums
over finite sets; and the limit on trace identifiers, which may be applied to parts
before the whole (`LimitedOfUnion`). It proves of the state machine:

* `GraphTypeCorrect` and `StaysWithinCeilings`: no level in the graph is above the
  ceiling of its sources under the policy in force, restarts included. The
  invariant is not inductive for the node alone: the batch must satisfy it as
  well, and a summary without sources must be at most inferred, because the
  merge of two sourceless summaries would otherwise exceed the default ceiling
  once a source is added. Both are in `SoundState`.
* `ShowsTheStrongest`, `FieldIsBacked`, `GraphsCanBeSigned`, `StrengthIsHeard` and
  `EvidenceOnlyGrows`. That the value shown is the strongest claim holds after every
  selection; what needs the invariant is that a node may carry a value without claims,
  from a file of an earlier release, which the next merge turns into a claim at the
  node's own level. So `SelectionInv` says of the node, and of the batch before it is
  merged, that each claim is backed by the whole in level, count, sources and times
  (`Backed`), that a claim either says nothing or has a count and a level (`Neat`), that
  a node that shows a value is known by something (`Firm`, or the upgrade would make a
  claim that nobody counted), and that a node with claims shows the selected one
  (`Tidy`). `StrengthIsHeard` adds `HeardInv`, which carries the levels that were sent,
  for node and batch, through the same steps.
* `GraphIsFunctionOfEvidence`: the node is the function of what the process started
  with and of the multiset of observations merged since that `FunctionOfEvidence`
  writes down. The invariant, `OriginInv`, says it of the node and of the batch, claim
  by claim (`Says`): the count is a sum, the level and the times are extremes, the
  sources a union and the trace identifiers the least few of a union. Every
  step is then one lemma, that two summaries which say what two multisets say merge
  into one that says what both say (`SaysMerges`). `Settled` records that the upgrade
  of an old node has happened once something was merged, and does nothing again.

### Collect and scan

`AgentSummaryProofs` proves, for any trace, attributes, order and grouping, with keys
that are unique, what the runs check of `AgentSummary`:

* `NoCallIsLost` and `CollectFindsWhatScanFinds`. One request is first reduced to what
  it does to sets of spans (`Request`, `ExportFacts`): some are exported, some leave the
  queue for the graph with the agent of `TrueAgent`, and `Parted` says why the ones leave
  and the others stay. The invariant, `Inv`, says that every span is in one place
  (`Places`), that the retained contexts are those of the spans in the graph
  (`Attributed`), that a span without an agent is there after its parent
  (`ParentsFirst`), and that a summary without its model is there with the call that
  took it (`Taken`). That the call is below the summary, as `Below` defines it over all
  spans, although `Suppressed` looks up from the call inside one batch, is
  `AboveHasBelow`; both are least sets, so neither needs an induction along the chain.
* For models collect must also suppress all that scan does: `TakenAsInScan`. It holds
  of spans that came in order and name no agent because then a batch has, of each of
  its spans, every call below (`RequestAsInScan`): a call without an agent waits for its
  parent, and can neither have been released before it (`ParentsFirst`) nor be still to
  come (`ChildrenExported`), so what is below in the trace is below in the batch
  (`BelowHasAbove`). `UnnamedCallsCountOnce` concludes that no call is then counted
  twice: naming an agent below another span is the only way to the disagreement
  of `summary_named_call`, as long as spans come in order.
* What a reduced span says is what the span says less `KnownToScanOnly`
  (`ReducedFacts`), and a summary says the same with and without its model but for the
  model (`SummaryTold`).

### Findings, policy and diff

`FindingProofs` proves all that `finding_gate` checks, for any components, fields,
documents, policies and stored graphs that show what their claims resolve to
(`StoredAssumption`, as every graph the program writes does). The invariant is `Inv`:
nodes show what their claims resolve to (`GraphOK`), reports are finite and of the past
(`ReportsOK`), a finding's count is the number of its reports and a level is a claim,
with the number of reports at that level, if and only if it was reported (`Tells`), and
an edge to a finding ends at one about a file its component has claimed (`EdgesOK`).

* `EveryReportIsSeen` and `EveryOccurrenceCounts` from `Tells`. An import adds the
  reports of all runs of a document, which the code merges run by run. That the sum
  is right for any number of runs is an induction over the initial parts of the
  document, made as a choice of the least part that fails (`DocumentTells`).
* `BindingsAreOnRecord` and `ExportsAreWhole` from `EdgesOK`, which holds because a claim
  once made is never taken back, although the value shown may change; and
  `ComponentsAreKept` from `GraphOK`: an upgraded node that showed what its claims
  resolve to still shows it.
* `MoreEvidenceCuresNoViolation`: a step only adds nodes, edges and claims and never
  lowers a level (`Grows`), and each rule of a policy except the two about weak evidence
  is monotonic in that, a denied path with each of its selectors.
* `NoChangeNoNewVerdict`: what `Compare` reports nothing of is equal in all that
  `Evaluate` reads.

### The other components

`LifecycleProofs` proves, for any processes, requests and transports:

* `StopsAfterAnswering` from `StopInv`: a handler belongs to a process that is
  alive, only a process that failed has cut a request, and none is left over
  HTTP once the HTTP server has drained.
* `HistoryContinuesInTurn` from `KeepInv`, under `~Overlap`: at most one process
  is alive, its memory has the file's requests, a merged request is in memory, a
  written one in the file. `OneAlive` is the part that overlapping processes
  break, and the run `lifecycle_overlap` shows what follows.

`PathProofs` proves, for any graph, identifiers and rule of any length, that what
the search reports is denied (`ReportsAreDenied`), that no start with a denied
path is missed (`NoneIsMissed`) and that the first path is the one reported
(`TheFirstIsReported`). The invariant, `SearchInv`, says that the path so far
follows the rule, that what is still to be tried are edges of the graph, that
they come later than what was tried (`UntriedComesLater`, which gives "the
first"), and `NothingSkipped`: every denied path from the current start is the
current path or leaves it at an edge that is still to be tried. The last is what
backtracking has to keep and what the result alone does not say.

`ArtifactProofs` proves, for any commands, paths, key pairs and graphs:

* `KeygenStaysWhole` from `KeyInv`: from the moment a keygen has created a file until
  it writes it, the file is empty and its own. Only because of that does its write
  not land on another's text, and a second keygen, which needs the path to be absent,
  never reach it. It rests on the assumption that no `scan` or `sign` is told to
  write to the path of a key (`ArtifactsAssumption`), which the code cannot prevent.
* `ReformattingKeepsIdentity` and `AmendingChangesIdentity`: every way to write a graph
  differently has the same canonical form, and one more count, source, time, claim,
  node or edge has another or is refused. `SignatureFollowsGraph` draws the
  conclusion for one envelope. All of this is about ideal digests and signatures; a
  collision is outside the model.
* `VerdictsFollowGraphs`, the invariant `VerdictFollowsGraph`: whichever commands run
  together and however often people edit in between, a verdict is "valid" exactly for
  what was signed with that key. One edit at a time is not enough for that: a graph
  that was changed twice must not get the form of a third text, with another sense.
  `VerdictInv` therefore orders canonical forms (`Below`: the same identifiers with at
  least the counts, times, sources and claims) and says that the text in a file is
  above every accepted text of its graph so far (`LatestInFile`). With the order
  antisymmetric (`BelowIsOrder`) and every change above what it changes
  (`AmendedIsAbove`), a form never comes back, so that texts mean the same exactly if
  they are alike (`MeaningIsForm`). `RecordInv` carries this through the files and
  what processes hold: every envelope in either was made of something on record.
  It rests on `StoredAssumption`: what there is at first was left by this program, and
  a time of generation names one graph in one file. The code stamps a graph with the
  clock but checks neither; with two copies of one graph, changed alike, `meaning`
  would call the same text by two names, while `SignatureFollowsGraph` holds of each.

### Only model-checked

Liveness (`EveryRequestAnswered`, `ProcessEnds`, `SearchEnds`), which is out of the
prover's reach.

## 5. Plan

Done, in this order: `TraceContext`, `ResolveQueue`, `Receiver`, `EvidenceLedger`;
`Evidence`, `EvidenceGraph` (model, aggregation, source trust); `CollectLifecycle`;
`PolicyPaths`; `FindingImport`; `SpanFacts` and `AgentSummary` (normalizer); `GraphGate`
(policy and diff); `SignedDocument` and `Artifacts` (signing, batch commands); proofs of
all of them.

What is left, each of less weight than what is there:

1. `export`, `sarif`, `diff` and `policy` as commands of `Artifacts`. They read and
   write as `scan` and `sign` do; `sarif` writes two files.
2. What validation of the source policies excludes, against what authentication and
   ceilings rely on.
3. The two decoders of traces: predicates of one document without state.

## 6. Not modelled

* Input decoding (`internal/input`): two parsers of one document, JSON and protobuf,
  without a common state. Body limits, gzip and the comparison of bearer tokens,
  which stand in front of it.
* In the normalizer: which of several attributes names a thing, versions, digests and
  properties of nodes beyond the one field of `EvidenceGraph`, fingerprints of prompts.
* In the policy: lists of denied names and required digests, which are predicates of
  one node without state, and the validation of a policy. In the diff: names, versions
  and the layout of the report.
* In the export: fields copied from a node. In the import: decoding, size limits and
  hashing the artifact.
* In signing: the cryptography, JSON, PEM and base64.
* Loading and validating the policies of source authentication and source trust.
* `export`, `sarif`, `diff` and `policy` as commands with files; flags and printing.
* The scripts under `scripts/live` that drive other products, workflows, examples.

Timestamps are in `EvidenceGraph` and in `FindingImport`, as far as they decide between
claims, and in `SignedDocument`, as far as they are signed: they do not influence what
a receiver accepts.
