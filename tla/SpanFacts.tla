------------------------------ MODULE SpanFacts ------------------------------
(***************************************************************************)
(* What one span says: the nodes and edges addObservation of               *)
(* internal/normalize/normalize.go makes of it, and what is left of the    *)
(* span when the live receiver has reduced it to metadata                  *)
(* (internal/normalize/privacy.go).                                        *)
(*                                                                         *)
(* Of the attributes that may carry a name only the first that does counts *)
(* (first), so a span has one name of each sort.  Versions, digests and    *)
(* properties of a node are module EvidenceGraph's subject.                *)
(***************************************************************************)
EXTENDS TraceContext

CONSTANTS
  Says,    \* the attributes of every span
  Names,   \* models, servers, tools, data sources, prompt templates, services
  NoName   \* the empty string

\* entity is what follows the operation in the span's name; content is the text of a
\* prompt, or in a reduced span the mark that there was one; other is whether
\* there are further gen_ai or mcp attributes, of retained names or only of others;
\* declared is whether the span comes from an MCP configuration.  Names in gen_ai
\* or mcp attributes are all but the service's and the data source's.
Attributes ==
  [operation : {"none", "invoke_agent", "chat", "execute_tool"},
   entity    : Agents \cup Names \cup {NoName},
   service   : Names \cup {NoName},  model    : Names \cup {NoName},
   server    : Names \cup {NoName},  tool     : Names \cup {NoName},
   data      : Names \cup {NoName},  template : Names \cup {NoName},
   content   : {"none", "text", "present"},
   other     : {"none", "retained", "discarded"},
   declared  : BOOLEAN]

SystemInstructions == "system-instructions"

ASSUME FactsAssumption ==
  /\ NoName \notin Agents \cup Names
  /\ Says \in [Spans -> {a \in Attributes : a.content # "present"}]

\* Mutant: the allowlist forgets the MCP server.
ReducedServerless(a) ==
  [a EXCEPT !.content = IF @ = "text" THEN "present" ELSE @,
            !.other   = IF @ = "discarded" THEN "none" ELSE @,
            !.server  = NoName]

\* MetadataOnlyObservation: the retained attributes, and the presence of a prompt.
Reduced(a) ==
  [a EXCEPT !.content = IF @ = "text" THEN "present" ELSE @,
            !.other   = IF @ = "discarded" THEN "none" ELSE @]

\* hasGenAIAttributes, for a span that names no agent.
HasGenAIAttributes(a) ==
  \/ a.operation # "none"
  \/ NoName # a.model \/ NoName # a.server \/ NoName # a.tool \/ NoName # a.template
  \/ a.content = "text"
  \/ a.other # "none"

\* The agent of a span under the context it has by itself or from its parent.
AgentName(a, context) ==
  IF context # NoAgent THEN context
  ELSE IF a.operation = "invoke_agent" /\ a.entity # NoName THEN a.entity
  ELSE IF HasGenAIAttributes(a) /\ ~a.declared THEN a.service
  ELSE NoName

ToolName(a) ==
  IF a.tool = NoName /\ a.operation = "execute_tool" THEN a.entity ELSE a.tool

PromptName(a) ==
  IF a.template = NoName /\ a.content # "none" THEN SystemInstructions ELSE a.template

\* The node of a type, none without a name; a server provides its tools.
Node(type, name, provider) ==
  {[type |-> type, name |-> n, provider |-> provider] : n \in {name} \ {NoName}}

\* addObservation and addPromptEvidence: nodes, and edges between those there are.
Facts(a, context) ==
  LET agent  == Node("agent", AgentName(a, context), NoName)
      model  == Node("model", a.model, NoName)
      server == Node("mcp_server", a.server, NoName)
      tool   == Node("tool", ToolName(a), a.server)
      data   == Node("data_source", a.data, NoName)
      prompt == Node("prompt", PromptName(a), NoName)
      edges(from, relation, to) == [from : from, relation : {relation}, to : to]
  IN  agent \cup model \cup server \cup tool \cup data \cup prompt
      \cup edges(agent, "uses", model)
      \cup edges(agent, "connects_to", server)
      \cup edges(agent, "invokes", tool)
      \cup edges(server, "provides", tool)
      \cup edges(agent, "reads_from", data)
      \cup edges(agent, "uses_prompt", prompt)

\* What prepareObservations leaves of a summary.
WithoutModel(a) == [a EXCEPT !.model = NoName]

IsSummary(s) == Says[s].operation = "invoke_agent"

\* isConcreteModelSpan, whether it names its model or not.
IsConcrete(s) == Says[s].operation = "chat"

\* The facts of a span that only a scan knows: its service is the agent because of
\* attributes that a reduced span no longer has.
KnownToScanOnly(s, context) ==
  IF AgentName(Says[s], context) = AgentName(Reduced(Says[s]), context) THEN {}
  ELSE Facts(Says[s], context) \ Facts([Says[s] EXCEPT !.service = NoName], context)
=============================================================================
