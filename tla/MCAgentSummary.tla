--------------------------- MODULE MCAgentSummary ---------------------------
(***************************************************************************)
(* Small instances of AgentSummary: an agent that calls a model from a     *)
(* tool, which embeds on its way, and asks a second agent, which calls one *)
(* itself; an agent that reports no call, a service that reports a prompt, *)
(* and the discovery of a server and its tool.                             *)
(***************************************************************************)
EXTENDS AgentSummary

CONSTANTS
  planner, writer, reviewer, app,
  outer, lookup, chat, embed, inner, reply, lone, note, manifest,
  gpt, mini, files, search, docs, greeting, service

MCKeys == {outer, lookup, chat, embed, inner, reply, lone, note, manifest}
MCAgents == {planner, writer, reviewer}
MCSources == {app}
MCNames == {gpt, mini, files, search, docs, greeting, service}

Span(key, parent, agent) ==
  [key |-> key, parent |-> parent, agent |-> agent, source |-> app]

\* The calls of the two agents, naming an agent of their own or none.
Trace(chatAgent, replyAgent) ==
  {Span(outer, NoKey, planner), Span(lookup, outer, NoAgent),
   Span(chat, lookup, chatAgent), Span(embed, chat, NoAgent),
   Span(inner, outer, writer),  Span(reply, inner, replyAgent),
   Span(lone, NoKey, NoAgent), Span(note, NoKey, NoAgent),
   Span(manifest, NoKey, NoAgent)}

UnnamedCalls == Trace(NoAgent, NoAgent)
NamedCalls == Trace(planner, NoAgent)

Plain(operation, model) ==
  [operation |-> operation, entity |-> NoName, service |-> service, model |-> model,
   server |-> NoName, tool |-> NoName, data |-> NoName, template |-> NoName,
   content |-> "none", other |-> "none", declared |-> FALSE]

MCSays ==
  [s \in Spans |->
     CASE s.key = outer -> Plain("invoke_agent", gpt)
       [] s.key = lookup -> [Plain("execute_tool", NoName) EXCEPT !.entity = search,
                                                                   !.server = files]
       [] s.key = chat  -> [Plain("chat", gpt) EXCEPT !.template = greeting]
       [] s.key = embed -> [Plain("chat", NoName) EXCEPT !.data = docs]
       [] s.key = inner -> Plain("invoke_agent", mini)
       [] s.key = reply -> [Plain("chat", mini) EXCEPT !.content = "text"]
       [] s.key = lone  -> [Plain("invoke_agent", gpt) EXCEPT !.entity = reviewer]
       [] s.key = note  -> [Plain("none", NoName) EXCEPT !.content = "text"]
       [] s.key = manifest -> [Plain("none", NoName) EXCEPT !.server = files,
                                 !.tool = search, !.declared = TRUE]]
=============================================================================
