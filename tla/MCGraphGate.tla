---------------------------- MODULE MCGraphGate ----------------------------
(***************************************************************************)
(* Small instances of GraphGate: two servers that may share an             *)
(* artifact, one that has been stored without claims, and a scanner.       *)
(***************************************************************************)
EXTENDS GraphGate

CONSTANTS agent, server, copy, app, scanner, shell, secret

MCComponents == {agent, server, copy}
MCSources == {app, scanner}
MCRules == {shell, secret}

Fact(component, caller, uri, digest, level, time) ==
  [server |-> component, agent |-> caller, uri |-> uri, digest |-> digest,
   level |-> level, time |-> time, source |-> app]

\* The artifact is declared, called, replaced, shared, and not named.
MCFacts ==
  {Fact(server, NoAgent, 1, 1, Declared, 2), Fact(server, agent, 1, 2, Observed, 1),
   Fact(copy, agent, 1, 1, Observed, 1),     Fact(copy, NoAgent, 0, 0, Verified, 2)}

Result(names, level, locations) ==
  [suppressions |-> {}, kind |-> "fail", names |-> names, indexes |-> {},
   level |-> level, locations |-> locations]
SARIF(results) ==
  [scanner |-> scanner, successful |-> TRUE, results |-> results,
   rules |-> <<[id |-> shell, level |-> Error], [id |-> secret, level |-> 0]>>]

Found == Result({shell}, 0, <<1>>)
ByIndex == [Result({}, 0, <<1, 1>>) EXCEPT !.indexes = {1}]
Hidden == [Result({shell}, Error, <<1>>) EXCEPT !.suppressions = {"rejected", "accepted"}]
Reviewed == [Result({shell}, Note, <<1>>) EXCEPT !.suppressions = {"underReview"}]
Passed == [Result({}, None, <<Unresolvable>>) EXCEPT !.kind = "other"]

MCDocuments ==
  {<<SARIF(<<Found, ByIndex, Passed>>)>>,
   <<SARIF(<<Reviewed, Hidden>>), SARIF(<<Result({secret}, 0, <<1>>), Found>>)>>,
   <<SARIF(<<Result({shell}, Error, <<2, Unresolvable>>), Hidden>>)>>,
   <<SARIF(<<Found>>), SARIF(<<Found, Reviewed>>)>>,
   <<SARIF(<<[Found EXCEPT !.indexes = {2}]>>)>>,
   <<[SARIF(<<Found>>) EXCEPT !.successful = FALSE]>>}

\* A graph from before field evidence, with the artifact and without.
Legacy(uri, digest, level) ==
  [shown |-> [NothingShown EXCEPT !["uri"] = uri, !["digest"] = digest],
   claims |-> NoFields,
   evidence |-> Said(app, level, 1, 1)]
MCStored == {Nothing, [id \in {copy} |-> Legacy(1, 1, Verified)], [id \in {copy} |-> Legacy(0, 0, Inferred)]}

MCKinds == [c \in MCComponents |-> IF c = agent THEN "agent" ELSE "mcp_server"]

Any(kind, minimum) ==
  [nodes |-> {id \in Components \cup Findings : KindOf(id) = kind},
   minimumEvidence |-> minimum]

\* An agent that was seen to call a server with a finding.
CallsAffected ==
  [from |-> Any("agent", 0), via |-> <<Any("mcp_server", Observed)>>,
   relations |-> <<"connects_to", "affected_by">>, to |-> Any("finding", 0)]

\* A gate on what was found and one on how well it is attested.
MCPolicies ==
  {[minimumEvidence |-> [k \in {"mcp_server"} |-> Observed],
    deniedFindingLevels |-> {Error}, forbidInferred |-> FALSE,
    forbidFieldConflicts |-> TRUE, deniedPaths |-> {CallsAffected}],
   [minimumEvidence |-> [k \in {"agent", "finding"} |-> Verified],
    deniedFindingLevels |-> {Note, Warning}, forbidInferred |-> TRUE,
    forbidFieldConflicts |-> FALSE, deniedPaths |-> {}]}
=============================================================================
