----------------------------- MODULE MCArtifacts -----------------------------
(***************************************************************************)
(* Instances of Artifacts: three keygens that share paths, two scans of    *)
(* one output, a signer of either kind, two verifiers.                     *)
(***************************************************************************)
EXTENDS Artifacts, TLC

CONSTANTS k1, k2, k3, old, scan1, scan2, canonical, raw, verify1, verify2

Keygen(private, public) == [kind |-> "keygen", private |-> private, public |-> public]

Item(id) == [id |-> id, count |-> 1, sources |-> <<"s1">>,
             seen |-> [wall |-> 9, ahead |-> 0], claims |-> "none"]
Text(hour, nodes, edges) ==
  [nodes |-> nodes, edges |-> edges, strict |-> TRUE, layout |-> "indented",
   generated |-> [wall |-> hour, ahead |-> 0]]

MCCommands ==
  (k1 :> Keygen("key", "pub")) @@ (k2 :> Keygen("key", "pub2"))
  @@ (k3 :> Keygen("pub2", "pub2"))
  @@ (scan1 :> [kind |-> "scan", output |-> "graph", text |-> Text(20, <<Item("a")>>, <<>>)])
  @@ (scan2 :> [kind |-> "scan", output |-> "graph", text |-> Text(30, <<>>, <<>>)])
  @@ (canonical :> [kind |-> "sign", input |-> "graph", key |-> "key",
                    output |-> "sig", version |-> "0.3.0"])
  @@ (raw :> [kind |-> "sign", input |-> "graph", key |-> "key",
              output |-> "sig", version |-> RawVersion])
  @@ (verify1 :> [kind |-> "verify", input |-> "graph", key |-> "pub", signature |-> "sig"])
  @@ (verify2 :> [kind |-> "verify", input |-> "graph", key |-> "pub2", signature |-> "sig"])

MCPaths == {"key", "pub", "pub2", "graph", "sig"}
MCPairs == DOMAIN MCCommands \cup {old}

Launched(commands, bound) == [commands |-> commands, edits |-> bound]
MCLaunches ==
  {Launched({k1, k2, k3}, 0), Launched({scan1, scan2, canonical}, 0),
   Launched({k1, k2, canonical, verify1, verify2}, 0),
   Launched({scan1, canonical, raw, verify1}, 0),
   Launched({canonical, verify1}, 2), Launched({scan1, raw, verify1}, 1)}

\* A graph with two nodes, and no keys; or one with a node and two edges, the keys of
\* an earlier keygen and an envelope of an earlier release.
Nodes == Text(10, <<Item("a"), Item("b")>>, <<>>)
Edges == Text(10, <<Item("a")>>, <<Item("b"), Item("c")>>)
NoKeys == [path \in MCPaths |-> IF path = "graph" THEN GraphFile(Nodes) ELSE NoFile]
OldEnvelope == EnvelopeFile(Envelope("0.2.0", GraphFile(Edges), old))
OldKeys ==
  [NoKeys EXCEPT !["graph"] = GraphFile(Edges), !["sig"] = OldEnvelope,
                 !["key"] = PrivateKey(old), !["pub"] = PublicKey(old)]
MCStored ==
  {[file |-> NoKeys, signed |-> {}],
   [file |-> OldKeys,
    signed |-> {[envelope |-> OldEnvelope, content |-> GraphFile(Edges)]}]}
=============================================================================
