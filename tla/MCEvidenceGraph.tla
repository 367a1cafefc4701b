-------------------------- MODULE MCEvidenceGraph --------------------------
(***************************************************************************)
(* Small instances of EvidenceGraph: two sources, two versions, three      *)
(* trace identifiers of which two are kept.                                *)
(***************************************************************************)
EXTENDS EvidenceGraph

CONSTANTS app, verifier

MCSources == {app, verifier}
MCValues == {1, 2}

Said(level, source, trace, time, value) ==
  [level |-> level, source |-> source, trace |-> trace, time |-> time,
   value |-> value]

\* An old signature check, spans about both versions at different times, and a
\* span that names no version.
MCObservations ==
  {Said(Verified, verifier, 3, 1, 1),
   Said(Observed, app, 2, 2, 1),
   Said(Declared, app, 1, 3, 2),
   Said(Verified, app, 3, 2, 2),
   Said(Observed, app, 1, 3, 0)}

\* Two sources about one version, at levels of their own.
SharedObservations ==
  {Said(l, s, 1, 1, 1) : l \in {Inferred, Declared, Verified}, s \in MCSources}

\* The verifier authorised, and the application held down.
MCPolicies == {[s \in {verifier} |-> Verified], [s \in {app} |-> Inferred]}

\* Both authorised, as if there were no policy, and then only one of them.
TrustPolicyChange ==
  {[s \in MCSources |-> Verified], [s \in {verifier} |-> Verified]}

Legacy(level, sources, first, last) ==
  [version |-> 2, observed |-> {1, 2}, claims |-> NoClaims,
   evidence |-> [level |-> level, count |-> 2, sources |-> sources,
                 traces |-> {2}, first |-> first, last |-> last]]

MCStored ==
  {NoNode, Legacy(Verified, {app}, 2, 3), Legacy(Declared, MCSources, 1, 1)}
NothingStored == {NoNode}
=============================================================================
