--------------------------- MODULE SignedDocument ---------------------------
(***************************************************************************)
(* What internal/signing says of one file: the canonical form of an        *)
(* evidence graph, what an envelope signs, and when it verifies.           *)
(*                                                                         *)
(* Digests and signatures are ideal: a digest is what was digested, and a  *)
(* signature is the key and the message.  A graph has what its canonical   *)
(* form tells apart; node and edge have one shape here, and field claims   *)
(* are summed up in whether validateFieldEvidence accepts them (Signable   *)
(* in EvidenceGraph).                                                      *)
(***************************************************************************)
EXTENDS Integers, Sequences

CONSTANTS
  Ids,       \* identifiers of nodes and edges
  NoId,      \* the empty identifier
  Sources,   \* what a summary lists in any order, repetitions included
  Layouts,   \* white space, the order of members, the spelling of numbers
  Pairs      \* the key pairs

\* A time as written: on the wall, at hours ahead of UTC.
Stamps == [wall : Nat, ahead : Int]
Instant(stamp) == stamp.wall - stamp.ahead

Items == [id : Ids \cup {NoId}, count : Nat, sources : Seq(Sources), seen : Stamps,
          claims : {"none", "consistent", "inconsistent"}]

\* strict: UTF-8, one JSON value, no member repeated and none unknown.
Texts == [nodes : Seq(Items), edges : Seq(Items), generated : Stamps,
          strict : BOOLEAN, layout : Layouts]

-----------------------------------------------------------------------------
(***************************************************************************)
(* canonicalizeEvidence.                                                   *)
(***************************************************************************)
Identified(items) ==
  /\ \A i \in DOMAIN items : items[i].id # NoId
  /\ \A i, j \in DOMAIN items : items[i].id = items[j].id => i = j

\* validateGraphIdentity, and what is refused before and after it.
Accepted(text, allowFieldEvidence) ==
  /\ text.strict
  /\ Identified(text.nodes) /\ Identified(text.edges)
  /\ \A i \in DOMAIN text.nodes :
       text.nodes[i].claims \in {"none"} \cup {c \in {"consistent"} : allowFieldEvidence}

\* Mutant: times are signed as they are written.
InstantAsWritten(stamp) == stamp

\* normalizeGraphTimes.
UTC(stamp) == Instant(stamp)

\* uniqueSorted, of versions, sources and trace identifiers.
SourcesOf(item) == {item.sources[i] : i \in DOMAIN item.sources}

CanonicalItem(item) ==
  [id |-> item.id, count |-> item.count, sources |-> SourcesOf(item),
   seen |-> UTC(item.seen), claims |-> item.claims]

\* Sorted by unique identifiers, which is to say without an order.
Canonical(text) ==
  [nodes     |-> {CanonicalItem(text.nodes[i]) : i \in DOMAIN text.nodes},
   edges     |-> {CanonicalItem(text.edges[i]) : i \in DOMAIN text.edges},
   generated |-> UTC(text.generated)]

-----------------------------------------------------------------------------
(***************************************************************************)
(* Files.  A file opened for writing is empty until its writer writes, and *)
(* has what is left of another writer's text behind that of the last one   *)
(* if two overlap (by: the writer, whose bytes no other file begins with). *)
(***************************************************************************)
RawVersion == "0.1.0"
CanonicalVersions == {"0.2.0", "0.3.0"}

NoFile == [kind |-> "absent"]
Truncated(p) == [kind |-> "empty", by |-> p]
Garbled(p) == [kind |-> "garbled", by |-> p]
PrivateKey(pair) == [kind |-> "private", pair |-> pair]
PublicKey(pair) == [kind |-> "public", pair |-> pair]
GraphFile(text) == [kind |-> "graph", text |-> text]
EnvelopeFile(envelope) == [kind |-> "envelope", envelope |-> envelope]

\* What a reader sees: not who emptied a file.
Bytes(content) == IF content.kind = "empty" THEN [kind |-> "empty"] ELSE content

\* verificationPayload, and SignCanonicalEvidence for the version it writes.
Acceptable(version, content) ==
  version \in CanonicalVersions =>
    content.kind = "graph" /\ Accepted(content.text, version = "0.3.0")

Payload(version, content) ==
  IF version = RawVersion THEN Bytes(content) ELSE Canonical(content.text)

\* canonicalSignatureMessageV1 and V2: the version stands for the domain.
Message(version, payload) ==
  IF version = RawVersion THEN payload ELSE [domain |-> version, payload |-> payload]

\* sign.
Envelope(version, content, pair) ==
  LET payload == Payload(version, content) IN
    [version |-> version, digest |-> payload, fingerprint |-> pair,
     signature |-> [by |-> pair, message |-> Message(version, payload)]]

\* Verify.
Verifies(content, envelope, public) ==
  /\ Acceptable(envelope.version, content)
  /\ public.kind = "public"
  /\ LET payload == Payload(envelope.version, content) IN
       /\ envelope.digest = payload
       /\ envelope.fingerprint = public.pair
       /\ envelope.signature = [by      |-> public.pair,
                                message |-> Message(envelope.version, payload)]
=============================================================================
