------------------------------ MODULE Artifacts ------------------------------
(***************************************************************************)
(* The files that the commands of cmd/aiebom leave for one another: keygen *)
(* creates a key pair, scan writes a graph, sign reads a graph and a key   *)
(* and writes an envelope, verify reads all three.  Commands run at the    *)
(* same time, on the same paths or not, and may fail or be killed between  *)
(* any two steps; people reformat and change the graphs in between.        *)
(*                                                                         *)
(* One call to the file system is one step.  The collector, which renames  *)
(* its files into place, is in CollectLifecycle, and the BOM that scan     *)
(* writes after the graph has a path of its own.                           *)
(***************************************************************************)
EXTENDS SignedDocument, FiniteSets

CONSTANTS
  Paths,     \* the files
  Commands,  \* the command line of every process
  Launches,  \* what is started, and the bound on what people edit meanwhile
  Stored,    \* the files and signatures there may be at first
  Offsets    \* bound: what people move a time zone by

Processes == DOMAIN Commands
Is(p, kinds) == Commands[p].kind \in kinds

\* The process stands for the key pair it generates, and nothing but keygen writes to
\* the paths of keys.
ASSUME ArtifactsAssumption ==
  /\ Processes \subseteq Pairs
  /\ \A p \in Processes :
       LET c == Commands[p] IN
         \/ /\ c.kind = "keygen" /\ {c.private, c.public} \subseteq Paths
            /\ \A q \in Processes :
                 Is(q, {"scan", "sign"}) => Commands[q].output \notin {c.private, c.public}
         \/ c.kind = "scan" /\ c.output \in Paths /\ c.text \in Texts
         \/ c.kind = "sign" /\ {c.input, c.key, c.output} \subseteq Paths
                           /\ c.version \in {RawVersion, "0.3.0"}
         \/ c.kind = "verify" /\ {c.input, c.key, c.signature} \subseteq Paths
  /\ \A s \in Stored : DOMAIN s.file = Paths
  /\ Offsets \subseteq Nat
  /\ \A l \in Launches : l.commands \subseteq Processes /\ l.edits \in Nat

Graphs(contents) == {c.text : c \in {d \in contents : d.kind = "graph"}}
Scans == {p \in Processes : Is(p, {"scan"})}
ContentsOf(files) == {files[path] : path \in Paths}

\* What a command of this program has left in a file, or people with a text.
Known(content, signatures) ==
  /\ content.kind = "graph" => content = GraphFile(content.text)
  /\ content.kind = "private" => content \in {PrivateKey(pair) : pair \in Pairs}
  /\ content.kind = "public" => content \in {PublicKey(pair) : pair \in Pairs}
  /\ content.kind = "envelope" => \E s \in signatures : s.envelope = content

\* What runSign makes an envelope of.
Made(s) ==
  \E version \in {RawVersion} \cup CanonicalVersions, pair \in Pairs :
    /\ Acceptable(version, s.content)
    /\ s.envelope = EnvelopeFile(Envelope(version, s.content, pair))

\* Two ways to write one graph, as far as signing can tell.
Alike(text, other) ==
  /\ Canonical(text) = Canonical(other)
  /\ \A allow \in BOOLEAN : Accepted(text, allow) <=> Accepted(other, allow)

OneTime(text, other) == Instant(text.generated) = Instant(other.generated)

StoredTexts(s) == Graphs(ContentsOf(s.file) \cup {r.content : r \in s.signed})

\* What there is at first was left by this program, and no two graphs are generated
\* at the same time: a time of generation names a graph, which is in one file.
ASSUME StoredAssumption ==
  /\ \A p \in Scans : \A q \in Scans \ {p} : ~OneTime(Commands[q].text, Commands[p].text)
  /\ \A s \in Stored :
      /\ \A content \in ContentsOf(s.file) \cup {r.content : r \in s.signed} :
           Known(content, s.signed)
      /\ \A r \in s.signed : Made(r)
      /\ StoredTexts(s) \subseteq Texts
      /\ \A t, u \in StoredTexts(s) : OneTime(t, u) => Alike(t, u)
      /\ \A f, g \in Paths :
           /\ s.file[f].kind = "graph" /\ s.file[g].kind = "graph"
           /\ OneTime(s.file[f].text, s.file[g].text)
           => f = g
      /\ \A p \in Scans : \A t \in StoredTexts(s) : ~OneTime(t, Commands[p].text)

VARIABLES
  file,     \* the content of every file
  pc,       \* how far every process is
  held,     \* what every process has read
  edits,    \* bound: edits still to come
  signed,   \* history: what every envelope was made of
  meaning   \* history: which of the texts say the same

vars == <<file, pc, held, edits, signed, meaning>>

NothingRead == [payload |-> NoFile, key |-> NoFile, envelope |-> NoFile]
Ended == {"done", "valid", "refused", "failed"}

Init ==
  /\ \E s \in Stored : file = s.file /\ signed = s.signed
  /\ \E l \in Launches :
       /\ pc = [p \in Processes |-> IF p \in l.commands THEN "start" ELSE "idle"]
       /\ edits = l.edits
  /\ held = [p \in Processes |-> NothingRead]
  /\ meaning = [t \in {Commands[p].text : p \in Scans}
                        \cup Graphs(ContentsOf(file) \cup {s.content : s \in signed}) |->
                  [graph |-> Instant(t.generated), change |-> 0]]

\* A command ends early, by an error or by a signal: its files stay as they are.
Fail(p) ==
  /\ pc[p] \notin {"idle"} \cup Ended
  /\ pc' = [pc EXCEPT ![p] = "failed"]
  /\ UNCHANGED <<file, held, edits, signed, meaning>>

\* What a write leaves: it covers what another process wrote since the file was
\* opened, or part of it.
Written(p, path, content) ==
  {content} \cup {c \in {Garbled(p)} : file[path].kind # "empty"}

-----------------------------------------------------------------------------
(***************************************************************************)
(* keygen: two files, neither of which may exist.                          *)
(***************************************************************************)

\* Mutant: a key file that exists is opened for writing like any other file.
CreateOver(p, path) ==
  file' = [file EXCEPT ![path] = Truncated(p)]

\* writeExclusive as far as OpenFile.
Create(p, path) ==
  /\ file[path] = NoFile
  /\ file' = [file EXCEPT ![path] = Truncated(p)]

KeygenStep(p, from, to) ==
  /\ Is(p, {"keygen"}) /\ pc[p] = from
  /\ pc' = [pc EXCEPT ![p] = to]
  /\ UNCHANGED <<held, edits, signed, meaning>>

CreatePrivate(p) ==
  KeygenStep(p, "start", "private") /\ Create(p, Commands[p].private)

WritePrivate(p) ==
  /\ KeygenStep(p, "private", "half")
  /\ \E c \in Written(p, Commands[p].private, PrivateKey(p)) :
       file' = [file EXCEPT ![Commands[p].private] = c]

CreatePublic(p) ==
  KeygenStep(p, "half", "public") /\ Create(p, Commands[p].public)

WritePublic(p) ==
  /\ KeygenStep(p, "public", "done")
  /\ \E c \in Written(p, Commands[p].public, PublicKey(p)) :
       file' = [file EXCEPT ![Commands[p].public] = c]

-----------------------------------------------------------------------------
(***************************************************************************)
(* sign and verify read their files one after the other.                   *)
(***************************************************************************)
ReadPayload(p) ==
  /\ Is(p, {"sign", "verify"}) /\ pc[p] = "start"
  /\ file[Commands[p].input] # NoFile
  /\ held' = [held EXCEPT ![p].payload = file[Commands[p].input]]
  /\ pc' = [pc EXCEPT ![p] = "payload"]
  /\ UNCHANGED <<file, edits, signed, meaning>>

ReadKey(p) ==
  /\ Is(p, {"sign", "verify"}) /\ pc[p] = "payload"
  /\ file[Commands[p].key] # NoFile
  /\ held' = [held EXCEPT ![p].key = file[Commands[p].key]]
  /\ pc' = [pc EXCEPT ![p] = "key"]
  /\ UNCHANGED <<file, edits, signed, meaning>>

\* readJSON takes a whole envelope and nothing after it.
Verify(p) ==
  /\ Is(p, {"verify"}) /\ pc[p] = "key"
  /\ LET envelope == file[Commands[p].signature] IN
       /\ envelope.kind = "envelope"
       /\ held' = [held EXCEPT ![p].envelope = envelope]
       /\ pc' = [pc EXCEPT ![p] =
            IF Verifies(held[p].payload, envelope.envelope, held[p].key)
            THEN "valid" ELSE "refused"]
  /\ UNCHANGED <<file, edits, signed, meaning>>

-----------------------------------------------------------------------------
(***************************************************************************)
(* scan and sign write over what is there (writeJSON).                     *)
(***************************************************************************)

\* What runSign does not refuse.
Signing(p) ==
  /\ Is(p, {"sign"}) /\ pc[p] = "key"
  /\ held[p].key.kind = "private"
  /\ Acceptable(Commands[p].version, held[p].payload)

EnvelopeOf(p) == Envelope(Commands[p].version, held[p].payload, held[p].key.pair)

Open(p) ==
  /\ (Is(p, {"scan"}) /\ pc[p] = "start") \/ Signing(p)
  /\ file' = [file EXCEPT ![Commands[p].output] = Truncated(p)]
  /\ pc' = [pc EXCEPT ![p] = "writing"]
  /\ UNCHANGED <<held, edits, signed, meaning>>

Write(p) ==
  /\ pc[p] = "writing"
  /\ LET signs   == Is(p, {"sign"})
         content == IF signs THEN EnvelopeFile(EnvelopeOf(p)) ELSE GraphFile(Commands[p].text)
     IN  /\ \E c \in Written(p, Commands[p].output, content) :
              file' = [file EXCEPT ![Commands[p].output] = c]
         /\ signed' = signed \cup {s \in {[envelope |-> content, content |-> held[p].payload]} :
                                     signs}
  /\ pc' = [pc EXCEPT ![p] = "done"]
  /\ UNCHANGED <<held, edits, meaning>>

-----------------------------------------------------------------------------
(***************************************************************************)
(* People.                                                                 *)
(***************************************************************************)
Moved(stamp, hours) == [wall |-> stamp.wall + hours, ahead |-> stamp.ahead + hours]

\* The same node or edge, spelled differently.
SameItem(item) ==
  {[item EXCEPT !.seen = Moved(@, hours)] : hours \in Offsets}
    \cup {[item EXCEPT !.sources = Append(@, s)] : s \in SourcesOf(item)}

SameItems(items) ==
  {[items EXCEPT ![i] = items[j], ![j] = items[i]] : i, j \in DOMAIN items}
    \cup UNION {{[items EXCEPT ![i] = item] : item \in SameItem(items[i])} : i \in DOMAIN items}

\* The same graph: what other programs make of a file that they only pass on.
Reformatted(text) ==
  {[text EXCEPT !.layout = layout] : layout \in Layouts}
    \cup {[text EXCEPT !.generated = Moved(@, hours)] : hours \in Offsets}
    \cup {[text EXCEPT !.nodes = items] : items \in SameItems(text.nodes)}
    \cup {[text EXCEPT !.edges = items] : items \in SameItems(text.edges)}

MoreItem(item) ==
  {[item EXCEPT !.count = @ + 1], [item EXCEPT !.seen.wall = @ + 1]}
    \cup {[item EXCEPT !.sources = Append(@, s)] : s \in Sources \ SourcesOf(item)}

MoreItems(items) ==
  {Append(items, [items[1] EXCEPT !.id = id]) :
     id \in {i \in Ids \cup {NoId} : items # <<>>}}
    \cup UNION {{[items EXCEPT ![i] = item] : item \in MoreItem(items[i])} : i \in DOMAIN items}

\* Another graph, or none any more: it has more than the one before.
Amended(text) ==
  {[text EXCEPT !.strict = FALSE]}
    \cup {[text EXCEPT !.nodes = items] : items \in MoreItems(text.nodes)}
    \cup {[text EXCEPT !.edges = items] : items \in MoreItems(text.edges)}
    \cup {[text EXCEPT !.nodes[i].claims = claims] :
            i \in {j \in DOMAIN text.nodes : text.nodes[j].claims = "none"},
            claims \in {"consistent", "inconsistent"}}

\* A text replaces the one in a file.
Edit(path, text, sense) ==
  /\ edits > 0
  /\ edits' = edits - 1
  /\ file' = [file EXCEPT ![path] = GraphFile(text)]
  /\ meaning' = [t \in DOMAIN meaning \cup {text} |-> IF t = text THEN sense ELSE meaning[t]]
  /\ UNCHANGED <<pc, held, signed>>

Reformat(path) ==
  /\ file[path].kind = "graph"
  /\ \E text \in Reformatted(file[path].text) \ {file[path].text} :
       Edit(path, text, meaning[file[path].text])

Amend(path) ==
  /\ file[path].kind = "graph"
  /\ \E text \in Amended(file[path].text) \ {file[path].text} :
       Edit(path, text, [meaning[file[path].text] EXCEPT !.change = edits])

Next ==
  \/ \E p \in Processes :
       \/ CreatePrivate(p) \/ WritePrivate(p) \/ CreatePublic(p) \/ WritePublic(p)
       \/ ReadPayload(p) \/ ReadKey(p) \/ Verify(p) \/ Open(p) \/ Write(p) \/ Fail(p)
  \/ \E path \in Paths : Reformat(path) \/ Amend(path)

Spec == Init /\ [][Next]_vars

-----------------------------------------------------------------------------
(***************************************************************************)
(* Properties.                                                             *)
(***************************************************************************)

\* A keygen that succeeded has left both halves of one pair, and no later command,
\* failed or not, takes either away: it "refuses to overwrite existing key files"
\* (THREAT_MODEL.md), also when several run at once on some of the same paths.
KeygenIsWhole ==
  \A p \in Processes :
    Is(p, {"keygen"}) /\ pc[p] = "done" =>
      /\ file[Commands[p].private] = PrivateKey(p)
      /\ file[Commands[p].public] = PublicKey(p)

\* The signed bytes, or a way to write the graph that was signed.
SameContent(version, content, payload) ==
  IF version = RawVersion
  THEN Bytes(content) = Bytes(payload)
  ELSE payload.kind = "graph" /\ meaning[content.text] = meaning[payload.text]

\* An envelope verifies exactly if it was made with that key of the very bytes or,
\* in canonical mode, of a graph that says the same, however often either was
\* reformatted, overwritten or caught between two writes (README.md:161, "Any retained
\* evidence-field change changes the digest and fails verification").
VerdictFollowsGraph ==
  \A p \in Processes :
    pc[p] \in {"valid", "refused"} =>
      LET envelope == held[p].envelope.envelope IN
        pc[p] = "valid" <=>
          \E s \in signed :
            /\ s.envelope = held[p].envelope
            /\ held[p].key = PublicKey(envelope.fingerprint)
            /\ SameContent(envelope.version, s.content, held[p].payload)
=============================================================================
