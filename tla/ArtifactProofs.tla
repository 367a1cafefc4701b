--------------------------- MODULE ArtifactProofs ---------------------------
(***************************************************************************)
(* Theorems about Artifacts and SignedDocument, for every set of commands, *)
(* files and graphs.                                                       *)
(***************************************************************************)
EXTENDS Artifacts, TLAPS

-----------------------------------------------------------------------------
(***************************************************************************)
(* Key pairs.                                                              *)
(***************************************************************************)
Private(p) == Commands[p].private
Public(p) == Commands[p].public

\* What a keygen relies on while it runs: a file it has created is still its own.
Owned(p) ==
  /\ pc[p] = "private" => file[Private(p)] = Truncated(p)
  /\ pc[p] \in {"half", "public", "done"} => file[Private(p)] = PrivateKey(p)
  /\ pc[p] = "public" => file[Public(p)] = Truncated(p)
  /\ pc[p] = "done" => file[Public(p)] = PublicKey(p)

IsKeygen(p) == Is(p, {"keygen"})

KeyInv ==
  /\ DOMAIN file = Paths /\ DOMAIN pc = Processes
  /\ \A p \in Processes :
       /\ pc[p] \in {"idle", "start", "private", "half", "public", "payload", "key",
                     "writing"} \cup Ended
       /\ pc[p] = "writing" => Is(p, {"scan", "sign"})
       /\ IsKeygen(p) => Owned(p)

\* The kinds of content are different contents.
LEMMA Contents ==
  ASSUME NEW p, NEW q
  PROVE  /\ Truncated(p) # NoFile /\ PrivateKey(p) # NoFile /\ PublicKey(p) # NoFile
         /\ Truncated(p).kind = "empty" /\ PrivateKey(p).kind = "private"
         /\ PublicKey(p).kind = "public"
         /\ Truncated(p) # PrivateKey(q) /\ Truncated(p) # PublicKey(q)
         /\ PrivateKey(p) # PublicKey(q)
         /\ Truncated(p) = Truncated(q) => p = q
BY DEF Truncated, NoFile, PrivateKey, PublicKey

LEMMA KeygenPaths ==
  ASSUME NEW p \in Processes, IsKeygen(p)
  PROVE  /\ Private(p) \in Paths /\ Public(p) \in Paths
         /\ \A q \in Processes :
              Is(q, {"scan", "sign"}) => Commands[q].output \notin {Private(p), Public(p)}
BY ArtifactsAssumption DEF IsKeygen, Is, Private, Public

\* A step that changes one file that no keygen has come to own, and no keygen's
\* progress, disturbs none.
LEMMA OthersStay ==
  ASSUME KeyInv, NEW path \in Paths, NEW content,
         NEW p \in Processes, NEW to,
         file' = [file EXCEPT ![path] = content],
         pc' = [pc EXCEPT ![p] = to],
         NEW q \in Processes \ {p}, IsKeygen(q),
         path = Private(q) => pc[q] \notin {"private", "half", "public", "done"},
         path = Public(q) => pc[q] \notin {"public", "done"}
  PROVE  pc'[q] = pc[q] /\ Owned(q)'
<1>1. pc'[q] = pc[q]  BY DEF KeyInv
<1>2. Private(q) \in Paths /\ Public(q) \in Paths  BY KeygenPaths
<1>3. Owned(q)  BY DEF KeyInv
<1>4. DOMAIN file = Paths  BY DEF KeyInv
<1>5. /\ path # Private(q) => file'[Private(q)] = file[Private(q)]
      /\ path # Public(q) => file'[Public(q)] = file[Public(q)]
  BY <1>2, <1>4
<1> QED  BY <1>1, <1>3, <1>5 DEF Owned, Private, Public

\* The file a keygen creates belongs to no other.
LEMMA CreatedIsNew ==
  ASSUME KeyInv, NEW q \in Processes, IsKeygen(q), NEW path \in Paths,
         file[path] = NoFile
  PROVE  /\ path = Private(q) => pc[q] \notin {"private", "half", "public", "done"}
         /\ path = Public(q) => pc[q] \notin {"public", "done"}
BY Contents DEF KeyInv, Owned

\* A file that one keygen has created and not written belongs to no other.
LEMMA UnwrittenIsOwn ==
  ASSUME KeyInv, NEW p \in Processes, NEW q \in Processes \ {p}, IsKeygen(q),
         NEW path \in Paths, file[path] = Truncated(p)
  PROVE  /\ path = Private(q) => pc[q] \notin {"private", "half", "public", "done"}
         /\ path = Public(q) => pc[q] \notin {"public", "done"}
BY Contents DEF KeyInv, Owned

LEMMA InitKeyInv == Init => KeyInv
<1> SUFFICES ASSUME Init PROVE KeyInv  OBVIOUS
<1>1. DOMAIN file = Paths  BY ArtifactsAssumption DEF Init
<1>2. DOMAIN pc = Processes /\ \A p \in Processes : pc[p] \in {"idle", "start"}
  BY DEF Init
<1> QED  BY <1>1, <1>2 DEF KeyInv, Owned

\* One process goes on and one file may change: what is left to show for KeyInv.
LEMMA StepKeyInv ==
  ASSUME KeyInv, NEW p \in Processes, NEW path \in Paths, NEW content,
         NEW to \in {"private", "half", "public", "payload", "key", "writing"} \cup Ended,
         file' = [file EXCEPT ![path] = content],
         pc' = [pc EXCEPT ![p] = to],
         to = "writing" => Is(p, {"scan", "sign"}),
         IsKeygen(p) => Owned(p)',
         \A q \in Processes \ {p} :
           IsKeygen(q) =>
             /\ path = Private(q) => pc[q] \notin {"private", "half", "public", "done"}
             /\ path = Public(q) => pc[q] \notin {"public", "done"}
  PROVE  KeyInv'
<1>1. DOMAIN file' = Paths /\ DOMAIN pc' = Processes  BY DEF KeyInv
<1>2. pc'[p] = to /\ \A q \in Processes \ {p} : pc'[q] = pc[q]  BY DEF KeyInv
<1>3. \A q \in Processes \ {p} : IsKeygen(q) => Owned(q)'
  BY OthersStay
<1>4. \A q \in Processes :
        pc'[q] \in {"idle", "start", "private", "half", "public", "payload", "key",
                    "writing"} \cup Ended
  BY <1>2 DEF KeyInv
<1>5. \A q \in Processes : pc'[q] = "writing" => Is(q, {"scan", "sign"})
  BY <1>2 DEF KeyInv
<1> QED  BY <1>1, <1>3, <1>4, <1>5 DEF KeyInv, IsKeygen, Is

\* Neither file changes and the process is no keygen, or it is at its end.
LEMMA QuietKeyInv ==
  ASSUME KeyInv, NEW p \in Processes, file' = file,
         NEW to \in {"payload", "key", "valid", "refused", "failed"},
         pc' = [pc EXCEPT ![p] = to]
  PROVE  KeyInv'
<1>1. DOMAIN file' = Paths /\ DOMAIN pc' = Processes  BY DEF KeyInv
<1>2. pc'[p] = to /\ \A q \in Processes \ {p} : pc'[q] = pc[q]  BY DEF KeyInv
<1>3. \A q \in Processes \ {p} : IsKeygen(q) => Owned(q)'
  BY <1>2 DEF KeyInv, Owned, Private, Public
<1>4. Owned(p)'  BY <1>2 DEF Owned
<1> QED  BY <1>1, <1>2, <1>3, <1>4 DEF KeyInv, IsKeygen, Is, Ended

LEMMA CreateKeyInv ==
  ASSUME KeyInv, NEW p \in Processes, CreatePrivate(p) \/ CreatePublic(p)
  PROVE  KeyInv'
<1>1. IsKeygen(p)  BY DEF CreatePrivate, CreatePublic, KeygenStep, IsKeygen
<1>2. Private(p) \in Paths /\ Public(p) \in Paths  BY <1>1, KeygenPaths
<1>3. CASE CreatePrivate(p)
  <2>1. /\ file[Private(p)] = NoFile
        /\ file' = [file EXCEPT ![Private(p)] = Truncated(p)]
        /\ pc' = [pc EXCEPT ![p] = "private"]
    BY <1>3 DEF CreatePrivate, Create, KeygenStep, Private
  <2>2. Owned(p)'  BY <1>2, <2>1 DEF KeyInv, Owned, Private, Public
  <2>3. \A q \in Processes \ {p} :
          IsKeygen(q) =>
            /\ Private(p) = Private(q) => pc[q] \notin {"private", "half", "public", "done"}
            /\ Private(p) = Public(q) => pc[q] \notin {"public", "done"}
    BY <1>2, <2>1, CreatedIsNew
  <2> QED  BY <1>2, <2>1, <2>2, <2>3, StepKeyInv
<1>4. CASE CreatePublic(p)
  <2>1. /\ pc[p] = "half" /\ file[Public(p)] = NoFile
        /\ file' = [file EXCEPT ![Public(p)] = Truncated(p)]
        /\ pc' = [pc EXCEPT ![p] = "public"]
    BY <1>4 DEF CreatePublic, Create, KeygenStep, Public
  <2>2. file[Private(p)] = PrivateKey(p)  BY <1>1, <2>1 DEF KeyInv, Owned
  <2>3. Private(p) # Public(p)  BY <2>1, <2>2, Contents
  <2>4. Owned(p)'  BY <1>2, <2>1, <2>2, <2>3 DEF KeyInv, Owned, Private, Public
  <2>5. \A q \in Processes \ {p} :
          IsKeygen(q) =>
            /\ Public(p) = Private(q) => pc[q] \notin {"private", "half", "public", "done"}
            /\ Public(p) = Public(q) => pc[q] \notin {"public", "done"}
    BY <1>2, <2>1, CreatedIsNew
  <2> QED  BY <1>2, <2>1, <2>4, <2>5, StepKeyInv
<1> QED  BY <1>3, <1>4

LEMMA WriteKeyInv ==
  ASSUME KeyInv, NEW p \in Processes, WritePrivate(p) \/ WritePublic(p)
  PROVE  KeyInv'
<1>1. IsKeygen(p)  BY DEF WritePrivate, WritePublic, KeygenStep, IsKeygen
<1>2. Private(p) \in Paths /\ Public(p) \in Paths  BY <1>1, KeygenPaths
<1>3. Owned(p)  BY <1>1 DEF KeyInv
<1>4. CASE WritePrivate(p)
  <2>1. pc[p] = "private" /\ pc' = [pc EXCEPT ![p] = "half"]
    BY <1>4 DEF WritePrivate, KeygenStep
  <2>2. file[Private(p)] = Truncated(p)  BY <1>3, <2>1 DEF Owned
  <2>3. file' = [file EXCEPT ![Private(p)] = PrivateKey(p)]
    BY <1>4, <2>2, Contents DEF WritePrivate, Written, Private
  <2>4. Owned(p)'  BY <1>2, <2>1, <2>3 DEF KeyInv, Owned, Private, Public
  <2>5. \A q \in Processes \ {p} :
          IsKeygen(q) =>
            /\ Private(p) = Private(q) => pc[q] \notin {"private", "half", "public", "done"}
            /\ Private(p) = Public(q) => pc[q] \notin {"public", "done"}
    BY <1>2, <2>2, UnwrittenIsOwn
  <2> QED  BY <1>2, <2>1, <2>3, <2>4, <2>5, StepKeyInv
<1>5. CASE WritePublic(p)
  <2>1. pc[p] = "public" /\ pc' = [pc EXCEPT ![p] = "done"]
    BY <1>5 DEF WritePublic, KeygenStep
  <2>2. file[Public(p)] = Truncated(p) /\ file[Private(p)] = PrivateKey(p)
    BY <1>3, <2>1 DEF Owned
  <2>3. file' = [file EXCEPT ![Public(p)] = PublicKey(p)]
    BY <1>5, <2>2, Contents DEF WritePublic, Written, Public
  <2>4. Private(p) # Public(p)  BY <2>2, Contents
  <2>5. Owned(p)'  BY <1>2, <2>1, <2>2, <2>3, <2>4 DEF KeyInv, Owned, Private, Public
  <2>6. \A q \in Processes \ {p} :
          IsKeygen(q) =>
            /\ Public(p) = Private(q) => pc[q] \notin {"private", "half", "public", "done"}
            /\ Public(p) = Public(q) => pc[q] \notin {"public", "done"}
    BY <1>2, <2>2, UnwrittenIsOwn
  <2> QED  BY <1>2, <2>1, <2>3, <2>5, <2>6, StepKeyInv DEF Ended
<1> QED  BY <1>4, <1>5

\* scan and sign open and write files that are no keygen's.
LEMMA OutputKeyInv ==
  ASSUME KeyInv, NEW p \in Processes, Open(p) \/ Write(p)
  PROVE  KeyInv'
<1> DEFINE path == Commands[p].output
<1>1. Is(p, {"scan", "sign"})
  <2>1. CASE Open(p)  BY <2>1 DEF Open, Signing, Is
  <2>2. CASE Write(p)  BY <2>2 DEF Write, KeyInv
  <2> QED  BY <2>1, <2>2
<1>2. path \in Paths /\ ~IsKeygen(p)  BY <1>1, ArtifactsAssumption DEF Is, IsKeygen
<1>3. \A q \in Processes \ {p} :
        IsKeygen(q) => path # Private(q) /\ path # Public(q)
  BY <1>1, KeygenPaths
<1>4. PICK content, to :
        /\ to \in {"writing", "done"}
        /\ file' = [file EXCEPT ![path] = content] /\ pc' = [pc EXCEPT ![p] = to]
  <2>1. CASE Open(p)  BY <2>1 DEF Open
  <2>2. CASE Write(p)  BY <2>2 DEF Write
  <2> QED  BY <2>1, <2>2
<1> HIDE DEF path
<1> QED  BY <1>1, <1>2, <1>3, <1>4, StepKeyInv DEF Ended

\* People edit graphs.
LEMMA EditKeyInv ==
  ASSUME KeyInv, NEW path \in Paths, file[path].kind = "graph",
         NEW text, NEW sense, Edit(path, text, sense)
  PROVE  KeyInv'
<1>1. file' = [file EXCEPT ![path] = GraphFile(text)] /\ pc' = pc  BY DEF Edit
<1>2. DOMAIN file' = Paths /\ DOMAIN pc' = Processes  BY <1>1 DEF KeyInv
<1>3. ASSUME NEW q \in Processes, IsKeygen(q)  PROVE Owned(q)'
  <2>1. Owned(q)  BY <1>3 DEF KeyInv
  <2>2. Private(q) \in Paths /\ Public(q) \in Paths  BY <1>3, KeygenPaths
  <2>3. /\ path # Private(q) => file'[Private(q)] = file[Private(q)]
        /\ path # Public(q) => file'[Public(q)] = file[Public(q)]
    BY <1>1, <2>2 DEF KeyInv
  <2>4. /\ path = Private(q) => pc[q] \notin {"private", "half", "public", "done"}
        /\ path = Public(q) => pc[q] \notin {"public", "done"}
    BY <2>1, Contents DEF Owned
  <2> QED  BY <1>1, <2>1, <2>3, <2>4 DEF Owned, Private, Public
<1> QED  BY <1>1, <1>2, <1>3 DEF KeyInv, IsKeygen, Is

LEMMA NextKeyInv == KeyInv /\ [Next]_vars => KeyInv'
<1> SUFFICES ASSUME KeyInv, [Next]_vars PROVE KeyInv'  OBVIOUS
<1>1. ASSUME NEW p \in Processes, CreatePrivate(p) \/ CreatePublic(p)  PROVE KeyInv'
  BY <1>1, CreateKeyInv
<1>2. ASSUME NEW p \in Processes, WritePrivate(p) \/ WritePublic(p)  PROVE KeyInv'
  BY <1>2, WriteKeyInv
<1>3. ASSUME NEW p \in Processes, ReadPayload(p) \/ ReadKey(p) \/ Verify(p) \/ Fail(p)
      PROVE KeyInv'
  <2>1. \E to \in {"payload", "key", "valid", "refused", "failed"} :
          file' = file /\ pc' = [pc EXCEPT ![p] = to]
    BY <1>3 DEF ReadPayload, ReadKey, Verify, Fail
  <2> QED  BY <2>1, QuietKeyInv
<1>4. ASSUME NEW p \in Processes, Open(p) \/ Write(p)  PROVE KeyInv'
  BY <1>4, OutputKeyInv
<1>5. ASSUME NEW path \in Paths, Reformat(path) \/ Amend(path)  PROVE KeyInv'
  BY <1>5, EditKeyInv DEF Reformat, Amend
<1>6. CASE UNCHANGED vars
  BY <1>6 DEF vars, KeyInv, IsKeygen, Is, Owned, Private, Public
<1> QED  BY <1>1, <1>2, <1>3, <1>4, <1>5, <1>6 DEF Next

\* Both files of a keygen that succeeded are its pair, for ever and whatever else runs
\* on whichever paths: runKeygen of main.go.
THEOREM KeygenStaysWhole == Spec => []KeygenIsWhole
<1>1. KeyInv => KeygenIsWhole
  BY DEF KeyInv, KeygenIsWhole, Owned, Private, Public, IsKeygen
<1> QED  BY <1>1, InitKeyInv, NextKeyInv, PTL DEF Spec

-----------------------------------------------------------------------------
(***************************************************************************)
(* The canonical form.                                                     *)
(***************************************************************************)
LEMMA ItemShape ==
  ASSUME NEW item \in Items
  PROVE  /\ item = [id |-> item.id, count |-> item.count, sources |-> item.sources,
                    seen |-> item.seen, claims |-> item.claims]
         /\ CanonicalItem(item)
              = [id |-> item.id, count |-> item.count, sources |-> SourcesOf(item),
                 seen |-> UTC(item.seen), claims |-> item.claims]
BY DEF Items, CanonicalItem

LEMMA SameItemIsSame ==
  ASSUME NEW item \in Items, NEW other \in SameItem(item)
  PROVE  /\ other \in Items /\ CanonicalItem(other) = CanonicalItem(item)
         /\ other.id = item.id /\ other.claims = item.claims
<1>1. CASE \E hours \in Offsets : other = [item EXCEPT !.seen = Moved(item.seen, hours)]
  <2>1. PICK hours \in Offsets : other = [item EXCEPT !.seen = Moved(item.seen, hours)]
    BY <1>1
  <2>2. item.seen \in Stamps /\ hours \in Nat  BY ArtifactsAssumption DEF Items
  <2>3. Moved(item.seen, hours) \in Stamps
    BY <2>2 DEF Moved, Stamps
  <2>4. UTC(Moved(item.seen, hours)) = UTC(item.seen)
    BY <2>2 DEF Moved, Stamps, UTC, Instant
  <2>5. other \in Items /\ other.id = item.id /\ other.claims = item.claims
        /\ other.count = item.count /\ other.sources = item.sources
        /\ other.seen = Moved(item.seen, hours)
    BY <2>1, <2>3 DEF Items
  <2>6. SourcesOf(other) = SourcesOf(item)  BY <2>5 DEF SourcesOf
  <2> QED  BY <2>4, <2>5, <2>6, ItemShape
<1>2. CASE \E s \in SourcesOf(item) :
             other = [item EXCEPT !.sources = Append(item.sources, s)]
  <2>1. PICK s \in SourcesOf(item) :
          other = [item EXCEPT !.sources = Append(item.sources, s)]
    BY <1>2
  <2>2. item.sources \in Seq(Sources)  BY DEF Items
  <2>3. s \in Sources  BY <2>2 DEF SourcesOf
  <2> DEFINE more == Append(item.sources, s)
  <2>4. more \in Seq(Sources) /\ {more[i] : i \in DOMAIN more} = SourcesOf(item)
    BY <2>2, <2>3 DEF SourcesOf
  <2>5. other = [item EXCEPT !.sources = more]  BY <2>1
  <2> HIDE DEF more
  <2>6. other \in Items /\ other.id = item.id /\ other.claims = item.claims
        /\ other.count = item.count /\ other.sources = more /\ other.seen = item.seen
    BY <2>4, <2>5 DEF Items
  <2>7. SourcesOf(other) = SourcesOf(item)  BY <2>4, <2>6 DEF SourcesOf
  <2> QED  BY <2>6, <2>7, ItemShape
<1> QED  BY <1>1, <1>2 DEF SameItem

\* What the canonical form and the checks before it make of a list.
CanonicalItems(items) == {CanonicalItem(items[i]) : i \in DOMAIN items}
ClaimsOf(items) == {items[i].claims : i \in DOMAIN items}

LEMMA SameItemsAreSame ==
  ASSUME NEW items \in Seq(Items), NEW others \in SameItems(items)
  PROVE  /\ others \in Seq(Items) /\ CanonicalItems(others) = CanonicalItems(items)
         /\ ClaimsOf(others) = ClaimsOf(items)
         /\ Identified(others) <=> Identified(items)
<1>1. CASE \E i, j \in DOMAIN items :
             others = [items EXCEPT ![i] = items[j], ![j] = items[i]]
  <2>1. PICK i \in DOMAIN items, j \in DOMAIN items :
          others = [items EXCEPT ![i] = items[j], ![j] = items[i]]
    BY <1>1
  <2>2. others \in Seq(Items) /\ DOMAIN others = DOMAIN items  BY <2>1
  <2>3. others[i] = items[j] /\ others[j] = items[i]
        /\ \A k \in DOMAIN items \ {i, j} : others[k] = items[k]
    BY <2>1
  <2>4. CanonicalItems(others) = CanonicalItems(items)
    BY <2>2, <2>3 DEF CanonicalItems
  <2>5. ClaimsOf(others) = ClaimsOf(items)  BY <2>2, <2>3 DEF ClaimsOf
  <2>6. Identified(others) <=> Identified(items)  BY <2>2, <2>3 DEF Identified
  <2> QED  BY <2>2, <2>4, <2>5, <2>6
<1>2. CASE \E i \in DOMAIN items : \E item \in SameItem(items[i]) :
             others = [items EXCEPT ![i] = item]
  <2>0. PICK i \in DOMAIN items : \E item \in SameItem(items[i]) :
          others = [items EXCEPT ![i] = item]
    BY <1>2
  <2>1. PICK item \in SameItem(items[i]) : others = [items EXCEPT ![i] = item]
    BY <2>0
  <2>2. /\ item \in Items /\ CanonicalItem(item) = CanonicalItem(items[i])
        /\ item.id = items[i].id /\ item.claims = items[i].claims
    BY SameItemIsSame
  <2>3. others \in Seq(Items) /\ DOMAIN others = DOMAIN items  BY <2>1, <2>2
  <2>4. others[i] = item /\ \A k \in DOMAIN items \ {i} : others[k] = items[k]
    BY <2>1
  <2>5. \A k \in DOMAIN items :
          /\ CanonicalItem(others[k]) = CanonicalItem(items[k])
          /\ others[k].id = items[k].id /\ others[k].claims = items[k].claims
    BY <2>2, <2>4
  <2>6. CanonicalItems(others) = CanonicalItems(items)
    BY <2>3, <2>5 DEF CanonicalItems
  <2>7. ClaimsOf(others) = ClaimsOf(items)  BY <2>3, <2>5 DEF ClaimsOf
  <2>8. Identified(others) <=> Identified(items)  BY <2>3, <2>5 DEF Identified
  <2> QED  BY <2>3, <2>6, <2>7, <2>8
<1> QED  BY <1>1, <1>2 DEF SameItems

LEMMA TextShape ==
  ASSUME NEW text \in Texts, NEW allow \in BOOLEAN
  PROVE  /\ text.nodes \in Seq(Items) /\ text.edges \in Seq(Items)
         /\ Canonical(text) = [nodes |-> CanonicalItems(text.nodes),
                               edges |-> CanonicalItems(text.edges),
                               generated |-> UTC(text.generated)]
         /\ Accepted(text, allow) <=>
              /\ text.strict /\ Identified(text.nodes) /\ Identified(text.edges)
              /\ ClaimsOf(text.nodes) \subseteq {"none"} \cup {c \in {"consistent"} : allow}
BY DEF Texts, Canonical, CanonicalItems, Accepted, ClaimsOf

\* Whatever way a graph is written, CanonicalizeEvidence of signing.go accepts it or
\* not, and gives it one form.
THEOREM ReformattingKeepsIdentity ==
  ASSUME NEW text \in Texts, NEW other \in Reformatted(text), NEW allow \in BOOLEAN
  PROVE  /\ Canonical(other) = Canonical(text)
         /\ Accepted(other, allow) <=> Accepted(text, allow)
<1> DEFINE Same == /\ other \in Texts /\ other.strict = text.strict
                   /\ CanonicalItems(other.nodes) = CanonicalItems(text.nodes)
                   /\ CanonicalItems(other.edges) = CanonicalItems(text.edges)
                   /\ UTC(other.generated) = UTC(text.generated)
                   /\ ClaimsOf(other.nodes) = ClaimsOf(text.nodes)
                   /\ Identified(other.nodes) <=> Identified(text.nodes)
                   /\ Identified(other.edges) <=> Identified(text.edges)
<1> SUFFICES Same
  <2>1. ASSUME Same  PROVE \A a \in BOOLEAN :
            /\ Canonical(other) = Canonical(text)
            /\ Accepted(other, a) <=> Accepted(text, a)
    BY <2>1, TextShape
  <2> QED  BY <2>1
<1>1. text.nodes \in Seq(Items) /\ text.edges \in Seq(Items)  BY DEF Texts
<1>2. CASE \E layout \in Layouts : other = [text EXCEPT !.layout = layout]
  <2>1. other \in Texts /\ other.strict = text.strict /\ other.nodes = text.nodes
        /\ other.edges = text.edges /\ other.generated = text.generated
    BY <1>2 DEF Texts
  <2> QED  BY <2>1
<1>3. CASE \E hours \in Offsets :
             other = [text EXCEPT !.generated = Moved(text.generated, hours)]
  <2>1. PICK hours \in Offsets :
          other = [text EXCEPT !.generated = Moved(text.generated, hours)]
    BY <1>3
  <2>2. text.generated \in Stamps /\ hours \in Nat  BY ArtifactsAssumption DEF Texts
  <2>3. /\ Moved(text.generated, hours) \in Stamps
        /\ UTC(Moved(text.generated, hours)) = UTC(text.generated)
    BY <2>2 DEF Moved, Stamps, UTC, Instant
  <2>4. other \in Texts /\ other.strict = text.strict /\ other.nodes = text.nodes
        /\ other.edges = text.edges /\ other.generated = Moved(text.generated, hours)
    BY <2>1, <2>3 DEF Texts
  <2> QED  BY <2>3, <2>4
<1>4. CASE \E items \in SameItems(text.nodes) : other = [text EXCEPT !.nodes = items]
  <2>1. PICK items \in SameItems(text.nodes) : other = [text EXCEPT !.nodes = items]
    BY <1>4
  <2>2. /\ items \in Seq(Items) /\ CanonicalItems(items) = CanonicalItems(text.nodes)
        /\ ClaimsOf(items) = ClaimsOf(text.nodes)
        /\ Identified(items) <=> Identified(text.nodes)
    BY <1>1, SameItemsAreSame
  <2>3. other \in Texts /\ other.strict = text.strict /\ other.nodes = items
        /\ other.edges = text.edges /\ other.generated = text.generated
    BY <2>1, <2>2 DEF Texts
  <2> QED  BY <2>2, <2>3
<1>5. CASE \E items \in SameItems(text.edges) : other = [text EXCEPT !.edges = items]
  <2>1. PICK items \in SameItems(text.edges) : other = [text EXCEPT !.edges = items]
    BY <1>5
  <2>2. /\ items \in Seq(Items) /\ CanonicalItems(items) = CanonicalItems(text.edges)
        /\ Identified(items) <=> Identified(text.edges)
    BY <1>1, SameItemsAreSame
  <2>3. other \in Texts /\ other.strict = text.strict /\ other.edges = items
        /\ other.nodes = text.nodes /\ other.generated = text.generated
    BY <2>1, <2>2 DEF Texts
  <2> QED  BY <2>2, <2>3
<1> HIDE DEF Same
<1> QED  BY <1>2, <1>3, <1>4, <1>5 DEF Reformatted

-----------------------------------------------------------------------------
\* More of an item is another item, under the same identifier.
LEMMA MoreItemIsMore ==
  ASSUME NEW item \in Items, NEW other \in MoreItem(item)
  PROVE  /\ other \in Items /\ other.id = item.id
         /\ CanonicalItem(other) # CanonicalItem(item)
<1>1. CASE other = [item EXCEPT !.count = item.count + 1]
  <2>1. item.count \in Nat  BY DEF Items
  <2>2. other \in Items /\ other.id = item.id /\ other.count = item.count + 1
    BY <1>1, <2>1 DEF Items
  <2>3. CanonicalItem(other).count # CanonicalItem(item).count
    BY <2>1, <2>2, ItemShape
  <2> QED  BY <2>2, <2>3
<1>2. CASE other = [item EXCEPT !.seen.wall = item.seen.wall + 1]
  <2> DEFINE later == [item.seen EXCEPT !.wall = item.seen.wall + 1]
  <2>1. item.seen \in Stamps  BY DEF Items
  <2>2. later \in Stamps /\ UTC(later) # UTC(item.seen)
    BY <2>1 DEF Stamps, UTC, Instant
  <2>3. other = [item EXCEPT !.seen = later]  BY <1>2
  <2> HIDE DEF later
  <2>4. other \in Items /\ other.id = item.id /\ other.seen = later
    BY <2>2, <2>3 DEF Items
  <2>5. CanonicalItem(other).seen # CanonicalItem(item).seen
    BY <2>2, <2>4, ItemShape
  <2> QED  BY <2>4, <2>5
<1>3. CASE \E s \in Sources \ SourcesOf(item) :
             other = [item EXCEPT !.sources = Append(item.sources, s)]
  <2>1. PICK s \in Sources \ SourcesOf(item) :
          other = [item EXCEPT !.sources = Append(item.sources, s)]
    BY <1>3
  <2>2. item.sources \in Seq(Sources)  BY DEF Items
  <2> DEFINE more == Append(item.sources, s)
  <2>3. more \in Seq(Sources) /\ Len(more) \in DOMAIN more /\ more[Len(more)] = s
    BY <2>1, <2>2
  <2>4. other = [item EXCEPT !.sources = more]  BY <2>1
  <2> HIDE DEF more
  <2>5. other \in Items /\ other.id = item.id /\ other.sources = more
    BY <2>3, <2>4 DEF Items
  <2>6. s \in SourcesOf(other)  BY <2>3, <2>5 DEF SourcesOf
  <2>7. CanonicalItem(other).sources # CanonicalItem(item).sources
    BY <2>1, <2>5, <2>6, ItemShape
  <2> QED  BY <2>5, <2>7
<1> QED  BY <1>1, <1>2, <1>3 DEF MoreItem

\* Two lists, one of which has an item that the other does not have under that
\* identifier, have different forms.
LEMMA DifferentItem ==
  ASSUME NEW items \in Seq(Items), NEW others \in Seq(Items),
         NEW i \in DOMAIN others,
         \A k \in DOMAIN items :
           items[k].id = others[i].id => CanonicalItem(items[k]) # CanonicalItem(others[i])
  PROVE  CanonicalItems(others) # CanonicalItems(items)
<1>1. CanonicalItem(others[i]) \in CanonicalItems(others)  BY DEF CanonicalItems
<1>2. ASSUME CanonicalItem(others[i]) \in CanonicalItems(items)  PROVE FALSE
  <2>1. PICK k \in DOMAIN items : CanonicalItem(others[i]) = CanonicalItem(items[k])
    BY <1>2 DEF CanonicalItems
  <2>2. others[i] \in Items /\ items[k] \in Items  OBVIOUS
  <2>3. CanonicalItem(others[i]).id = others[i].id /\ CanonicalItem(items[k]).id = items[k].id
    BY <2>2, ItemShape
  <2> QED  BY <2>1, <2>3
<1> QED  BY <1>1, <1>2

\* One item of a list is replaced by another of its identifier.
LEMMA ReplacedItem ==
  ASSUME NEW items \in Seq(Items), Identified(items), NEW i \in DOMAIN items,
         NEW item \in Items, item.id = items[i].id,
         CanonicalItem(item) # CanonicalItem(items[i])
  PROVE  /\ [items EXCEPT ![i] = item] \in Seq(Items)
         /\ CanonicalItems([items EXCEPT ![i] = item]) # CanonicalItems(items)
<1> DEFINE others == [items EXCEPT ![i] = item]
<1>1. others \in Seq(Items) /\ i \in DOMAIN others /\ others[i] = item  OBVIOUS
<1>2. \A k \in DOMAIN items : items[k].id = item.id => k = i  BY DEF Identified
<1> HIDE DEF others
<1>3. CanonicalItems(others) # CanonicalItems(items)  BY <1>1, <1>2, DifferentItem
<1> QED  BY <1>1, <1>3 DEF others

LEMMA MoreItemsAreMore ==
  ASSUME NEW items \in Seq(Items), NEW others \in MoreItems(items),
         Identified(items), Identified(others)
  PROVE  others \in Seq(Items) /\ CanonicalItems(others) # CanonicalItems(items)
<1> DEFINE Longest(id) == Append(items, [items[1] EXCEPT !.id = id])
           Replaced ==
             UNION {{[items EXCEPT ![i] = item] : item \in MoreItem(items[i])} :
                    i \in DOMAIN items}
           Longer == {Longest(id) : id \in {i \in Ids \cup {NoId} : items # <<>>}}
<1>1. CASE others \in Replaced
  <2>0. PICK i \in DOMAIN items : \E item \in MoreItem(items[i]) :
          others = [items EXCEPT ![i] = item]
    BY <1>1
  <2>1. PICK item \in MoreItem(items[i]) : others = [items EXCEPT ![i] = item]
    BY <2>0
  <2>2. item \in Items /\ item.id = items[i].id
        /\ CanonicalItem(item) # CanonicalItem(items[i])
    BY MoreItemIsMore
  <2> QED  BY <2>1, <2>2, ReplacedItem
<1>2. CASE others \in Longer
  <2> HIDE DEF Longest
  <2>1. PICK id \in Ids \cup {NoId} : items # <<>> /\ others = Longest(id)
    BY <1>2
  <2> DEFINE n == Len(items) + 1
             item == [items[1] EXCEPT !.id = id]
  <2>2. items[1] \in Items  BY <2>1
  <2>3. item \in Items  BY <2>2 DEF Items
  <2>4. others = Append(items, item)  BY <2>1 DEF Longest
  <2> HIDE DEF item
  <2>5. /\ others \in Seq(Items) /\ n \in DOMAIN others
        /\ \A k \in DOMAIN items : k \in DOMAIN others /\ k # n /\ others[k] = items[k]
    BY <2>3, <2>4
  <2>6. \A k \in DOMAIN items : items[k].id # others[n].id
    BY <2>5 DEF Identified
  <2> HIDE DEF n
  <2> QED  BY <2>5, <2>6, DifferentItem
<1>3. others \in MoreItems(items)  OBVIOUS
<1>4. MoreItems(items) = Longer \cup Replaced  BY DEF MoreItems
<1> HIDE DEF Replaced, Longer
<1> QED  BY <1>1, <1>2, <1>3, <1>4

\* A graph that has more than one that was accepted is refused or has another form:
\* "any retained evidence-field change changes the digest" (README.md:161).
THEOREM AmendingChangesIdentity ==
  ASSUME NEW text \in Texts, NEW other \in Amended(text),
         Accepted(text, TRUE), Accepted(other, TRUE)
  PROVE  Canonical(other) # Canonical(text)
<1>1. text.nodes \in Seq(Items) /\ text.edges \in Seq(Items)
      /\ Identified(text.nodes) /\ Identified(text.edges)
  BY DEF Texts, Accepted
<1>2. other.strict /\ Identified(other.nodes) /\ Identified(other.edges)
  BY DEF Accepted
<1>3. CASE other = [text EXCEPT !.strict = FALSE]
  BY <1>2, <1>3 DEF Texts
<1>4. CASE \E items \in MoreItems(text.nodes) : other = [text EXCEPT !.nodes = items]
  <2>1. PICK items \in MoreItems(text.nodes) : other = [text EXCEPT !.nodes = items]
    BY <1>4
  <2>2. other.nodes = items  BY <2>1 DEF Texts
  <2>3. items \in Seq(Items) /\ CanonicalItems(items) # CanonicalItems(text.nodes)
    BY <1>1, <1>2, <2>2, MoreItemsAreMore
  <2>4. Canonical(other).nodes # Canonical(text).nodes
    BY <2>2, <2>3 DEF Canonical, CanonicalItems
  <2> QED  BY <2>4
<1>5. CASE \E items \in MoreItems(text.edges) : other = [text EXCEPT !.edges = items]
  <2>1. PICK items \in MoreItems(text.edges) : other = [text EXCEPT !.edges = items]
    BY <1>5
  <2>2. other.edges = items  BY <2>1 DEF Texts
  <2>3. items \in Seq(Items) /\ CanonicalItems(items) # CanonicalItems(text.edges)
    BY <1>1, <1>2, <2>2, MoreItemsAreMore
  <2>4. Canonical(other).edges # Canonical(text).edges
    BY <2>2, <2>3 DEF Canonical, CanonicalItems
  <2> QED  BY <2>4
<1>6. CASE \E i \in DOMAIN text.nodes, claims \in {"consistent", "inconsistent"} :
             /\ text.nodes[i].claims = "none"
             /\ other = [text EXCEPT !.nodes[i].claims = claims]
  <2>1. PICK i \in DOMAIN text.nodes, claims \in {"consistent", "inconsistent"} :
          /\ text.nodes[i].claims = "none"
          /\ other = [text EXCEPT !.nodes[i].claims = claims]
    BY <1>6
  <2> DEFINE item == [text.nodes[i] EXCEPT !.claims = claims]
             items == [text.nodes EXCEPT ![i] = item]
  <2>2. text.nodes[i] \in Items  BY <1>1
  <2>3. item \in Items /\ item.id = text.nodes[i].id /\ item.claims = claims
    BY <2>2 DEF Items
  <2>4. CanonicalItem(item).claims # CanonicalItem(text.nodes[i]).claims
    BY <2>1, <2>2, <2>3, ItemShape
  <2> HIDE DEF item
  <2>5. CanonicalItems(items) # CanonicalItems(text.nodes)
    BY <1>1, <2>3, <2>4, ReplacedItem
  <2>6. other.nodes = items  BY <2>1 DEF Texts, item
  <2>7. Canonical(other).nodes # Canonical(text).nodes
    BY <2>5, <2>6 DEF Canonical, CanonicalItems
  <2> QED  BY <2>7
<1> QED  BY <1>3, <1>4, <1>5, <1>6 DEF Amended

\* Verify of signing.go accepts what was signed with the other half of the key, and
\* nothing of another form.
LEMMA VerifiesWhatWasSigned ==
  ASSUME NEW version, NEW content, NEW other, NEW pair, NEW otherPair
  PROVE  Verifies(other, Envelope(version, content, pair), PublicKey(otherPair)) <=>
           /\ Acceptable(version, other) /\ otherPair = pair
           /\ Payload(version, other) = Payload(version, content)
BY DEF Verifies, Envelope, PublicKey

\* A canonical signature of a graph is valid for that graph however it is written, and
\* for none that has more: sign --canonical-evidence and verify of main.go.
THEOREM SignatureFollowsGraph ==
  ASSUME NEW text \in Texts, Accepted(text, TRUE), NEW pair
  PROVE  LET Valid(other) == Verifies(GraphFile(other),
                               Envelope("0.3.0", GraphFile(text), pair), PublicKey(pair))
         IN  /\ \A other \in Reformatted(text) : Valid(other)
             /\ \A other \in Amended(text) : ~Valid(other)
<1>1. ASSUME NEW other
      PROVE  Verifies(GraphFile(other), Envelope("0.3.0", GraphFile(text), pair),
                      PublicKey(pair))
               <=> Accepted(other, TRUE) /\ Canonical(other) = Canonical(text)
  <2>1. Acceptable("0.3.0", GraphFile(other)) <=> Accepted(other, TRUE)
    BY DEF Acceptable, CanonicalVersions, GraphFile
  <2>2. /\ Payload("0.3.0", GraphFile(other)) = Canonical(other)
        /\ Payload("0.3.0", GraphFile(text)) = Canonical(text)
    BY DEF Payload, RawVersion, GraphFile
  <2>3. Verifies(GraphFile(other), Envelope("0.3.0", GraphFile(text), pair),
                 PublicKey(pair))
          <=> /\ Acceptable("0.3.0", GraphFile(other))
              /\ Payload("0.3.0", GraphFile(other)) = Payload("0.3.0", GraphFile(text))
    BY VerifiesWhatWasSigned
  <2> QED  BY <2>1, <2>2, <2>3
<1>2. \A other \in Reformatted(text) :
        Accepted(other, TRUE) /\ Canonical(other) = Canonical(text)
  BY ReformattingKeepsIdentity
<1>3. \A other \in Amended(text) :
        ~(Accepted(other, TRUE) /\ Canonical(other) = Canonical(text))
  BY AmendingChangesIdentity
<1> QED  BY <1>1, <1>2, <1>3

-----------------------------------------------------------------------------
(***************************************************************************)
(* Verdicts.  A time of generation names a graph; the graph is in one file *)
(* at most, and what it says there is at least what it ever said.          *)
(***************************************************************************)
ItemBelow(item, other) ==
  /\ item.id = other.id
  /\ item.count <= other.count /\ item.seen <= other.seen
  /\ item.sources \subseteq other.sources
  /\ item.claims \in {"none", other.claims}

ItemsBelow(items, others) ==
  \A item \in items : \E other \in others : ItemBelow(item, other)

Below(text, other) ==
  /\ ItemsBelow(CanonicalItems(text.nodes), CanonicalItems(other.nodes))
  /\ ItemsBelow(CanonicalItems(text.edges), CanonicalItems(other.edges))

Sense(text, change) == [graph |-> Instant(text.generated), change |-> change]

\* Changes are numbered by the edits that are left.
MeaningShape ==
  /\ edits \in Nat
  /\ DOMAIN meaning \subseteq Texts
  /\ \A text \in DOMAIN meaning :
       LET change == meaning[text].change IN
         /\ meaning[text] = Sense(text, change) /\ change \in Nat
         /\ change = 0 \/ change > edits

\* Texts that mean the same are alike, and those that are accepted and alike mean the
\* same.
MeaningIsForm ==
  \A text, other \in DOMAIN meaning :
    /\ meaning[text] = meaning[other] => Alike(text, other)
    /\ Accepted(text, TRUE) /\ Accepted(other, TRUE) /\ Canonical(text) = Canonical(other)
         => meaning[text] = meaning[other]

HasGraph(path) == file[path].kind = "graph"

LatestInFile ==
  \A path \in Paths :
    HasGraph(path) =>
      /\ file[path].text \in DOMAIN meaning
      /\ \A other \in Paths :
           HasGraph(other) /\ OneTime(file[path].text, file[other].text) => other = path
      /\ \A text \in DOMAIN meaning :
           /\ OneTime(text, file[path].text)
           /\ Accepted(text, TRUE) /\ Accepted(file[path].text, TRUE)
           => Below(text, file[path].text)

\* What a scan has not written yet, nobody has changed.
ScansAreNew ==
  \A p \in Scans :
    /\ Commands[p].text \in DOMAIN meaning
    /\ pc[p] # "done" =>
         /\ \A path \in Paths : HasGraph(path) => ~OneTime(file[path].text, Commands[p].text)
         /\ \A text \in DOMAIN meaning :
              OneTime(text, Commands[p].text) => text = Commands[p].text

Recorded(content, signatures, senses) ==
  /\ Known(content, signatures)
  /\ content.kind = "graph" => content.text \in DOMAIN senses

Signature(p) == [envelope |-> EnvelopeFile(EnvelopeOf(p)), content |-> held[p].payload]

ProcessRecord(p) ==
  /\ DOMAIN held[p] = {"payload", "key", "envelope"}
  /\ Recorded(held[p].payload, signed, meaning) /\ Recorded(held[p].key, signed, meaning)
  /\ pc[p] = "writing" /\ Is(p, {"sign"}) => Made(Signature(p))
  /\ pc[p] \in {"valid", "refused"} =>
       /\ \E s \in signed : s.envelope = held[p].envelope
       /\ pc[p] = "valid" <=>
            Verifies(held[p].payload, held[p].envelope.envelope, held[p].key)

RecordInv ==
  /\ \A path \in Paths : Recorded(file[path], signed, meaning)
  /\ \A s \in signed : Made(s) /\ Recorded(s.content, signed, meaning)
  /\ DOMAIN held = Processes
  /\ \A p \in Processes : ProcessRecord(p)

VerdictInv ==
  KeyInv /\ MeaningShape /\ MeaningIsForm /\ LatestInFile /\ ScansAreNew /\ RecordInv

CanonicalForms ==
  [id : Ids \cup {NoId}, count : Nat, sources : SUBSET Sources, seen : Int,
   claims : {"none", "consistent", "inconsistent"}]

LEMMA CanonicalItemForm ==
  ASSUME NEW item \in Items
  PROVE  CanonicalItem(item) \in CanonicalForms
<1>1. UTC(item.seen) \in Int  BY DEF Items, Stamps, UTC, Instant
<1>2. SourcesOf(item) \in SUBSET Sources
  <2>1. item.sources \in Seq(Sources)  BY DEF Items
  <2> QED  BY <2>1 DEF SourcesOf
<1> QED  BY <1>1, <1>2 DEF CanonicalItem, Items, CanonicalForms

LEMMA CanonicalItemsForm ==
  ASSUME NEW items \in Seq(Items)
  PROVE  CanonicalItems(items) \subseteq CanonicalForms
<1>1. \A i \in DOMAIN items : items[i] \in Items  OBVIOUS
<1> QED  BY <1>1, CanonicalItemForm DEF CanonicalItems

LEMMA ItemBelowIsOrder ==
  ASSUME NEW a \in CanonicalForms, NEW b \in CanonicalForms, NEW c \in CanonicalForms
  PROVE  /\ ItemBelow(a, a)
         /\ ItemBelow(a, b) /\ ItemBelow(b, c) => ItemBelow(a, c)
         /\ ItemBelow(a, b) /\ ItemBelow(b, a) => a = b
<1>1. /\ a = [id |-> a.id, count |-> a.count, sources |-> a.sources, seen |-> a.seen,
              claims |-> a.claims]
      /\ b = [id |-> b.id, count |-> b.count, sources |-> b.sources, seen |-> b.seen,
              claims |-> b.claims]
  BY DEF CanonicalForms
<1>2. /\ a.count \in Nat /\ b.count \in Nat /\ c.count \in Nat
      /\ a.seen \in Int /\ b.seen \in Int /\ c.seen \in Int
  BY DEF CanonicalForms
<1>3. ItemBelow(a, a)  BY <1>2 DEF ItemBelow
<1>4. ItemBelow(a, b) /\ ItemBelow(b, c) => ItemBelow(a, c)
  BY <1>2 DEF ItemBelow
<1>5. ASSUME ItemBelow(a, b), ItemBelow(b, a)  PROVE a = b
  <2>1. a.id = b.id /\ a.count = b.count /\ a.seen = b.seen
    BY <1>2, <1>5 DEF ItemBelow
  <2>2. a.sources = b.sources  BY <1>5 DEF ItemBelow
  <2>3. a.claims = b.claims  BY <1>5 DEF ItemBelow
  <2> QED  BY <1>1, <2>1, <2>2, <2>3
<1> QED  BY <1>3, <1>4, <1>5

LEMMA ItemsBelowIsTransitive ==
  ASSUME NEW a \in SUBSET CanonicalForms, NEW b \in SUBSET CanonicalForms,
         NEW c \in SUBSET CanonicalForms, ItemsBelow(a, b), ItemsBelow(b, c)
  PROVE  ItemsBelow(a, c)
<1> SUFFICES ASSUME NEW item \in a PROVE \E other \in c : ItemBelow(item, other)
  BY DEF ItemsBelow
<1>1. PICK middle \in b : ItemBelow(item, middle)  BY DEF ItemsBelow
<1>2. PICK other \in c : ItemBelow(middle, other)  BY DEF ItemsBelow
<1>3. item \in CanonicalForms /\ middle \in CanonicalForms /\ other \in CanonicalForms
  OBVIOUS
<1>4. ItemBelow(item, other)  BY <1>1, <1>2, <1>3, ItemBelowIsOrder
<1> QED  BY <1>4

\* In lists without two items of one identifier.
LEMMA ItemsBelowIsAntisymmetric ==
  ASSUME NEW items \in Seq(Items), Identified(items), NEW others \in Seq(Items),
         ItemsBelow(CanonicalItems(items), CanonicalItems(others)),
         ItemsBelow(CanonicalItems(others), CanonicalItems(items))
  PROVE  CanonicalItems(items) \subseteq CanonicalItems(others)
<1> DEFINE A == CanonicalItems(items)
           B == CanonicalItems(others)
<1>1. A \subseteq CanonicalForms /\ B \subseteq CanonicalForms  BY CanonicalItemsForm
<1>2. \A x, y \in A : x.id = y.id => x = y
  <2> SUFFICES ASSUME NEW x \in A, NEW y \in A, x.id = y.id PROVE x = y  OBVIOUS
  <2>1. PICK i \in DOMAIN items : x = CanonicalItem(items[i])  BY DEF CanonicalItems
  <2>2. PICK j \in DOMAIN items : y = CanonicalItem(items[j])  BY DEF CanonicalItems
  <2>3. items[i] \in Items /\ items[j] \in Items  OBVIOUS
  <2>4. x.id = items[i].id /\ y.id = items[j].id  BY <2>1, <2>2, <2>3, ItemShape
  <2>5. i = j  BY <2>4 DEF Identified
  <2> QED  BY <2>1, <2>2, <2>5
<1>3. ItemsBelow(A, B) /\ ItemsBelow(B, A)  OBVIOUS
<1> HIDE DEF A, B
<1> SUFFICES ASSUME NEW x \in A PROVE x \in B  BY DEF A, B
<1>4. PICK y \in B : ItemBelow(x, y)  BY <1>3 DEF ItemsBelow
<1>5. PICK z \in A : ItemBelow(y, z)  BY <1>3 DEF ItemsBelow
<1>6. z = x  BY <1>2, <1>4, <1>5 DEF ItemBelow
<1>7. x \in CanonicalForms /\ y \in CanonicalForms  BY <1>1
<1>8. x = y  BY <1>4, <1>5, <1>6, <1>7, ItemBelowIsOrder
<1> QED  BY <1>8

LEMMA SameForm ==
  ASSUME NEW t, NEW u
  PROVE  Canonical(t) = Canonical(u) <=>
           /\ CanonicalItems(t.nodes) = CanonicalItems(u.nodes)
           /\ CanonicalItems(t.edges) = CanonicalItems(u.edges)
           /\ OneTime(t, u)
<1> DEFINE tn == CanonicalItems(t.nodes)  te == CanonicalItems(t.edges)
           un == CanonicalItems(u.nodes)  ue == CanonicalItems(u.edges)
           tt == UTC(t.generated)  ut == UTC(u.generated)
<1>1. Canonical(t) = [nodes |-> tn, edges |-> te, generated |-> tt]
  BY DEF Canonical, CanonicalItems
<1>2. Canonical(u) = [nodes |-> un, edges |-> ue, generated |-> ut]
  BY DEF Canonical, CanonicalItems
<1>3. OneTime(t, u) <=> tt = ut  BY DEF OneTime, UTC
<1> HIDE DEF tn, te, un, ue, tt, ut
<1>4. Canonical(t) = Canonical(u) <=> tn = un /\ te = ue /\ tt = ut
  BY <1>1, <1>2
<1> QED  BY <1>3, <1>4 DEF tn, te, un, ue

LEMMA BelowIsOrder ==
  ASSUME NEW t \in Texts, NEW u \in Texts, NEW v \in Texts
  PROVE  /\ Canonical(t) = Canonical(u) => Below(t, u)
         /\ Below(t, u) /\ Below(u, v) => Below(t, v)
         /\ /\ Below(t, u) /\ Below(u, t) /\ OneTime(t, u)
            /\ Accepted(t, TRUE) /\ Accepted(u, TRUE)
            => Canonical(t) = Canonical(u)
<1>1. /\ t.nodes \in Seq(Items) /\ t.edges \in Seq(Items) /\ u.nodes \in Seq(Items)
      /\ u.edges \in Seq(Items) /\ v.nodes \in Seq(Items) /\ v.edges \in Seq(Items)
  BY DEF Texts
<1> DEFINE Forms(items) == CanonicalItems(items)
<1>2. \A items \in Seq(Items) : Forms(items) \in SUBSET CanonicalForms
  BY CanonicalItemsForm
<1>3. Canonical(t) = Canonical(u) <=>
        Forms(t.nodes) = Forms(u.nodes) /\ Forms(t.edges) = Forms(u.edges) /\ OneTime(t, u)
  BY SameForm
<1> HIDE DEF Forms
<1>4. \A a \in SUBSET CanonicalForms : ItemsBelow(a, a)
  BY ItemBelowIsOrder DEF ItemsBelow
<1>5. Canonical(t) = Canonical(u) => Below(t, u)
  <2> SUFFICES ASSUME Canonical(t) = Canonical(u) PROVE Below(t, u)  OBVIOUS
  <2>1. Forms(t.nodes) = Forms(u.nodes) /\ Forms(t.edges) = Forms(u.edges)
    BY <1>3
  <2>2. ItemsBelow(Forms(t.nodes), Forms(t.nodes)) /\ ItemsBelow(Forms(t.edges), Forms(t.edges))
    BY <1>1, <1>2, <1>4
  <2> QED  BY <2>1, <2>2 DEF Below, Forms
<1>6. Below(t, u) /\ Below(u, v) => Below(t, v)
  <2>1. \A a, b, c \in SUBSET CanonicalForms :
          ItemsBelow(a, b) /\ ItemsBelow(b, c) => ItemsBelow(a, c)
    BY ItemsBelowIsTransitive
  <2>2. /\ Forms(t.nodes) \in SUBSET CanonicalForms /\ Forms(t.edges) \in SUBSET CanonicalForms
        /\ Forms(u.nodes) \in SUBSET CanonicalForms /\ Forms(u.edges) \in SUBSET CanonicalForms
        /\ Forms(v.nodes) \in SUBSET CanonicalForms /\ Forms(v.edges) \in SUBSET CanonicalForms
    BY <1>1, <1>2
  <2>3. \A x, y \in Texts :
          Below(x, y) <=> /\ ItemsBelow(Forms(x.nodes), Forms(y.nodes))
                          /\ ItemsBelow(Forms(x.edges), Forms(y.edges))
    BY DEF Below, Forms
  <2> QED  BY <2>1, <2>2, <2>3
<1>7. ASSUME Below(t, u), Below(u, t), OneTime(t, u), Accepted(t, TRUE), Accepted(u, TRUE)
      PROVE  Canonical(t) = Canonical(u)
  <2>1. /\ Identified(t.nodes) /\ Identified(t.edges)
        /\ Identified(u.nodes) /\ Identified(u.edges)
    BY <1>7 DEF Accepted
  <2>2. Forms(t.nodes) \subseteq Forms(u.nodes) /\ Forms(u.nodes) \subseteq Forms(t.nodes)
    BY <1>1, <1>7, <2>1, ItemsBelowIsAntisymmetric DEF Below, Forms
  <2>3. Forms(t.edges) \subseteq Forms(u.edges) /\ Forms(u.edges) \subseteq Forms(t.edges)
    BY <1>1, <1>7, <2>1, ItemsBelowIsAntisymmetric DEF Below, Forms
  <2> QED  BY <1>3, <1>7, <2>2, <2>3
<1> QED  BY <1>5, <1>6, <1>7

\* More of an item, of a list, of a graph is above it.
LEMMA MoreItemIsAbove ==
  ASSUME NEW item \in Items, NEW other \in MoreItem(item)
  PROVE  /\ other \in Items /\ other.id = item.id /\ other.claims = item.claims
         /\ ItemBelow(CanonicalItem(item), CanonicalItem(other))
<1>0. other \in Items /\ other.id = item.id  BY MoreItemIsMore
<1>1. /\ CanonicalItem(item).id = item.id /\ CanonicalItem(item).count = item.count
      /\ CanonicalItem(item).sources = SourcesOf(item)
      /\ CanonicalItem(item).seen = UTC(item.seen) /\ CanonicalItem(item).claims = item.claims
  BY ItemShape
<1>2. /\ CanonicalItem(other).id = other.id /\ CanonicalItem(other).count = other.count
      /\ CanonicalItem(other).sources = SourcesOf(other)
      /\ CanonicalItem(other).seen = UTC(other.seen)
      /\ CanonicalItem(other).claims = other.claims
  BY <1>0, ItemShape
<1> SUFFICES /\ other.claims = item.claims /\ item.count <= other.count
             /\ UTC(item.seen) <= UTC(other.seen) /\ SourcesOf(item) \subseteq SourcesOf(other)
  BY <1>0, <1>1, <1>2 DEF ItemBelow
<1>3. item.count \in Nat /\ item.seen \in Stamps /\ item.sources \in Seq(Sources)
  BY DEF Items
<1>4. UTC(item.seen) \in Int  BY <1>3 DEF Stamps, UTC, Instant
<1>5. CASE other = [item EXCEPT !.count = item.count + 1]
  <2>1. /\ other.count = item.count + 1 /\ other.claims = item.claims
        /\ other.seen = item.seen /\ other.sources = item.sources
    BY <1>5 DEF Items
  <2> QED  BY <1>3, <1>4, <2>1 DEF SourcesOf
<1>6. CASE other = [item EXCEPT !.seen.wall = item.seen.wall + 1]
  <2> DEFINE later == [item.seen EXCEPT !.wall = item.seen.wall + 1]
  <2>1. UTC(item.seen) <= UTC(later)
    BY <1>3 DEF Stamps, UTC, Instant
  <2>2. other = [item EXCEPT !.seen = later]  BY <1>6
  <2> HIDE DEF later
  <2>3. /\ other.count = item.count /\ other.claims = item.claims
        /\ other.seen = later /\ other.sources = item.sources
    BY <2>2 DEF Items
  <2> QED  BY <1>3, <2>1, <2>3 DEF SourcesOf
<1>7. CASE \E s \in Sources \ SourcesOf(item) :
             other = [item EXCEPT !.sources = Append(item.sources, s)]
  <2>1. PICK s \in Sources \ SourcesOf(item) :
          other = [item EXCEPT !.sources = Append(item.sources, s)]
    BY <1>7
  <2> DEFINE more == Append(item.sources, s)
  <2>2. {item.sources[i] : i \in DOMAIN item.sources} \subseteq {more[i] : i \in DOMAIN more}
    <3>1. \A i \in DOMAIN item.sources : i \in DOMAIN more /\ more[i] = item.sources[i]
      BY <1>3, <2>1
    <3> QED  BY <3>1
  <2>3. other = [item EXCEPT !.sources = more]  BY <2>1
  <2> HIDE DEF more
  <2>4. /\ other.count = item.count /\ other.claims = item.claims
        /\ other.seen = item.seen /\ other.sources = more
    BY <2>3 DEF Items
  <2>5. SourcesOf(item) \subseteq SourcesOf(other)  BY <2>2, <2>4 DEF SourcesOf
  <2> QED  BY <1>3, <1>4, <2>4, <2>5
<1> QED  BY <1>5, <1>6, <1>7 DEF MoreItem

LEMMA ListIsBelow ==
  ASSUME NEW items \in Seq(Items), NEW others \in Seq(Items),
         \A i \in DOMAIN items :
           /\ i \in DOMAIN others /\ others[i].id = items[i].id
           /\ ItemBelow(CanonicalItem(items[i]), CanonicalItem(others[i]))
  PROVE  /\ ItemsBelow(CanonicalItems(items), CanonicalItems(others))
         /\ Identified(others) => Identified(items)
<1>1. ItemsBelow(CanonicalItems(items), CanonicalItems(others))
  BY DEF ItemsBelow, CanonicalItems
<1>2. Identified(others) => Identified(items)  BY DEF Identified
<1> QED  BY <1>1, <1>2

LEMMA MoreItemsAreAbove ==
  ASSUME NEW items \in Seq(Items), NEW others \in MoreItems(items)
  PROVE  /\ others \in Seq(Items)
         /\ ItemsBelow(CanonicalItems(items), CanonicalItems(others))
         /\ Identified(others) => Identified(items)
         /\ ClaimsOf(items) \subseteq ClaimsOf(others)
<1> DEFINE Longest(id) == Append(items, [items[1] EXCEPT !.id = id])
           Replaced ==
             UNION {{[items EXCEPT ![i] = item] : item \in MoreItem(items[i])} :
                    i \in DOMAIN items}
           Longer == {Longest(id) : id \in {i \in Ids \cup {NoId} : items # <<>>}}
<1>0. \A i \in DOMAIN items :
        items[i] \in Items /\ ItemBelow(CanonicalItem(items[i]), CanonicalItem(items[i]))
  <2>1. \A i \in DOMAIN items : items[i] \in Items  OBVIOUS
  <2> QED  BY <2>1, CanonicalItemForm, ItemBelowIsOrder
<1> SUFFICES /\ others \in Seq(Items)
             /\ \A i \in DOMAIN items :
                  /\ i \in DOMAIN others /\ others[i].id = items[i].id
                  /\ others[i].claims = items[i].claims
                  /\ ItemBelow(CanonicalItem(items[i]), CanonicalItem(others[i]))
  <2>1. ASSUME \A i \in DOMAIN items :
                 i \in DOMAIN others /\ others[i].claims = items[i].claims
        PROVE  ClaimsOf(items) \subseteq ClaimsOf(others)
    BY <2>1 DEF ClaimsOf
  <2> QED  BY <2>1, ListIsBelow
<1>1. CASE others \in Replaced
  <2>0. PICK i \in DOMAIN items : \E item \in MoreItem(items[i]) :
          others = [items EXCEPT ![i] = item]
    BY <1>1
  <2>1. PICK item \in MoreItem(items[i]) : others = [items EXCEPT ![i] = item]
    BY <2>0
  <2>2. /\ item \in Items /\ item.id = items[i].id /\ item.claims = items[i].claims
        /\ ItemBelow(CanonicalItem(items[i]), CanonicalItem(item))
    BY <1>0, MoreItemIsAbove
  <2>3. others \in Seq(Items) /\ DOMAIN others = DOMAIN items  BY <2>1, <2>2
  <2>4. others[i] = item /\ \A k \in DOMAIN items \ {i} : others[k] = items[k]
    BY <2>1
  <2> QED  BY <1>0, <2>2, <2>3, <2>4
<1>2. CASE others \in Longer
  <2> HIDE DEF Longest
  <2>1. PICK id \in Ids \cup {NoId} : items # <<>> /\ others = Longest(id)
    BY <1>2
  <2> DEFINE item == [items[1] EXCEPT !.id = id]
  <2>2. items[1] \in Items  BY <2>1
  <2>3. item \in Items  BY <2>2 DEF Items
  <2>4. others = Append(items, item)  BY <2>1 DEF Longest
  <2> HIDE DEF item
  <2>5. /\ others \in Seq(Items)
        /\ \A k \in DOMAIN items : k \in DOMAIN others /\ others[k] = items[k]
    BY <2>3, <2>4
  <2> QED  BY <1>0, <2>5
<1>3. others \in MoreItems(items)  OBVIOUS
<1>4. MoreItems(items) = Longer \cup Replaced  BY DEF MoreItems
<1> HIDE DEF Replaced, Longer
<1> QED  BY <1>1, <1>2, <1>3, <1>4

LEMMA BelowItself ==
  ASSUME NEW items \in Seq(Items)
  PROVE  ItemsBelow(CanonicalItems(items), CanonicalItems(items))
BY CanonicalItemsForm, ItemBelowIsOrder DEF ItemsBelow

\* A graph with more is above; it is no better accepted, and of the same time.
LEMMA AmendedIsAbove ==
  ASSUME NEW text \in Texts, NEW other \in Amended(text)
  PROVE  /\ other \in Texts /\ other.generated = text.generated
         /\ Below(text, other)
         /\ Accepted(other, TRUE) => Accepted(text, TRUE)
<1>1. text.nodes \in Seq(Items) /\ text.edges \in Seq(Items)  BY DEF Texts
<1>2. /\ ItemsBelow(CanonicalItems(text.nodes), CanonicalItems(text.nodes))
      /\ ItemsBelow(CanonicalItems(text.edges), CanonicalItems(text.edges))
  BY <1>1, BelowItself
<1> SUFFICES /\ other \in Texts /\ other.generated = text.generated
             /\ other.strict => text.strict
             /\ ItemsBelow(CanonicalItems(text.nodes), CanonicalItems(other.nodes))
             /\ ItemsBelow(CanonicalItems(text.edges), CanonicalItems(other.edges))
             /\ Identified(other.nodes) => Identified(text.nodes)
             /\ Identified(other.edges) => Identified(text.edges)
             /\ ClaimsOf(text.nodes) \subseteq ClaimsOf(other.nodes) \cup {"none"}
  <2>1. ASSUME other \in Texts
        PROVE  /\ Accepted(other, TRUE) <=>
                    /\ other.strict /\ Identified(other.nodes) /\ Identified(other.edges)
                    /\ ClaimsOf(other.nodes) \subseteq {"none", "consistent"}
               /\ Accepted(text, TRUE) <=>
                    /\ text.strict /\ Identified(text.nodes) /\ Identified(text.edges)
                    /\ ClaimsOf(text.nodes) \subseteq {"none", "consistent"}
    BY <2>1, TextShape
  <2> QED  BY <2>1 DEF Below
<1>3. CASE other = [text EXCEPT !.strict = FALSE]
  <2>1. other \in Texts /\ other.strict = FALSE /\ other.nodes = text.nodes
        /\ other.edges = text.edges /\ other.generated = text.generated
    BY <1>3 DEF Texts
  <2> QED  BY <1>2, <2>1
<1>4. CASE \E items \in MoreItems(text.nodes) : other = [text EXCEPT !.nodes = items]
  <2>1. PICK items \in MoreItems(text.nodes) : other = [text EXCEPT !.nodes = items]
    BY <1>4
  <2>2. /\ items \in Seq(Items)
        /\ ItemsBelow(CanonicalItems(text.nodes), CanonicalItems(items))
        /\ Identified(items) => Identified(text.nodes)
        /\ ClaimsOf(text.nodes) \subseteq ClaimsOf(items)
    BY <1>1, MoreItemsAreAbove
  <2>3. other \in Texts /\ other.strict = text.strict /\ other.nodes = items
        /\ other.edges = text.edges /\ other.generated = text.generated
    BY <2>1, <2>2 DEF Texts
  <2> QED  BY <1>2, <2>2, <2>3
<1>5. CASE \E items \in MoreItems(text.edges) : other = [text EXCEPT !.edges = items]
  <2>1. PICK items \in MoreItems(text.edges) : other = [text EXCEPT !.edges = items]
    BY <1>5
  <2>2. /\ items \in Seq(Items)
        /\ ItemsBelow(CanonicalItems(text.edges), CanonicalItems(items))
        /\ Identified(items) => Identified(text.edges)
    BY <1>1, MoreItemsAreAbove
  <2>3. other \in Texts /\ other.strict = text.strict /\ other.edges = items
        /\ other.nodes = text.nodes /\ other.generated = text.generated
    BY <2>1, <2>2 DEF Texts
  <2> QED  BY <1>2, <2>2, <2>3
<1>6. CASE \E i \in DOMAIN text.nodes, claims \in {"consistent", "inconsistent"} :
             /\ text.nodes[i].claims = "none"
             /\ other = [text EXCEPT !.nodes[i].claims = claims]
  <2>1. PICK i \in DOMAIN text.nodes, claims \in {"consistent", "inconsistent"} :
          /\ text.nodes[i].claims = "none"
          /\ other = [text EXCEPT !.nodes[i].claims = claims]
    BY <1>6
  <2> DEFINE nodes == text.nodes
             item == [nodes[i] EXCEPT !.claims = claims]
             items == [nodes EXCEPT ![i] = item]
  <2>2. nodes[i] \in Items /\ nodes[i].claims = "none" /\ nodes \in Seq(Items)
    BY <1>1, <2>1
  <2>3. /\ item \in Items /\ item.id = nodes[i].id /\ item.count = nodes[i].count
        /\ item.seen = nodes[i].seen /\ item.sources = nodes[i].sources
    BY <2>2 DEF Items
  <2>4. ItemBelow(CanonicalItem(nodes[i]), CanonicalItem(item))
    <3>1. /\ CanonicalItem(item).id = CanonicalItem(nodes[i]).id
          /\ CanonicalItem(item).count = CanonicalItem(nodes[i]).count
          /\ CanonicalItem(item).seen = CanonicalItem(nodes[i]).seen
          /\ CanonicalItem(item).sources = CanonicalItem(nodes[i]).sources
      BY <2>3 DEF CanonicalItem, SourcesOf
    <3>2. CanonicalItem(nodes[i]).claims = "none"  BY <2>2, ItemShape
    <3>3. CanonicalItem(nodes[i]) \in CanonicalForms  BY <2>2, CanonicalItemForm
    <3>4. CanonicalItem(nodes[i]).count \in Int /\ CanonicalItem(nodes[i]).seen \in Int
      BY <3>3 DEF CanonicalForms
    <3> QED  BY <3>1, <3>2, <3>4 DEF ItemBelow
  <2>5. \A k \in DOMAIN nodes : ItemBelow(CanonicalItem(nodes[k]), CanonicalItem(nodes[k]))
    <3>1. \A k \in DOMAIN nodes : nodes[k] \in Items  BY <2>2
    <3> QED  BY <3>1, CanonicalItemForm, ItemBelowIsOrder
  <2>6. other = [text EXCEPT !.nodes = items]  BY <2>1
  <2> HIDE DEF item, nodes
  <2>7. /\ items \in Seq(Items) /\ DOMAIN items = DOMAIN nodes /\ items[i] = item
        /\ \A k \in DOMAIN nodes \ {i} : items[k] = nodes[k]
    BY <2>1, <2>2, <2>3 DEF nodes
  <2> HIDE DEF items
  <2>8. \A k \in DOMAIN nodes :
          /\ k \in DOMAIN items /\ items[k].id = nodes[k].id
          /\ items[k].claims = nodes[k].claims \/ nodes[k].claims = "none"
          /\ ItemBelow(CanonicalItem(nodes[k]), CanonicalItem(items[k]))
    BY <2>2, <2>3, <2>4, <2>5, <2>7
  <2>9. /\ ItemsBelow(CanonicalItems(nodes), CanonicalItems(items))
        /\ Identified(items) => Identified(nodes)
    BY <2>2, <2>7, <2>8, ListIsBelow
  <2>10. ClaimsOf(nodes) \subseteq ClaimsOf(items) \cup {"none"}
    BY <2>8 DEF ClaimsOf
  <2>11. other \in Texts /\ other.strict = text.strict /\ other.nodes = items
         /\ other.edges = text.edges /\ other.generated = text.generated
    BY <2>6, <2>7 DEF Texts
  <2> QED  BY <1>2, <2>9, <2>10, <2>11 DEF nodes
<1> QED  BY <1>3, <1>4, <1>5, <1>6 DEF Amended

LEMMA ReformattedIsText ==
  ASSUME NEW text \in Texts, NEW other \in Reformatted(text)
  PROVE  other \in Texts
<1>1. text.nodes \in Seq(Items) /\ text.edges \in Seq(Items) /\ text.generated \in Stamps
  BY DEF Texts
<1>2. \A hours \in Offsets : Moved(text.generated, hours) \in Stamps
  BY <1>1, ArtifactsAssumption DEF Moved, Stamps
<1>3. CASE \E layout \in Layouts : other = [text EXCEPT !.layout = layout]
  BY <1>3 DEF Texts
<1>4. CASE \E hours \in Offsets :
             other = [text EXCEPT !.generated = Moved(text.generated, hours)]
  BY <1>2, <1>4 DEF Texts
<1>5. CASE \E items \in SameItems(text.nodes) : other = [text EXCEPT !.nodes = items]
  <2>1. SameItems(text.nodes) \subseteq Seq(Items)  BY <1>1, SameItemsAreSame
  <2> QED  BY <1>5, <2>1 DEF Texts
<1>6. CASE \E items \in SameItems(text.edges) : other = [text EXCEPT !.edges = items]
  <2>1. SameItems(text.edges) \subseteq Seq(Items)  BY <1>1, SameItemsAreSame
  <2> QED  BY <1>6, <2>1 DEF Texts
<1> QED  BY <1>3, <1>4, <1>5, <1>6 DEF Reformatted

-----------------------------------------------------------------------------
\* What is on record stays on record.
LEMMA RecordedStays ==
  ASSUME NEW content, Recorded(content, signed, meaning),
         signed \subseteq signed', DOMAIN meaning \subseteq DOMAIN meaning'
  PROVE  Recorded(content, signed', meaning')
BY DEF Recorded, Known

LEMMA AlikeIsEquivalence ==
  ASSUME NEW t, NEW u, NEW v
  PROVE  /\ Alike(t, t)
         /\ Alike(t, u) => Alike(u, t)
         /\ Alike(t, u) /\ Alike(u, v) => Alike(t, v)
BY DEF Alike

\* A step that writes no graph.
LEMMA NoGraphStep ==
  ASSUME LatestInFile, ScansAreNew, meaning' = meaning,
         \A path \in Paths : file'[path] = file[path] \/ file'[path].kind # "graph",
         \A p \in Scans : pc[p] = "done" => pc'[p] = "done"
  PROVE  LatestInFile' /\ ScansAreNew'
<1>1. \A path \in Paths : HasGraph(path)' => HasGraph(path) /\ file'[path] = file[path]
  BY DEF HasGraph
<1>2. LatestInFile'  BY <1>1 DEF LatestInFile
<1>3. ScansAreNew'  BY <1>1 DEF ScansAreNew
<1> QED  BY <1>2, <1>3

\* A scan writes its graph.
LEMMA ScanStep ==
  ASSUME LatestInFile, ScansAreNew, MeaningShape, meaning' = meaning,
         NEW p \in Scans, pc[p] # "done", pc'[p] = "done",
         \A q \in Processes \ {p} : pc'[q] = pc[q],
         NEW path \in Paths, file'[path] = GraphFile(Commands[p].text),
         \A other \in Paths \ {path} : file'[other] = file[other]
  PROVE  LatestInFile' /\ ScansAreNew'
<1> DEFINE text == Commands[p].text
<1>1. /\ text \in DOMAIN meaning
      /\ \A other \in Paths : HasGraph(other) => ~OneTime(file[other].text, text)
      /\ \A t \in DOMAIN meaning : OneTime(t, text) => t = text
  BY DEF ScansAreNew
<1>2. HasGraph(path)' /\ file'[path].text = text  BY DEF HasGraph, GraphFile
<1>3. \A other \in Paths \ {path} : HasGraph(other)' <=> HasGraph(other)
  BY DEF HasGraph
<1>4. \A t, u : OneTime(t, u) <=> OneTime(u, t)  BY DEF OneTime
<1>5. text \in Texts /\ Below(text, text)
  BY <1>1, BelowIsOrder DEF MeaningShape
<1> HIDE DEF text
<1>6. LatestInFile'
  <2> SUFFICES ASSUME NEW g \in Paths, HasGraph(g)'
               PROVE  /\ file'[g].text \in DOMAIN meaning
                      /\ \A other \in Paths :
                           HasGraph(other)' /\ OneTime(file'[g].text, file'[other].text)
                             => other = g
                      /\ \A t \in DOMAIN meaning :
                           /\ OneTime(t, file'[g].text)
                           /\ Accepted(t, TRUE) /\ Accepted(file'[g].text, TRUE)
                           => Below(t, file'[g].text)
    BY DEF LatestInFile
  <2>1. CASE g = path
    BY <1>1, <1>2, <1>3, <1>4, <1>5, <2>1
  <2>2. CASE g # path
    BY <1>1, <1>2, <1>3, <1>4, <2>2 DEF LatestInFile
  <2> QED  BY <2>1, <2>2
<1>7. ScansAreNew'
  <2> SUFFICES ASSUME NEW q \in Scans
               PROVE  /\ Commands[q].text \in DOMAIN meaning
                      /\ pc'[q] # "done" =>
                           /\ \A g \in Paths :
                                HasGraph(g)' => ~OneTime(file'[g].text, Commands[q].text)
                           /\ \A t \in DOMAIN meaning :
                                OneTime(t, Commands[q].text) => t = Commands[q].text
    BY DEF ScansAreNew
  <2>1. CASE q = p  BY <2>1 DEF ScansAreNew
  <2>2. CASE q # p
    <3>1. ~OneTime(text, Commands[q].text)
      BY <2>2, StoredAssumption DEF text
    <3>2. pc'[q] = pc[q]  BY <2>2 DEF Scans
    <3> QED  BY <1>2, <1>3, <3>1, <3>2 DEF ScansAreNew
  <2> QED  BY <2>1, <2>2
<1> QED  BY <1>6, <1>7

Edited(path, text, sense) ==
  /\ MeaningShape' /\ ScansAreNew'
  /\ DOMAIN meaning' = DOMAIN meaning \cup {text}
  /\ meaning'[text] = sense
  /\ \A t \in DOMAIN meaning \ {text} : meaning'[t] = meaning[t]
  /\ sense = [meaning[file[path].text] EXCEPT !.change = edits] => sense = Sense(text, edits)
  /\ edits \in Nat /\ edits > 0 /\ pc' = pc /\ held' = held /\ signed' = signed
  /\ file'[path] = GraphFile(text)
  /\ \A other \in Paths \ {path} : file'[other] = file[other]

\* Somebody gives a graph another text.
LEMMA EditShape ==
  ASSUME VerdictInv, NEW path \in Paths, HasGraph(path),
         NEW text \in Texts, OneTime(text, file[path].text),
         NEW sense, Edit(path, text, sense),
         \/ sense = meaning[file[path].text]
         \/ sense = [meaning[file[path].text] EXCEPT !.change = edits]
  PROVE  Edited(path, text, sense)
<1> DEFINE old == file[path].text
<1>1. /\ edits > 0 /\ edits' = edits - 1 /\ pc' = pc /\ held' = held /\ signed' = signed
      /\ file' = [file EXCEPT ![path] = GraphFile(text)]
      /\ meaning' = [t \in DOMAIN meaning \cup {text} |->
                       IF t = text THEN sense ELSE meaning[t]]
  BY DEF Edit
<1>2. /\ DOMAIN meaning' = DOMAIN meaning \cup {text}
      /\ meaning'[text] = sense
      /\ \A t \in DOMAIN meaning \ {text} : meaning'[t] = meaning[t]
  BY <1>1
<1>3. DOMAIN file = Paths  BY DEF VerdictInv, KeyInv
<1>4. file'[path] = GraphFile(text) /\ \A other \in Paths \ {path} : file'[other] = file[other]
  BY <1>1, <1>3
<1>5. /\ edits \in Nat /\ DOMAIN meaning \subseteq Texts
      /\ \A t \in DOMAIN meaning :
           /\ meaning[t] = Sense(t, meaning[t].change) /\ meaning[t].change \in Nat
           /\ meaning[t].change = 0 \/ meaning[t].change > edits
  BY DEF VerdictInv, MeaningShape
<1>6. old \in DOMAIN meaning  BY DEF VerdictInv, LatestInFile
<1>7. Sense(old, meaning[old].change) = Sense(text, meaning[old].change)
  BY DEF Sense, OneTime
<1>8. sense = [meaning[old] EXCEPT !.change = edits] => sense = Sense(text, edits)
  BY <1>5, <1>6 DEF Sense, OneTime
<1>9. /\ sense = Sense(text, sense.change) /\ sense.change \in Nat
      /\ sense.change = 0 \/ sense.change > edits'
  <2>1. CASE sense = meaning[old]  BY <1>1, <1>5, <1>6, <1>7, <2>1
  <2>2. CASE sense = Sense(text, edits)  BY <1>1, <1>5, <2>2 DEF Sense
  <2> QED  BY <1>8, <2>1, <2>2
<1> HIDE DEF old
<1>10. MeaningShape'
  <2>1. edits' \in Nat /\ edits' < edits  BY <1>1, <1>5
  <2>2. \A t \in DOMAIN meaning' :
          /\ meaning'[t] = Sense(t, meaning'[t].change) /\ meaning'[t].change \in Nat
          /\ meaning'[t].change = 0 \/ meaning'[t].change > edits'
    <3> SUFFICES ASSUME NEW t \in DOMAIN meaning'
                 PROVE  /\ meaning'[t] = Sense(t, meaning'[t].change)
                        /\ meaning'[t].change \in Nat
                        /\ meaning'[t].change = 0 \/ meaning'[t].change > edits'
      OBVIOUS
    <3>1. CASE t = text  BY <1>2, <1>9, <3>1
    <3>2. CASE t # text
      <4>1. t \in DOMAIN meaning /\ meaning'[t] = meaning[t]  BY <1>2, <3>2
      <4> QED  BY <1>5, <2>1, <4>1
    <3> QED  BY <3>1, <3>2
  <2> QED  BY <1>2, <1>5, <2>1, <2>2 DEF MeaningShape, Sense
<1>11. ScansAreNew'
  <2>1. \A g \in Paths : HasGraph(g)' => HasGraph(g) /\ (g # path => file'[g] = file[g])
    BY <1>4 DEF HasGraph
  <2>2. file'[path].text = text  BY <1>4 DEF GraphFile
  <2>3. \A t : OneTime(text, t) <=> OneTime(old, t)  BY DEF OneTime, old
  <2>4. ScansAreNew  BY DEF VerdictInv
  <2> SUFFICES ASSUME NEW q \in Scans
               PROVE  /\ Commands[q].text \in DOMAIN meaning'
                      /\ pc'[q] # "done" =>
                           /\ \A g \in Paths :
                                HasGraph(g)' => ~OneTime(file'[g].text, Commands[q].text)
                           /\ \A t \in DOMAIN meaning' :
                                OneTime(t, Commands[q].text) => t = Commands[q].text
    BY DEF ScansAreNew
  <2>5. pc[q] # "done" => ~OneTime(old, Commands[q].text)
    BY <2>4 DEF ScansAreNew, old
  <2> QED  BY <1>1, <1>2, <2>1, <2>2, <2>3, <2>4, <2>5 DEF ScansAreNew
<1> QED  BY <1>1, <1>2, <1>4, <1>5, <1>8, <1>10, <1>11 DEF old, Edited

LEMMA ReformatVerdict ==
  ASSUME VerdictInv, NEW path \in Paths, Reformat(path)
  PROVE  MeaningShape' /\ MeaningIsForm' /\ LatestInFile' /\ ScansAreNew'
<1> DEFINE old == file[path].text
<1>0. HasGraph(path) /\ old \in DOMAIN meaning /\ old \in Texts
  BY DEF VerdictInv, LatestInFile, MeaningShape, Reformat, HasGraph
<1>1. PICK text \in Reformatted(old) \ {old} : Edit(path, text, meaning[old])
  BY DEF Reformat
<1>2. Alike(text, old)  BY <1>0, <1>1, ReformattingKeepsIdentity DEF Alike
<1>3. OneTime(text, old)  BY <1>2, SameForm DEF Alike
<1>4. text \in Texts  BY <1>0, <1>1, ReformattedIsText
<1>5. /\ MeaningShape' /\ ScansAreNew'
      /\ DOMAIN meaning' = DOMAIN meaning \cup {text}
      /\ meaning'[text] = meaning[old]
      /\ \A t \in DOMAIN meaning \ {text} : meaning'[t] = meaning[t]
      /\ file'[path] = GraphFile(text)
      /\ \A other \in Paths \ {path} : file'[other] = file[other]
  <2>1. Edited(path, text, meaning[old])  BY <1>0, <1>1, <1>3, <1>4, EditShape
  <2> QED  BY <2>1 DEF Edited
<1> DEFINE Was(t) == IF t = text THEN old ELSE t
<1>6. \A t \in DOMAIN meaning' :
        /\ Was(t) \in DOMAIN meaning /\ meaning'[t] = meaning[Was(t)]
        /\ Alike(t, Was(t)) /\ Alike(Was(t), t)
  BY <1>0, <1>1, <1>2, <1>5, AlikeIsEquivalence
<1>7. \A t, u : Alike(t, u) =>
        /\ Canonical(t) = Canonical(u) /\ (Accepted(t, TRUE) <=> Accepted(u, TRUE))
        /\ OneTime(t, u) /\ OneTime(u, t)
  BY SameForm DEF Alike, OneTime
<1> HIDE DEF Was
<1>8. MeaningIsForm'
  <2> SUFFICES ASSUME NEW t \in DOMAIN meaning', NEW u \in DOMAIN meaning'
               PROVE  /\ meaning'[t] = meaning'[u] => Alike(t, u)
                      /\ Accepted(t, TRUE) /\ Accepted(u, TRUE)
                           /\ Canonical(t) = Canonical(u) => meaning'[t] = meaning'[u]
    BY DEF MeaningIsForm, Alike
  <2>1. /\ meaning[Was(t)] = meaning[Was(u)] => Alike(Was(t), Was(u))
        /\ Accepted(Was(t), TRUE) /\ Accepted(Was(u), TRUE)
             /\ Canonical(Was(t)) = Canonical(Was(u)) => meaning[Was(t)] = meaning[Was(u)]
    BY <1>6 DEF VerdictInv, MeaningIsForm
  <2>2. meaning'[t] = meaning'[u] => Alike(t, u)
    <3>1. \A a, b, c : Alike(a, b) /\ Alike(b, c) => Alike(a, c)
      BY AlikeIsEquivalence
    <3> QED  BY <1>6, <2>1, <3>1
  <2> QED  BY <1>6, <1>7, <2>1, <2>2
<1>9. LatestInFile'
  <2>1. \A g \in Paths : HasGraph(g)' => HasGraph(g) /\ (g # path => file'[g] = file[g])
    BY <1>0, <1>5 DEF HasGraph
  <2>2. file'[path].text = text  BY <1>5 DEF GraphFile
  <2>3. \A a, b, c : OneTime(a, b) /\ OneTime(b, c) => OneTime(a, c)  BY DEF OneTime
  <2>3a. \A a, b : OneTime(a, b) => OneTime(b, a)  BY DEF OneTime
  <2>4. \A a, b, c \in Texts :
          /\ Canonical(a) = Canonical(b) => Below(a, b)
          /\ Below(a, b) /\ Below(b, c) => Below(a, c)
    BY BelowIsOrder
  <2>5. DOMAIN meaning \subseteq Texts  BY DEF VerdictInv, MeaningShape
  <2> SUFFICES ASSUME NEW g \in Paths, HasGraph(g)'
               PROVE  /\ file'[g].text \in DOMAIN meaning'
                      /\ \A other \in Paths :
                           HasGraph(other)' /\ OneTime(file'[g].text, file'[other].text)
                             => other = g
                      /\ \A t \in DOMAIN meaning' :
                           /\ OneTime(t, file'[g].text)
                           /\ Accepted(t, TRUE) /\ Accepted(file'[g].text, TRUE)
                           => Below(t, file'[g].text)
    BY DEF LatestInFile, Below
  <2>6. /\ HasGraph(g) /\ file[g].text \in DOMAIN meaning
        /\ \A other \in Paths :
             HasGraph(other) /\ OneTime(file[g].text, file[other].text) => other = g
        /\ \A t \in DOMAIN meaning :
             /\ OneTime(t, file[g].text) /\ Accepted(t, TRUE) /\ Accepted(file[g].text, TRUE)
             => Below(t, file[g].text)
    BY <2>1 DEF VerdictInv, LatestInFile
  <2>7. \A h \in Paths : HasGraph(h)' => Alike(file'[h].text, file[h].text)
    BY <1>2, <2>1, <2>2, AlikeIsEquivalence DEF old
  <2>8. file'[g].text \in DOMAIN meaning'
    BY <1>5, <2>1, <2>2, <2>6
  <2>9. ASSUME NEW other \in Paths, HasGraph(other)',
               OneTime(file'[g].text, file'[other].text)
        PROVE  other = g
    <3>1. OneTime(file[g].text, file'[g].text)  BY <1>7, <2>7
    <3>2. OneTime(file'[other].text, file[other].text)  BY <1>7, <2>7, <2>9
    <3>3. OneTime(file[g].text, file[other].text)
      BY <2>3, <2>9, <3>1, <3>2
    <3> QED  BY <2>1, <2>6, <2>9, <3>3
  <2>10. ASSUME NEW t \in DOMAIN meaning', OneTime(t, file'[g].text),
                Accepted(t, TRUE), Accepted(file'[g].text, TRUE)
         PROVE  Below(t, file'[g].text)
    <3> DEFINE now == file'[g].text
               before == file[g].text
    <3>1. Alike(now, before) /\ Alike(t, Was(t)) /\ Was(t) \in DOMAIN meaning
      BY <1>6, <2>7
    <3>2. OneTime(now, before) /\ OneTime(Was(t), t)  BY <1>7, <3>1
    <3>3. OneTime(Was(t), before)  BY <2>3, <2>10, <3>2
    <3>4. Accepted(Was(t), TRUE) /\ Accepted(before, TRUE)  BY <1>7, <2>10, <3>1
    <3>5. Below(Was(t), before)  BY <2>6, <3>1, <3>3, <3>4
    <3>6. Canonical(t) = Canonical(Was(t)) /\ Canonical(before) = Canonical(now)
      BY <1>7, <3>1
    <3>7. t \in Texts /\ Was(t) \in Texts /\ before \in Texts /\ now \in Texts
      BY <1>4, <1>5, <2>5, <2>6, <2>8, <3>1
    <3> HIDE DEF now, before
    <3>8. Below(t, Was(t)) /\ Below(before, now)  BY <2>4, <3>6, <3>7
    <3>9. Below(t, before)  BY <2>4, <3>5, <3>7, <3>8
    <3>10. Below(t, now)  BY <2>4, <3>7, <3>8, <3>9
    <3> QED  BY <3>10 DEF now
  <2> QED  BY <2>8, <2>9, <2>10
<1> QED  BY <1>5, <1>8, <1>9

LEMMA AmendVerdict ==
  ASSUME VerdictInv, NEW path \in Paths, Amend(path)
  PROVE  MeaningShape' /\ MeaningIsForm' /\ LatestInFile' /\ ScansAreNew'
<1> DEFINE old == file[path].text
<1>0. HasGraph(path) /\ old \in DOMAIN meaning /\ old \in Texts
  BY DEF VerdictInv, LatestInFile, MeaningShape, Amend, HasGraph
<1>1. PICK text \in Amended(old) \ {old} :
        Edit(path, text, [meaning[old] EXCEPT !.change = edits])
  BY DEF Amend
<1>2. /\ text \in Texts /\ text.generated = old.generated /\ Below(old, text)
      /\ Accepted(text, TRUE) => Accepted(old, TRUE)
  BY <1>0, <1>1, AmendedIsAbove
<1>3. OneTime(text, old) /\ OneTime(old, text)  BY <1>2 DEF OneTime
<1>4. Accepted(text, TRUE) => Canonical(text) # Canonical(old)
  BY <1>0, <1>1, <1>2, AmendingChangesIdentity
<1>5. /\ MeaningShape' /\ ScansAreNew'
      /\ DOMAIN meaning' = DOMAIN meaning \cup {text}
      /\ meaning'[text] = Sense(text, edits)
      /\ \A t \in DOMAIN meaning \ {text} : meaning'[t] = meaning[t]
      /\ edits \in Nat /\ edits > 0
      /\ file'[path] = GraphFile(text)
      /\ \A other \in Paths \ {path} : file'[other] = file[other]
  <2>1. Edited(path, text, [meaning[old] EXCEPT !.change = edits])
    BY <1>0, <1>1, <1>2, <1>3, EditShape
  <2> QED  BY <2>1 DEF Edited
<1>6. DOMAIN meaning \subseteq Texts  BY DEF VerdictInv, MeaningShape
<1>7. \A a, b, c : OneTime(a, b) /\ OneTime(b, c) => OneTime(a, c)  BY DEF OneTime
<1>8. \A a, b : OneTime(a, b) => OneTime(b, a)  BY DEF OneTime
<1>9. \A a, b : Canonical(a) = Canonical(b) => OneTime(a, b)  BY SameForm
<1>10. \A t \in DOMAIN meaning :
         OneTime(t, old) /\ Accepted(t, TRUE) /\ Accepted(old, TRUE) => Below(t, old)
  BY <1>0 DEF VerdictInv, LatestInFile
<1>11. \A a, b, c \in Texts :
         /\ Canonical(a) = Canonical(b) => Below(a, b)
         /\ Below(a, b) /\ Below(b, c) => Below(a, c)
         /\ Below(a, b) /\ Below(b, a) /\ OneTime(a, b)
              /\ Accepted(a, TRUE) /\ Accepted(b, TRUE) => Canonical(a) = Canonical(b)
  BY BelowIsOrder
<1> HIDE DEF old
<1>12. ASSUME NEW t \in DOMAIN meaning, Accepted(t, TRUE), Accepted(text, TRUE)
       PROVE  Canonical(t) # Canonical(text)
  <2> SUFFICES ASSUME Canonical(t) = Canonical(text) PROVE FALSE  OBVIOUS
  <2>1. t \in Texts  BY <1>6
  <2>2. OneTime(t, old)  BY <1>3, <1>7, <1>9
  <2>3. Below(t, old)  BY <1>2, <1>10, <1>12, <2>2
  <2>4. Below(text, t)  BY <1>2, <1>11, <2>1
  <2>5. Below(text, old)  BY <1>0, <1>2, <1>11, <2>1, <2>3, <2>4
  <2>6. Canonical(text) = Canonical(old)  BY <1>0, <1>2, <1>3, <1>11, <1>12, <2>5
  <2> QED  BY <1>4, <1>12, <2>6
<1>13. \A t \in DOMAIN meaning \ {text} : meaning'[t] # meaning'[text]
  <2> SUFFICES ASSUME NEW t \in DOMAIN meaning \ {text} PROVE meaning'[t] # meaning'[text]
    OBVIOUS
  <2>1. meaning[t].change = 0 \/ meaning[t].change > edits
    BY DEF VerdictInv, MeaningShape
  <2>2. meaning'[text].change = edits  BY <1>5 DEF Sense
  <2>3. meaning'[t] = meaning[t]  BY <1>5
  <2> QED  BY <1>5, <2>1, <2>2, <2>3
<1>14. MeaningIsForm'
  <2> SUFFICES ASSUME NEW t \in DOMAIN meaning', NEW u \in DOMAIN meaning'
               PROVE  /\ meaning'[t] = meaning'[u] => Alike(t, u)
                      /\ Accepted(t, TRUE) /\ Accepted(u, TRUE)
                           /\ Canonical(t) = Canonical(u) => meaning'[t] = meaning'[u]
    BY DEF MeaningIsForm, Alike
  <2>1. CASE t = text /\ u = text  BY <2>1, AlikeIsEquivalence
  <2>2. CASE t = text /\ u # text
    <3>1. u \in DOMAIN meaning \ {text}  BY <1>5, <2>2
    <3> QED  BY <1>12, <1>13, <2>2, <3>1
  <2>3. CASE t # text /\ u = text
    <3>1. t \in DOMAIN meaning \ {text}  BY <1>5, <2>3
    <3> QED  BY <1>12, <1>13, <2>3, <3>1
  <2>4. CASE t # text /\ u # text
    <3>1. t \in DOMAIN meaning \ {text} /\ u \in DOMAIN meaning \ {text}  BY <1>5, <2>4
    <3>2. meaning'[t] = meaning[t] /\ meaning'[u] = meaning[u]  BY <1>5, <3>1
    <3> QED  BY <3>1, <3>2 DEF VerdictInv, MeaningIsForm
  <2> QED  BY <2>1, <2>2, <2>3, <2>4
<1>15. LatestInFile'
  <2>1. \A g \in Paths : HasGraph(g)' => HasGraph(g) /\ (g # path => file'[g] = file[g])
    BY <1>0, <1>5 DEF HasGraph
  <2>2. file'[path].text = text  BY <1>5 DEF GraphFile
  <2> SUFFICES ASSUME NEW g \in Paths, HasGraph(g)'
               PROVE  /\ file'[g].text \in DOMAIN meaning'
                      /\ \A other \in Paths :
                           HasGraph(other)' /\ OneTime(file'[g].text, file'[other].text)
                             => other = g
                      /\ \A t \in DOMAIN meaning' :
                           /\ OneTime(t, file'[g].text)
                           /\ Accepted(t, TRUE) /\ Accepted(file'[g].text, TRUE)
                           => Below(t, file'[g].text)
    BY DEF LatestInFile, Below
  <2>3. /\ HasGraph(g) /\ file[g].text \in DOMAIN meaning
        /\ \A other \in Paths :
             HasGraph(other) /\ OneTime(file[g].text, file[other].text) => other = g
        /\ \A t \in DOMAIN meaning :
             /\ OneTime(t, file[g].text) /\ Accepted(t, TRUE) /\ Accepted(file[g].text, TRUE)
             => Below(t, file[g].text)
    BY <2>1 DEF VerdictInv, LatestInFile
  <2>4. \A h \in Paths :
          HasGraph(h)' => /\ OneTime(file'[h].text, file[h].text)
                          /\ OneTime(file[h].text, file'[h].text)
    BY <1>3, <2>1, <2>2 DEF OneTime, old
  <2>5. file'[g].text \in DOMAIN meaning'
    BY <1>5, <2>1, <2>2, <2>3
  <2>6. ASSUME NEW other \in Paths, HasGraph(other)',
               OneTime(file'[g].text, file'[other].text)
        PROVE  other = g
    <3>1. OneTime(file[g].text, file[other].text)  BY <1>7, <2>4, <2>6
    <3> QED  BY <2>1, <2>3, <2>6, <3>1
  <2>7. ASSUME NEW t \in DOMAIN meaning', OneTime(t, file'[g].text),
               Accepted(t, TRUE), Accepted(file'[g].text, TRUE)
        PROVE  Below(t, file'[g].text)
    <3>1. CASE g = path /\ t = text
      BY <1>2, <1>11, <2>2, <3>1
    <3>2. CASE g = path /\ t # text
      <4>1. t \in DOMAIN meaning /\ t \in Texts  BY <1>5, <1>6, <3>2
      <4>2. OneTime(t, text) /\ Accepted(text, TRUE)  BY <2>2, <2>7, <3>2
      <4>3. OneTime(t, old)  BY <1>3, <1>7, <4>2
      <4>4. Below(t, old)  BY <1>2, <1>10, <2>7, <4>1, <4>2, <4>3
      <4>5. Below(t, text)  BY <1>0, <1>2, <1>11, <4>1, <4>4
      <4> QED  BY <2>2, <3>2, <4>5
    <3>3. CASE g # path
      <4>1. file'[g] = file[g]  BY <2>1, <3>3
      <4>2. t # text
        <5>1. SUFFICES ASSUME t = text PROVE FALSE  OBVIOUS
        <5>2. OneTime(old, file[g].text)  BY <1>3, <1>7, <2>7, <4>1, <5>1
        <5>3. OneTime(file[g].text, file[path].text)  BY <1>8, <5>2 DEF old
        <5> QED  BY <1>0, <2>3, <3>3, <5>3
      <4>3. t \in DOMAIN meaning  BY <1>5, <4>2
      <4> QED  BY <2>3, <2>7, <4>1, <4>3
    <3> QED  BY <3>1, <3>2, <3>3
  <2> QED  BY <2>5, <2>6, <2>7
<1> QED  BY <1>5, <1>14, <1>15

-----------------------------------------------------------------------------
\* What is left to show for RecordInv of a step that is one process's.
LEMMA RecordStep ==
  ASSUME RecordInv, KeyInv, NEW p \in Processes,
         signed \subseteq signed', DOMAIN meaning \subseteq DOMAIN meaning',
         \A path \in Paths :
           file'[path] = file[path] \/ Recorded(file'[path], signed', meaning'),
         \A s \in signed' \ signed : Made(s) /\ Recorded(s.content, signed', meaning'),
         DOMAIN held' = Processes,
         \A q \in Processes \ {p} : held'[q] = held[q] /\ pc'[q] = pc[q],
         ProcessRecord(p)'
  PROVE  RecordInv'
<1>1. \A content : Recorded(content, signed, meaning) => Recorded(content, signed', meaning')
  BY RecordedStays
<1>2. \A path \in Paths : Recorded(file[path], signed', meaning')
  BY <1>1 DEF RecordInv
<1>3. \A s \in signed' : Made(s) /\ Recorded(s.content, signed', meaning')
  BY <1>1 DEF RecordInv
<1>4. ASSUME NEW q \in Processes \ {p}  PROVE ProcessRecord(q)'
  <2>1. ProcessRecord(q)  BY DEF RecordInv
  <2>2. held'[q] = held[q] /\ pc'[q] = pc[q]  OBVIOUS
  <2>3. Signature(q)' = Signature(q)  BY <2>2 DEF Signature, EnvelopeOf
  <2>4. /\ Recorded(held'[q].payload, signed', meaning')
        /\ Recorded(held'[q].key, signed', meaning')
    BY <1>1, <2>1, <2>2 DEF ProcessRecord
  <2> QED  BY <2>1, <2>2, <2>3, <2>4 DEF ProcessRecord
<1> QED  BY <1>2, <1>3, <1>4 DEF RecordInv

\* Of a process that has read no more, and is neither at writing nor at a verdict.
LEMMA QuietProcess ==
  ASSUME RecordInv, NEW p \in Processes, held'[p] = held[p],
         signed \subseteq signed', DOMAIN meaning \subseteq DOMAIN meaning',
         pc'[p] \notin {"writing", "valid", "refused"}
  PROVE  ProcessRecord(p)'
<1>1. ProcessRecord(p)  BY DEF RecordInv
<1>2. /\ Recorded(held'[p].payload, signed', meaning')
      /\ Recorded(held'[p].key, signed', meaning')
  BY <1>1, RecordedStays DEF ProcessRecord
<1> QED  BY <1>1, <1>2 DEF ProcessRecord

LEMMA PlainContents ==
  ASSUME NEW p \in Pairs
  PROVE  /\ Recorded(Truncated(p), signed, meaning) /\ Recorded(Garbled(p), signed, meaning)
         /\ Recorded(PrivateKey(p), signed, meaning) /\ Recorded(PublicKey(p), signed, meaning)
         /\ Recorded(NoFile, signed, meaning)
         /\ Truncated(p).kind # "graph" /\ Garbled(p).kind # "graph"
         /\ PrivateKey(p).kind # "graph" /\ PublicKey(p).kind # "graph"
BY DEF Recorded, Known, Truncated, Garbled, PrivateKey, PublicKey, NoFile

\* Nothing of the graphs, their meaning or the record changes but one file, and a
\* process that has read no more and comes to no verdict.
LEMMA OneFileVerdict ==
  ASSUME VerdictInv, NEW p \in Processes, NEW path \in Paths, NEW content, NEW to,
         file' = [file EXCEPT ![path] = content],
         Recorded(content, signed, meaning), content.kind # "graph",
         pc' = [pc EXCEPT ![p] = to], pc[p] # "done",
         to \notin {"writing", "valid", "refused"},
         UNCHANGED <<held, edits, signed, meaning>>
  PROVE  MeaningShape' /\ MeaningIsForm' /\ LatestInFile' /\ ScansAreNew' /\ RecordInv'
<1>1. DOMAIN file = Paths /\ DOMAIN pc = Processes  BY DEF VerdictInv, KeyInv
<1>2. /\ file'[path] = content /\ \A g \in Paths \ {path} : file'[g] = file[g]
      /\ pc'[p] = to /\ \A q \in Processes \ {p} : pc'[q] = pc[q]
  BY <1>1
<1>3. MeaningShape' /\ MeaningIsForm'  BY DEF VerdictInv, MeaningShape, MeaningIsForm
<1>4. LatestInFile' /\ ScansAreNew'
  <2>1. \A q \in Scans : pc[q] = "done" => pc'[q] = "done"  BY <1>2 DEF Scans
  <2>2. \A g \in Paths : file'[g] = file[g] \/ file'[g].kind # "graph"  BY <1>2
  <2> QED  BY <2>1, <2>2, NoGraphStep DEF VerdictInv
<1>5. RecordInv'
  <2>1. Recorded(content, signed', meaning')  BY DEF Recorded, Known
  <2>2. ProcessRecord(p)'  BY <1>2, QuietProcess DEF VerdictInv
  <2>3. DOMAIN held' = Processes  BY DEF VerdictInv, RecordInv
  <2>4. \A g \in Paths : file'[g] = file[g] \/ Recorded(file'[g], signed', meaning')
    BY <1>2, <2>1
  <2> QED  BY <1>2, <2>2, <2>3, <2>4, RecordStep DEF VerdictInv
<1> QED  BY <1>3, <1>4, <1>5

LEMMA KeygenVerdict ==
  ASSUME VerdictInv, NEW p \in Processes,
         CreatePrivate(p) \/ WritePrivate(p) \/ CreatePublic(p) \/ WritePublic(p)
  PROVE  MeaningShape' /\ MeaningIsForm' /\ LatestInFile' /\ ScansAreNew' /\ RecordInv'
<1>1. IsKeygen(p)
  BY DEF CreatePrivate, WritePrivate, CreatePublic, WritePublic, KeygenStep, IsKeygen
<1>2. Private(p) \in Paths /\ Public(p) \in Paths  BY <1>1, KeygenPaths
<1>3. p \in Pairs  BY ArtifactsAssumption
<1>4. \E path \in Paths, to \in {"private", "half", "public", "done"},
         content \in {Truncated(p), Garbled(p), PrivateKey(p), PublicKey(p)} :
        /\ file' = [file EXCEPT ![path] = content]
        /\ pc' = [pc EXCEPT ![p] = to] /\ pc[p] # "done"
        /\ UNCHANGED <<held, edits, signed, meaning>>
  <2>1. CASE CreatePrivate(p)
    BY <1>2, <2>1 DEF CreatePrivate, KeygenStep, Create, Private
  <2>2. CASE WritePrivate(p)
    <3>1. Written(p, Private(p), PrivateKey(p)) \subseteq {PrivateKey(p), Garbled(p)}
      BY DEF Written
    <3> QED  BY <1>2, <2>2, <3>1 DEF WritePrivate, KeygenStep, Private
  <2>3. CASE CreatePublic(p)
    BY <1>2, <2>3 DEF CreatePublic, KeygenStep, Create, Public
  <2>4. CASE WritePublic(p)
    <3>1. Written(p, Public(p), PublicKey(p)) \subseteq {PublicKey(p), Garbled(p)}
      BY DEF Written
    <3> QED  BY <1>2, <2>4, <3>1 DEF WritePublic, KeygenStep, Public
  <2> QED  BY <2>1, <2>2, <2>3, <2>4
<1>5. PICK path \in Paths, to \in {"private", "half", "public", "done"},
           content \in {Truncated(p), Garbled(p), PrivateKey(p), PublicKey(p)} :
        /\ file' = [file EXCEPT ![path] = content]
        /\ pc' = [pc EXCEPT ![p] = to] /\ pc[p] # "done"
        /\ UNCHANGED <<held, edits, signed, meaning>>
  BY <1>4
<1>6. Recorded(content, signed, meaning) /\ content.kind # "graph"  BY <1>3, PlainContents
<1>7. to \notin {"writing", "valid", "refused"}  OBVIOUS
<1> QED  BY <1>5, <1>6, <1>7, OneFileVerdict

\* No file changes: a command reads, comes to its verdict or fails.
LEMMA QuietVerdict ==
  ASSUME VerdictInv, NEW p \in Processes,
         file' = file, UNCHANGED <<edits, signed, meaning>>,
         DOMAIN held' = Processes, \A q \in Processes \ {p} : held'[q] = held[q],
         NEW to, pc' = [pc EXCEPT ![p] = to], pc[p] # "done",
         ProcessRecord(p)'
  PROVE  MeaningShape' /\ MeaningIsForm' /\ LatestInFile' /\ ScansAreNew' /\ RecordInv'
<1>1. DOMAIN pc = Processes  BY DEF VerdictInv, KeyInv
<1>2. \A q \in Processes \ {p} : pc'[q] = pc[q]  BY <1>1
<1>3. MeaningShape' /\ MeaningIsForm'  BY DEF VerdictInv, MeaningShape, MeaningIsForm
<1>4. LatestInFile' /\ ScansAreNew'
  <2>1. \A q \in Scans : pc[q] = "done" => pc'[q] = "done"  BY <1>2 DEF Scans
  <2> QED  BY <2>1, NoGraphStep DEF VerdictInv
<1>5. RecordInv'  BY <1>2, RecordStep DEF VerdictInv
<1> QED  BY <1>3, <1>4, <1>5

LEMMA ReadVerdict ==
  ASSUME VerdictInv, NEW p \in Processes,
         ReadPayload(p) \/ ReadKey(p) \/ Verify(p) \/ Fail(p)
  PROVE  MeaningShape' /\ MeaningIsForm' /\ LatestInFile' /\ ScansAreNew' /\ RecordInv'
<1>1. /\ DOMAIN pc = Processes /\ DOMAIN held = Processes
      /\ ProcessRecord(p) /\ \A path \in Paths : Recorded(file[path], signed, meaning)
  BY DEF VerdictInv, KeyInv, RecordInv
<1>2. \A content : Recorded(content, signed, meaning) /\ UNCHANGED <<signed, meaning>>
        => Recorded(content, signed', meaning')
  BY DEF Recorded, Known
<1>3. CASE ReadPayload(p)
  <2> DEFINE content == file[Commands[p].input]
  <2>1. Commands[p].input \in Paths
    BY <1>3, ArtifactsAssumption DEF ReadPayload, Is
  <2>2. /\ held' = [held EXCEPT ![p].payload = content] /\ pc' = [pc EXCEPT ![p] = "payload"]
        /\ UNCHANGED <<file, edits, signed, meaning>> /\ pc[p] # "done"
    BY <1>3 DEF ReadPayload
  <2>3. Recorded(content, signed, meaning)  BY <1>1, <2>1
  <2>4. /\ Recorded(held[p].payload, signed, meaning) /\ Recorded(held[p].key, signed, meaning)
        /\ DOMAIN held[p] = {"payload", "key", "envelope"}
    BY <1>1 DEF ProcessRecord
  <2> HIDE DEF content
  <2>5. /\ pc'[p] = "payload" /\ DOMAIN held' = Processes
        /\ held'[p] = [held[p] EXCEPT !.payload = content]
        /\ \A q \in Processes \ {p} : held'[q] = held[q]
    BY <1>1, <2>2
  <2>6. /\ Recorded(held'[p].payload, signed, meaning)
        /\ Recorded(held'[p].key, signed, meaning)
        /\ DOMAIN held'[p] = {"payload", "key", "envelope"}
    <3>0. DOMAIN held'[p] = {"payload", "key", "envelope"}  BY <2>4, <2>5
    <3>1. held'[p].payload \in {content, held[p].payload} /\ held'[p].key = held[p].key
      BY <2>5
    <3> QED  BY <2>3, <2>4, <3>0, <3>1
  <2>7. ProcessRecord(p)'  BY <1>2, <2>2, <2>5, <2>6 DEF ProcessRecord
  <2> QED  BY <2>2, <2>5, <2>7, QuietVerdict
<1>4. CASE ReadKey(p)
  <2> DEFINE content == file[Commands[p].key]
  <2>1. Commands[p].key \in Paths
    BY <1>4, ArtifactsAssumption DEF ReadKey, Is
  <2>2. /\ held' = [held EXCEPT ![p].key = content] /\ pc' = [pc EXCEPT ![p] = "key"]
        /\ UNCHANGED <<file, edits, signed, meaning>> /\ pc[p] # "done"
    BY <1>4 DEF ReadKey
  <2>3. Recorded(content, signed, meaning)  BY <1>1, <2>1
  <2>4. /\ Recorded(held[p].payload, signed, meaning) /\ Recorded(held[p].key, signed, meaning)
        /\ DOMAIN held[p] = {"payload", "key", "envelope"}
    BY <1>1 DEF ProcessRecord
  <2> HIDE DEF content
  <2>5. /\ pc'[p] = "key" /\ DOMAIN held' = Processes
        /\ held'[p] = [held[p] EXCEPT !.key = content]
        /\ \A q \in Processes \ {p} : held'[q] = held[q]
    BY <1>1, <2>2
  <2>6. /\ Recorded(held'[p].payload, signed, meaning)
        /\ Recorded(held'[p].key, signed, meaning)
        /\ DOMAIN held'[p] = {"payload", "key", "envelope"}
    <3>0. DOMAIN held'[p] = {"payload", "key", "envelope"}  BY <2>4, <2>5
    <3>1. held'[p].key \in {content, held[p].key} /\ held'[p].payload = held[p].payload
      BY <2>5
    <3> QED  BY <2>3, <2>4, <3>0, <3>1
  <2>7. ProcessRecord(p)'  BY <1>2, <2>2, <2>5, <2>6 DEF ProcessRecord
  <2> QED  BY <2>2, <2>5, <2>7, QuietVerdict
<1>5. CASE Verify(p)
  <2> DEFINE envelope == file[Commands[p].signature]
             verdict == IF Verifies(held[p].payload, envelope.envelope, held[p].key)
                        THEN "valid" ELSE "refused"
  <2>1. Commands[p].signature \in Paths /\ envelope.kind = "envelope"
    BY <1>5, ArtifactsAssumption DEF Verify, Is
  <2>2. /\ held' = [held EXCEPT ![p].envelope = envelope]
        /\ pc' = [pc EXCEPT ![p] = verdict]
        /\ UNCHANGED <<file, edits, signed, meaning>> /\ pc[p] # "done"
    BY <1>5 DEF Verify
  <2>3. \E s \in signed : s.envelope = envelope
    BY <1>1, <2>1 DEF Recorded, Known
  <2>4. /\ Recorded(held[p].payload, signed, meaning) /\ Recorded(held[p].key, signed, meaning)
        /\ DOMAIN held[p] = {"payload", "key", "envelope"}
    BY <1>1 DEF ProcessRecord
  <2>5. /\ pc'[p] = verdict /\ DOMAIN held' = Processes
        /\ held'[p] = [held[p] EXCEPT !.envelope = envelope]
        /\ \A q \in Processes \ {p} : held'[q] = held[q]
    BY <1>1, <2>2
  <2>6. verdict \in {"valid", "refused"} /\ (verdict = "valid" <=>
          Verifies(held[p].payload, envelope.envelope, held[p].key))
    OBVIOUS
  <2> HIDE DEF envelope, verdict
  <2>7. /\ held'[p].payload = held[p].payload /\ held'[p].key = held[p].key
        /\ held'[p].envelope = envelope /\ DOMAIN held'[p] = {"payload", "key", "envelope"}
    BY <2>4, <2>5
  <2>8. ProcessRecord(p)'
    BY <1>2, <2>2, <2>3, <2>4, <2>5, <2>6, <2>7 DEF ProcessRecord
  <2> QED  BY <2>2, <2>5, <2>8, QuietVerdict
<1>6. CASE Fail(p)
  <2>1. /\ held' = held /\ pc' = [pc EXCEPT ![p] = "failed"]
        /\ UNCHANGED <<file, edits, signed, meaning>> /\ pc[p] # "done"
    BY <1>6 DEF Fail, Ended
  <2>2. pc'[p] = "failed"  BY <1>1, <2>1
  <2>3. ProcessRecord(p)'
    BY <2>1, <2>2, QuietProcess DEF VerdictInv
  <2> QED  BY <1>1, <2>1, <2>3, QuietVerdict
<1> QED  BY <1>3, <1>4, <1>5, <1>6

LEMMA SignCommand ==
  ASSUME NEW p \in Processes, Is(p, {"sign"})
  PROVE  /\ {Commands[p].input, Commands[p].key, Commands[p].output} \subseteq Paths
         /\ Commands[p].version \in {RawVersion} \cup CanonicalVersions
BY ArtifactsAssumption DEF Is, CanonicalVersions

LEMMA ScanCommand ==
  ASSUME NEW p \in Processes, Is(p, {"scan"})
  PROVE  p \in Scans /\ Commands[p].output \in Paths /\ Commands[p].text \in Texts
BY ArtifactsAssumption DEF Is, Scans

LEMMA OpenVerdict ==
  ASSUME VerdictInv, NEW p \in Processes, Open(p)
  PROVE  MeaningShape' /\ MeaningIsForm' /\ LatestInFile' /\ ScansAreNew' /\ RecordInv'
<1>1. Is(p, {"scan", "sign"}) /\ pc[p] # "done" /\ (Is(p, {"sign"}) => Signing(p))
  BY DEF Open, Signing, Is
<1>2. Commands[p].output \in Paths  BY <1>1, SignCommand, ScanCommand DEF Is
<1> DEFINE path == Commands[p].output
<1>3. /\ file' = [file EXCEPT ![path] = Truncated(p)] /\ pc' = [pc EXCEPT ![p] = "writing"]
      /\ UNCHANGED <<held, edits, signed, meaning>>
  BY DEF Open
<1>4. DOMAIN file = Paths /\ DOMAIN pc = Processes  BY DEF VerdictInv, KeyInv
<1> HIDE DEF path
<1>5. /\ file'[path] = Truncated(p) /\ \A g \in Paths \ {path} : file'[g] = file[g]
      /\ pc'[p] = "writing" /\ \A q \in Processes \ {p} : pc'[q] = pc[q]
  BY <1>2, <1>3, <1>4 DEF path
<1>6. /\ Recorded(Truncated(p), signed, meaning) /\ Truncated(p).kind # "graph"
  BY PlainContents, ArtifactsAssumption
<1>7. MeaningShape' /\ MeaningIsForm'
  BY <1>3 DEF VerdictInv, MeaningShape, MeaningIsForm
<1>8. LatestInFile' /\ ScansAreNew'
  <2>1. \A q \in Scans : pc[q] = "done" => pc'[q] = "done"  BY <1>1, <1>5 DEF Scans
  <2>2. \A g \in Paths : file'[g] = file[g] \/ file'[g].kind # "graph"  BY <1>5, <1>6
  <2> QED  BY <1>3, <2>1, <2>2, NoGraphStep DEF VerdictInv
<1>9. ProcessRecord(p)'
  <2>1. ProcessRecord(p)  BY DEF VerdictInv, RecordInv
  <2>2. ASSUME Is(p, {"sign"})  PROVE Made(Signature(p))
    <3>1. held[p].key.kind = "private" /\ Acceptable(Commands[p].version, held[p].payload)
      BY <1>1, <2>2 DEF Signing
    <3>2. held[p].key \in {PrivateKey(pair) : pair \in Pairs}
      BY <2>1, <3>1 DEF ProcessRecord, Recorded, Known
    <3>3. held[p].key.pair \in Pairs  BY <3>2 DEF PrivateKey
    <3>4. Commands[p].version \in {RawVersion} \cup CanonicalVersions  BY <2>2, SignCommand
    <3> DEFINE v == Commands[p].version
               k == held[p].key.pair
               s == Signature(p)
    <3>5. s.content = held[p].payload
          /\ s.envelope = EnvelopeFile(Envelope(v, held[p].payload, k))
      BY DEF Signature, EnvelopeOf
    <3>6. Acceptable(v, s.content)
          /\ s.envelope = EnvelopeFile(Envelope(v, s.content, k))
      BY <3>1, <3>5
    <3>7. v \in {RawVersion} \cup CanonicalVersions /\ k \in Pairs
      BY <3>3, <3>4
    <3> HIDE DEF v, k, s
    <3>8. Made(s)  BY <3>6, <3>7 DEF Made
    <3> QED  BY <3>8 DEF s
  <2>3. Signature(p)' = Signature(p)  BY <1>3 DEF Signature, EnvelopeOf
  <2>4. Is(p, {"sign"}) => Made(Signature(p)')  BY <2>2, <2>3
  <2> QED  BY <1>3, <1>5, <2>1, <2>4 DEF ProcessRecord
<1>10. RecordInv'
  <2>1. \A g \in Paths : file'[g] = file[g] \/ Recorded(file'[g], signed', meaning')
    BY <1>3, <1>5, <1>6
  <2>2. DOMAIN held' = Processes  BY <1>3 DEF VerdictInv, RecordInv
  <2> QED  BY <1>3, <1>5, <1>9, <2>1, <2>2, RecordStep DEF VerdictInv
<1> QED  BY <1>7, <1>8, <1>10

LEMMA WriteScanVerdict ==
  ASSUME VerdictInv, NEW p \in Processes, Write(p), Is(p, {"scan"})
  PROVE  MeaningShape' /\ MeaningIsForm' /\ LatestInFile' /\ ScansAreNew' /\ RecordInv'
<1> DEFINE path == Commands[p].output
           text == Commands[p].text
<1>1. p \in Scans /\ path \in Paths /\ ~Is(p, {"sign"})  BY ScanCommand DEF Is
<1>2. pc[p] = "writing" /\ pc' = [pc EXCEPT ![p] = "done"] /\ UNCHANGED <<held, edits, meaning>>
  BY DEF Write
<1>3. signed' = signed  BY <1>1 DEF Write
<1>4. \E c \in {GraphFile(text), Garbled(p)} : file' = [file EXCEPT ![path] = c]
  BY <1>1 DEF Write, Written
<1>5. DOMAIN file = Paths /\ DOMAIN pc = Processes  BY DEF VerdictInv, KeyInv
<1>6. text \in DOMAIN meaning  BY <1>1 DEF VerdictInv, ScansAreNew
<1>7. /\ Recorded(Garbled(p), signed, meaning) /\ Garbled(p).kind # "graph"
  BY PlainContents, ArtifactsAssumption
<1>8. Recorded(GraphFile(text), signed, meaning)
  BY <1>6 DEF Recorded, Known, GraphFile
<1> HIDE DEF path, text
<1>9. PICK c \in {GraphFile(text), Garbled(p)} : file' = [file EXCEPT ![path] = c]
  BY <1>4
<1>10. /\ file'[path] = c /\ \A g \in Paths \ {path} : file'[g] = file[g]
       /\ pc'[p] = "done" /\ \A q \in Processes \ {p} : pc'[q] = pc[q]
  BY <1>1, <1>2, <1>5, <1>9
<1>11. MeaningShape' /\ MeaningIsForm'
  BY <1>2 DEF VerdictInv, MeaningShape, MeaningIsForm
<1>12. LatestInFile' /\ ScansAreNew'
  <2>1. CASE c = GraphFile(text)
    <3>1. file'[path] = GraphFile(Commands[p].text)  BY <1>10, <2>1 DEF text
    <3>2. pc[p] # "done"  BY <1>2
    <3>3. LatestInFile /\ ScansAreNew /\ MeaningShape  BY DEF VerdictInv
    <3> QED  BY <1>1, <1>2, <1>10, <3>1, <3>2, <3>3, ScanStep
  <2>2. CASE c = Garbled(p)
    <3>1. \A g \in Paths : file'[g] = file[g] \/ file'[g].kind # "graph"
      BY <1>7, <1>10, <2>2
    <3>2. \A q \in Scans : pc[q] = "done" => pc'[q] = "done"  BY <1>10 DEF Scans
    <3> QED  BY <1>2, <3>1, <3>2, NoGraphStep DEF VerdictInv
  <2> QED  BY <2>1, <2>2
<1>13. RecordInv'
  <2>1. Recorded(c, signed', meaning')  BY <1>2, <1>3, <1>7, <1>8
  <2>2. \A g \in Paths : file'[g] = file[g] \/ Recorded(file'[g], signed', meaning')
    BY <1>10, <2>1
  <2>3. ProcessRecord(p)'  BY <1>2, <1>3, <1>10, QuietProcess DEF VerdictInv
  <2>4. DOMAIN held' = Processes  BY <1>2 DEF VerdictInv, RecordInv
  <2> QED  BY <1>2, <1>3, <1>10, <2>2, <2>3, <2>4, RecordStep DEF VerdictInv
<1> QED  BY <1>11, <1>12, <1>13

LEMMA WriteSignVerdict ==
  ASSUME VerdictInv, NEW p \in Processes, Write(p), Is(p, {"sign"})
  PROVE  MeaningShape' /\ MeaningIsForm' /\ LatestInFile' /\ ScansAreNew' /\ RecordInv'
<1> DEFINE path == Commands[p].output
           s == Signature(p)
<1>1. path \in Paths  BY SignCommand
<1>2. pc[p] = "writing" /\ pc' = [pc EXCEPT ![p] = "done"] /\ UNCHANGED <<held, edits, meaning>>
  BY DEF Write
<1>3. signed' = signed \cup {s}  BY DEF Write, Signature
<1>4. \E c \in {EnvelopeFile(EnvelopeOf(p)), Garbled(p)} : file' = [file EXCEPT ![path] = c]
  BY DEF Write, Written
<1>5. DOMAIN file = Paths /\ DOMAIN pc = Processes  BY DEF VerdictInv, KeyInv
<1>6. ProcessRecord(p)  BY DEF VerdictInv, RecordInv
<1>7. Made(s)  BY <1>2, <1>6 DEF ProcessRecord
<1>8. s.envelope = EnvelopeFile(EnvelopeOf(p)) /\ s.content = held[p].payload
  BY DEF Signature
<1>9. EnvelopeFile(EnvelopeOf(p)).kind = "envelope"  BY DEF EnvelopeFile
<1> HIDE DEF path, s
<1>10. PICK c \in {EnvelopeFile(EnvelopeOf(p)), Garbled(p)} : file' = [file EXCEPT ![path] = c]
  BY <1>4
<1>11. /\ file'[path] = c /\ \A g \in Paths \ {path} : file'[g] = file[g]
       /\ pc'[p] = "done" /\ \A q \in Processes \ {p} : pc'[q] = pc[q]
  BY <1>1, <1>2, <1>5, <1>10
<1>12. Recorded(Garbled(p), signed, meaning) /\ Garbled(p).kind # "graph"
  BY PlainContents, ArtifactsAssumption
<1>13. Recorded(EnvelopeFile(EnvelopeOf(p)), signed', meaning')
  BY <1>3, <1>8, <1>9 DEF Recorded, Known
<1>14. \A content : Recorded(content, signed, meaning) => Recorded(content, signed', meaning')
  BY <1>2, <1>3, RecordedStays
<1>15. MeaningShape' /\ MeaningIsForm'
  BY <1>2 DEF VerdictInv, MeaningShape, MeaningIsForm
<1>16. LatestInFile' /\ ScansAreNew'
  <2>1. c.kind # "graph"  BY <1>9, <1>12
  <2>2. \A g \in Paths : file'[g] = file[g] \/ file'[g].kind # "graph"  BY <1>11, <2>1
  <2>3. \A q \in Scans : pc[q] = "done" => pc'[q] = "done"  BY <1>11 DEF Scans
  <2> QED  BY <1>2, <2>2, <2>3, NoGraphStep DEF VerdictInv
<1>17. RecordInv'
  <2>1. Recorded(c, signed', meaning')  BY <1>12, <1>13, <1>14
  <2>2. \A g \in Paths : file'[g] = file[g] \/ Recorded(file'[g], signed', meaning')
    BY <1>11, <2>1
  <2>3. ProcessRecord(p)'  BY <1>2, <1>3, <1>11, QuietProcess DEF VerdictInv
  <2>4. DOMAIN held' = Processes  BY <1>2 DEF VerdictInv, RecordInv
  <2>5. Recorded(s.content, signed', meaning')
    BY <1>6, <1>8, <1>14 DEF ProcessRecord
  <2>6. \A r \in signed' \ signed : Made(r) /\ Recorded(r.content, signed', meaning')
    BY <1>3, <1>7, <2>5
  <2>7. signed \subseteq signed' /\ DOMAIN meaning \subseteq DOMAIN meaning'
    BY <1>2, <1>3
  <2>8. \A q \in Processes \ {p} : held'[q] = held[q] /\ pc'[q] = pc[q]  BY <1>2, <1>11
  <2> QED  BY <2>2, <2>3, <2>4, <2>6, <2>7, <2>8, RecordStep DEF VerdictInv
<1> QED  BY <1>15, <1>16, <1>17

LEMMA EditRecord ==
  ASSUME VerdictInv, NEW path \in Paths, Reformat(path) \/ Amend(path)
  PROVE  RecordInv'
<1>1. \E text, sense : Edit(path, text, sense)  BY DEF Reformat, Amend
<1>2. PICK text, sense : Edit(path, text, sense)  BY <1>1
<1>3. /\ pc' = pc /\ held' = held /\ signed' = signed
      /\ file' = [file EXCEPT ![path] = GraphFile(text)]
      /\ DOMAIN meaning' = DOMAIN meaning \cup {text}
  BY <1>2 DEF Edit
<1>4. DOMAIN file = Paths  BY DEF VerdictInv, KeyInv
<1>5. \A g \in Paths : file'[g] = file[g] \/ file'[g] = GraphFile(text)
  BY <1>3, <1>4
<1>6. Recorded(GraphFile(text), signed', meaning')
  BY <1>3 DEF Recorded, Known, GraphFile
<1>7. \A content : Recorded(content, signed, meaning) => Recorded(content, signed', meaning')
  BY <1>3, RecordedStays
<1>8. \A g \in Paths : Recorded(file'[g], signed', meaning')
  BY <1>5, <1>6, <1>7 DEF VerdictInv, RecordInv
<1>9. \A s \in signed' : Made(s) /\ Recorded(s.content, signed', meaning')
  BY <1>3, <1>7 DEF VerdictInv, RecordInv
<1>10. ASSUME NEW p \in Processes  PROVE ProcessRecord(p)'
  <2>1. ProcessRecord(p)  BY DEF VerdictInv, RecordInv
  <2>2. Signature(p)' = Signature(p)  BY <1>3 DEF Signature, EnvelopeOf
  <2>3. /\ Recorded(held'[p].payload, signed', meaning')
        /\ Recorded(held'[p].key, signed', meaning')
    BY <1>3, <1>7, <2>1 DEF ProcessRecord
  <2> QED  BY <1>3, <2>1, <2>2, <2>3 DEF ProcessRecord
<1> QED  BY <1>3, <1>8, <1>9, <1>10 DEF VerdictInv, RecordInv

LEMMA NextVerdictInv == VerdictInv /\ [Next]_vars => VerdictInv'
<1> SUFFICES ASSUME VerdictInv, [Next]_vars PROVE VerdictInv'  OBVIOUS
<1> DEFINE Goal == /\ MeaningShape' /\ MeaningIsForm' /\ LatestInFile' /\ ScansAreNew'
                   /\ RecordInv'
<1>0. KeyInv'  BY NextKeyInv DEF VerdictInv
<1>1. ASSUME NEW p \in Processes,
             CreatePrivate(p) \/ WritePrivate(p) \/ CreatePublic(p) \/ WritePublic(p)
      PROVE  Goal
  BY <1>1, KeygenVerdict
<1>2. ASSUME NEW p \in Processes, ReadPayload(p) \/ ReadKey(p) \/ Verify(p) \/ Fail(p)
      PROVE  Goal
  BY <1>2, ReadVerdict
<1>3. ASSUME NEW p \in Processes, Open(p)  PROVE Goal
  BY <1>3, OpenVerdict
<1>4. ASSUME NEW p \in Processes, Write(p)  PROVE Goal
  <2>1. Is(p, {"scan"}) \/ Is(p, {"sign"})
    BY <1>4 DEF VerdictInv, KeyInv, Write, Is
  <2> QED  BY <1>4, <2>1, WriteScanVerdict, WriteSignVerdict
<1>5. ASSUME NEW path \in Paths, Reformat(path)  PROVE Goal
  BY <1>5, ReformatVerdict, EditRecord
<1>6. ASSUME NEW path \in Paths, Amend(path)  PROVE Goal
  BY <1>6, AmendVerdict, EditRecord
<1>7. ASSUME UNCHANGED vars  PROVE Goal
  <2>1. UNCHANGED <<file, pc, held, edits, signed, meaning>>  BY <1>7 DEF vars
  <2>2. MeaningShape' /\ MeaningIsForm'
    BY <2>1 DEF VerdictInv, MeaningShape, MeaningIsForm
  <2>3. LatestInFile' /\ ScansAreNew'  BY <2>1, NoGraphStep DEF VerdictInv
  <2>4. \A p \in Processes : Signature(p)' = Signature(p)
    BY <2>1 DEF Signature, EnvelopeOf
  <2>5. RecordInv'
    BY <2>1, <2>4 DEF VerdictInv, RecordInv, ProcessRecord
  <2> QED  BY <2>2, <2>3, <2>5
<1> HIDE DEF Goal
<1>8. CASE Next
  <2>1. ASSUME \E p \in Processes :
               \/ CreatePrivate(p) \/ WritePrivate(p) \/ CreatePublic(p) \/ WritePublic(p)
               \/ ReadPayload(p) \/ ReadKey(p) \/ Verify(p) \/ Open(p) \/ Write(p) \/ Fail(p)
        PROVE Goal
    BY <1>1, <1>2, <1>3, <1>4, <2>1
  <2>2. ASSUME \E path \in Paths : Reformat(path) \/ Amend(path)
        PROVE  Goal
    BY <1>5, <1>6, <2>2
  <2>3. Goal  BY <1>8, <2>1, <2>2 DEF Next
  <2> QED  BY <1>0, <2>3 DEF VerdictInv, Goal
<1>9. CASE UNCHANGED vars  BY <1>0, <1>7, <1>9 DEF VerdictInv, Goal
<1> QED  BY <1>8, <1>9

LEMMA InitVerdictInv == Init => VerdictInv
<1> SUFFICES ASSUME Init PROVE VerdictInv  OBVIOUS
<1>0. KeyInv  BY InitKeyInv
<1>1. PICK s \in Stored : file = s.file /\ signed = s.signed  BY DEF Init
<1> DEFINE stored == StoredTexts(s)
           scanned == {Commands[p].text : p \in Scans}
<1>2. /\ \A p \in Processes : pc[p] \in {"start", "idle"}
      /\ edits \in Nat
      /\ held = [p \in Processes |-> NothingRead]
  BY ArtifactsAssumption DEF Init
<1>3. /\ DOMAIN meaning = scanned \cup stored
      /\ \A t \in scanned \cup stored :
           meaning[t] = [graph |-> Instant(t.generated), change |-> 0]
  BY <1>1 DEF Init, StoredTexts
<1>4. \A t \in stored : \A u \in stored : OneTime(t, u) => Alike(t, u)
  BY StoredAssumption
<1>5. stored \subseteq Texts  BY StoredAssumption
<1>6. \A p \in Scans : \A t \in stored : ~OneTime(t, Commands[p].text)  BY StoredAssumption
<1>7. /\ \A p, q \in Scans : OneTime(Commands[q].text, Commands[p].text) => p = q
      /\ scanned \subseteq Texts
  BY StoredAssumption, ScanCommand DEF Scans
<1>8. \A t, u : OneTime(t, u) => OneTime(u, t)  BY DEF OneTime
<1>9. \A path \in Paths : HasGraph(path) => file[path].text \in stored
  BY <1>1 DEF HasGraph, StoredTexts, Graphs, ContentsOf
<1>10. \A f, g \in Paths :
         HasGraph(f) /\ HasGraph(g) /\ OneTime(file[f].text, file[g].text) => f = g
  BY <1>1, StoredAssumption DEF HasGraph
<1>11. \A content \in ContentsOf(file) \cup {r.content : r \in signed} : Known(content, signed)
  BY <1>1, StoredAssumption
<1>12. \A r \in signed : Made(r)  BY <1>1, StoredAssumption
<1>13. \A content \in ContentsOf(file) \cup {r.content : r \in signed} :
         content.kind = "graph" => content.text \in stored
  BY <1>1 DEF StoredTexts, Graphs
<1> HIDE DEF stored, scanned
<1>14. \A t, u \in scanned \cup stored : OneTime(t, u) => Alike(t, u)
  <2>1. \A t : Alike(t, t)  BY AlikeIsEquivalence
  <2>2. \A t, u \in scanned : OneTime(t, u) => t = u  BY <1>7 DEF scanned
  <2>3. \A t \in stored, u \in scanned : ~OneTime(t, u)  BY <1>6 DEF scanned
  <2> QED  BY <1>4, <1>8, <2>1, <2>2, <2>3
<1>15. MeaningShape
  <2>1. \A t \in DOMAIN meaning : meaning[t] = Sense(t, 0) /\ meaning[t].change = 0
    BY <1>3 DEF Sense
  <2> QED  BY <1>2, <1>3, <1>5, <1>7, <2>1 DEF MeaningShape
<1>16. MeaningIsForm
  <2> SUFFICES ASSUME NEW t \in DOMAIN meaning, NEW u \in DOMAIN meaning
               PROVE  /\ meaning[t] = meaning[u] => Alike(t, u)
                      /\ Accepted(t, TRUE) /\ Accepted(u, TRUE)
                           /\ Canonical(t) = Canonical(u) => meaning[t] = meaning[u]
    BY DEF MeaningIsForm
  <2>1. meaning[t] = meaning[u] <=> OneTime(t, u)
    <3>0. /\ meaning[t] = [graph |-> Instant(t.generated), change |-> 0]
          /\ meaning[u] = [graph |-> Instant(u.generated), change |-> 0]
      BY <1>3
    <3>1. meaning[t].graph = Instant(t.generated) /\ meaning[u].graph = Instant(u.generated)
      BY <3>0
    <3>2. Instant(t.generated) = Instant(u.generated) => meaning[t] = meaning[u]
      BY <1>3
    <3> QED  BY <3>1, <3>2 DEF OneTime
  <2>2. Canonical(t) = Canonical(u) => OneTime(t, u)  BY SameForm
  <2> QED  BY <1>3, <1>14, <2>1, <2>2
<1>17. LatestInFile
  <2> SUFFICES ASSUME NEW path \in Paths, HasGraph(path)
               PROVE  /\ file[path].text \in DOMAIN meaning
                      /\ \A t \in DOMAIN meaning :
                           OneTime(t, file[path].text) => Below(t, file[path].text)
    BY <1>10 DEF LatestInFile
  <2>1. file[path].text \in stored /\ file[path].text \in DOMAIN meaning
    BY <1>3, <1>9
  <2>2. ASSUME NEW t \in DOMAIN meaning, OneTime(t, file[path].text)
        PROVE  Below(t, file[path].text)
    <3>1. Canonical(t) = Canonical(file[path].text)
      BY <1>3, <1>14, <2>1, <2>2 DEF Alike
    <3>2. t \in Texts /\ file[path].text \in Texts  BY <1>15, <2>1 DEF MeaningShape
    <3> QED  BY <3>1, <3>2, BelowIsOrder
  <2> QED  BY <2>1, <2>2
<1>18. ScansAreNew
  <2> SUFFICES ASSUME NEW p \in Scans
               PROVE  /\ Commands[p].text \in DOMAIN meaning
                      /\ \A path \in Paths :
                           HasGraph(path) => ~OneTime(file[path].text, Commands[p].text)
                      /\ \A t \in DOMAIN meaning :
                           OneTime(t, Commands[p].text) => t = Commands[p].text
    BY DEF ScansAreNew
  <2>1. Commands[p].text \in DOMAIN meaning  BY <1>3 DEF scanned
  <2>2. \A path \in Paths : HasGraph(path) => ~OneTime(file[path].text, Commands[p].text)
    BY <1>6, <1>9
  <2>3. \A t \in DOMAIN meaning : OneTime(t, Commands[p].text) => t = Commands[p].text
    <3>1. \A t \in scanned : OneTime(t, Commands[p].text) => t = Commands[p].text
      BY <1>7 DEF scanned
    <3> QED  BY <1>3, <1>6, <3>1
  <2> QED  BY <2>1, <2>2, <2>3
<1>19. RecordInv
  <2>1. \A path \in Paths : Recorded(file[path], signed, meaning)
    BY <1>3, <1>11, <1>13 DEF Recorded, ContentsOf
  <2>2. \A r \in signed : Made(r) /\ Recorded(r.content, signed, meaning)
    BY <1>3, <1>11, <1>12, <1>13 DEF Recorded
  <2>3. Recorded(NoFile, signed, meaning)  BY DEF Recorded, Known, NoFile
  <2>4. \A p \in Processes : ProcessRecord(p)
    <3>1. \A p \in Processes : held[p] = NothingRead  BY <1>2
    <3> QED  BY <1>2, <2>3, <3>1 DEF ProcessRecord, NothingRead
  <2> QED  BY <1>2, <2>1, <2>2, <2>4 DEF RecordInv
<1> QED  BY <1>0, <1>15, <1>16, <1>17, <1>18, <1>19 DEF VerdictInv

\* What an envelope on record says, and what verify makes of it.
LEMMA EnvelopeParts ==
  ASSUME NEW v, NEW content, NEW pair
  PROVE  LET envelope == Envelope(v, content, pair) IN
           /\ envelope.version = v /\ envelope.fingerprint = pair
           /\ envelope.digest = Payload(v, content)
BY DEF Envelope

LEMMA AcceptedEitherWay ==
  ASSUME NEW text, NEW allow \in BOOLEAN, Accepted(text, allow)
  PROVE  Accepted(text, TRUE)
BY DEF Accepted

\* What verifies is what was signed: the same bytes, or a text of the same meaning.
LEMMA SamePayload ==
  ASSUME MeaningIsForm, NEW v \in {RawVersion} \cup CanonicalVersions,
         NEW content, Acceptable(v, content), Recorded(content, signed, meaning),
         NEW payload, Recorded(payload, signed, meaning)
  PROVE  Acceptable(v, payload) /\ Payload(v, payload) = Payload(v, content)
           <=> SameContent(v, content, payload)
<1>1. CASE v = RawVersion
  BY <1>1 DEF Acceptable, Payload, SameContent, RawVersion, CanonicalVersions
<1>2. CASE v # RawVersion
  <2> DEFINE allow == (v = "0.3.0")
             t == content.text
             u == payload.text
  <2>1. v \in CanonicalVersions /\ allow \in BOOLEAN  BY <1>2
  <2>2. /\ content.kind = "graph" /\ Accepted(t, allow)
        /\ Acceptable(v, payload) <=> payload.kind = "graph" /\ Accepted(u, allow)
        /\ Payload(v, payload) = Canonical(u) /\ Payload(v, content) = Canonical(t)
    BY <1>2, <2>1 DEF Acceptable, Payload
  <2>3. SameContent(v, content, payload) <=> payload.kind = "graph" /\ meaning[t] = meaning[u]
    BY <1>2 DEF SameContent
  <2>4. t \in DOMAIN meaning /\ (payload.kind = "graph" => u \in DOMAIN meaning)
    BY <2>2 DEF Recorded
  <2> HIDE DEF allow, t, u
  <2>5. Accepted(t, TRUE) /\ (Accepted(u, allow) => Accepted(u, TRUE))
    BY <2>1, <2>2, AcceptedEitherWay
  <2>6. ASSUME payload.kind = "graph"
        PROVE  Accepted(u, allow) /\ Canonical(u) = Canonical(t) <=> meaning[t] = meaning[u]
    <3>1. /\ meaning[t] = meaning[u] => Alike(t, u)
          /\ Accepted(t, TRUE) /\ Accepted(u, TRUE) /\ Canonical(t) = Canonical(u)
               => meaning[t] = meaning[u]
      BY <2>4, <2>6 DEF MeaningIsForm
    <3>2. Alike(t, u) =>
            Canonical(t) = Canonical(u) /\ (Accepted(t, allow) <=> Accepted(u, allow))
      BY <2>1 DEF Alike
    <3> QED  BY <2>2, <2>5, <3>1, <3>2
  <2> QED  BY <2>2, <2>3, <2>6
<1> QED  BY <1>1, <1>2

LEMMA VerdictInvSuffices == VerdictInv => VerdictFollowsGraph
<1> SUFFICES ASSUME VerdictInv, NEW p \in Processes, pc[p] \in {"valid", "refused"}
             PROVE  pc[p] = "valid" <=>
                      \E s \in signed :
                        /\ s.envelope = held[p].envelope
                        /\ held[p].key = PublicKey(held[p].envelope.envelope.fingerprint)
                        /\ SameContent(held[p].envelope.envelope.version, s.content, held[p].payload)
  BY DEF VerdictFollowsGraph
<1> DEFINE file0 == held[p].envelope
           envelope == file0.envelope
           payload == held[p].payload
           key == held[p].key
<1>1. /\ pc[p] = "valid" <=> Verifies(payload, envelope, key)
      /\ Recorded(payload, signed, meaning) /\ Recorded(key, signed, meaning)
      /\ \E s \in signed : s.envelope = file0
  BY DEF VerdictInv, RecordInv, ProcessRecord
<1>2. \A s \in signed : Made(s) /\ Recorded(s.content, signed, meaning)
  BY DEF VerdictInv, RecordInv
<1>3. MeaningIsForm  BY DEF VerdictInv
<1> HIDE DEF file0, payload, key
<1>4. ASSUME NEW s \in signed, s.envelope = file0
      PROVE  /\ envelope.version \in {RawVersion} \cup CanonicalVersions
             /\ Acceptable(envelope.version, s.content)
             /\ Verifies(payload, envelope, key) <=>
                  key = PublicKey(envelope.fingerprint)
                    /\ SameContent(envelope.version, s.content, payload)
  <2>1. PICK v \in {RawVersion} \cup CanonicalVersions, pair \in Pairs :
          /\ Acceptable(v, s.content)
          /\ file0 = EnvelopeFile(Envelope(v, s.content, pair))
    BY <1>2, <1>4 DEF Made
  <2>2. envelope = Envelope(v, s.content, pair)  BY <2>1 DEF EnvelopeFile
  <2>3. envelope.version = v /\ envelope.fingerprint = pair
    BY <2>2, EnvelopeParts
  <2>4. CASE key.kind = "public"
    <3>1. PICK other \in Pairs : key = PublicKey(other)
      BY <1>1, <2>4 DEF Recorded, Known
    <3>2. Verifies(payload, envelope, key) <=>
            /\ Acceptable(v, payload) /\ other = pair
            /\ Payload(v, payload) = Payload(v, s.content)
      BY <2>2, <3>1, VerifiesWhatWasSigned
    <3>3. key = PublicKey(pair) <=> other = pair  BY <3>1 DEF PublicKey
    <3>4. Acceptable(v, payload) /\ Payload(v, payload) = Payload(v, s.content)
            <=> SameContent(v, s.content, payload)
      BY <1>1, <1>2, <1>3, <2>1, SamePayload
    <3> QED  BY <2>1, <2>3, <3>2, <3>3, <3>4
  <2>5. CASE key.kind # "public"
    <3>1. ~Verifies(payload, envelope, key)  BY <2>5 DEF Verifies
    <3>2. key # PublicKey(pair)  BY <2>5 DEF PublicKey
    <3> QED  BY <2>1, <2>3, <3>1, <3>2
  <2> QED  BY <2>4, <2>5
<1> HIDE DEF envelope
<1>5. pc[p] = "valid" <=>
        \E s \in signed :
          /\ s.envelope = file0 /\ key = PublicKey(envelope.fingerprint)
          /\ SameContent(envelope.version, s.content, payload)
  BY <1>1, <1>4
<1> QED  BY <1>5 DEF envelope, file0, payload, key

\* Whatever commands run at the same time, and however often people rewrite or change
\* the graphs meanwhile, verify says yes exactly to what was signed with that key and
\* to other ways of writing it: runSign, runVerify, internal/signing.
THEOREM VerdictsFollowGraphs == Spec => []VerdictFollowsGraph
<1> QED  BY VerdictInvSuffices, InitVerdictInv, NextVerdictInv, PTL DEF Spec
=============================================================================
