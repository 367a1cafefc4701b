--------------------------- MODULE EvidenceLedger ---------------------------
(***************************************************************************)
(* What the receiver promises of the evidence it publishes, with requests, *)
(* spans, windows and queues forgotten: a ledger in memory that is only    *)
(* added to, a published copy that only ever catches up with it, an export *)
(* that only ever catches up with the published copy, and a crash that     *)
(* takes memory back to what was published and nothing further.            *)
(***************************************************************************)
EXTENDS Integers

CONSTANT Facts  \* the pieces of evidence that can be counted

VARIABLES
  counted,    \* in memory: how often each fact was counted
  published,  \* the evidence graph file
  exported    \* the evidence the BOM file was exported from

Bags == [Facts -> Nat]
Empty == [f \in Facts |-> 0]
Below(a, b) == \A f \in Facts : a[f] <= b[f]

LedgerInit == counted = Empty /\ published = Empty /\ exported = Empty

\* Evidence is added to, never taken back.
Count ==
  /\ counted' \in Bags
  /\ Below(counted, counted')
  /\ UNCHANGED <<published, exported>>

Publish ==
  /\ published' = counted
  /\ UNCHANGED <<counted, exported>>

Export ==
  /\ exported' = published
  /\ UNCHANGED <<counted, published>>

Crash ==
  /\ counted' = published
  /\ UNCHANGED <<published, exported>>

LedgerNext == Count \/ Publish \/ Export \/ Crash

LedgerSpec ==
  LedgerInit /\ [][LedgerNext]_<<counted, published, exported>>

\* What follows for the files: the BOM never shows evidence the graph file lacks,
\* and the graph file never lacks evidence it once had.
ExportBelowPublished == Below(exported, published) /\ Below(published, counted)
PublishedGrows == [][Below(published, published')]_published
=============================================================================
