----------------------------- MODULE PathProofs -----------------------------
(***************************************************************************)
(* Theorems about PolicyPaths, for every graph and rule.                   *)
(***************************************************************************)
EXTENDS PolicyPaths, SequenceTheorems, NaturalsInduction, WellFoundedInduction, TLAPS

\* The path follows the rule as far as it goes.
PathFollowsRule ==
  /\ path # <<>> => path[1] \in rule.from
  /\ \A i \in 1..Len(path) - 1 :
       /\ [from |-> path[i], relation |-> rule.relations[i], to |-> path[i + 1]]
            \in graph.edges
       /\ i \in DOMAIN rule.via => path[i + 1] \in rule.via[i]
  /\ \A i, j \in 1..Len(path) : i # j => path[i] # path[j]

\* What is left to try are edges of the rule's next relation.
UntriedIsOutgoing ==
  \A i \in 1..Len(path) : untried[i] \subseteq Outgoing(path[i], i)

\* ... and lies beyond what is being tried.
UntriedComesLater ==
  \A i \in 1..Len(path) - 1 : \A n \in untried[i] : path[i + 1] < n

\* A path leaves the current one at an edge that is left to try.
StillAhead(q) ==
  \E i \in 1..Len(path) :
    /\ i <= Len(rule.relations)
    /\ q[i + 1] \in untried[i]
    /\ \A j \in 1..i : q[j] = path[j]

\* Every denied path from the current start is still ahead or just reached.
NothingSkipped ==
  path # <<>> =>
    \A q \in DeniedPaths : q[1] = path[1] => q = path \/ StillAhead(q)

SearchInv ==
  /\ TypeOK
  /\ PathFollowsRule /\ UntriedIsOutgoing /\ UntriedComesLater /\ NothingSkipped
  /\ OnlyDeniedPaths /\ NoDeniedPathMissed /\ FirstIsReported

-----------------------------------------------------------------------------
\* Every non-empty set of numbers has a least element, and Min is it.
LEMMA LeastElement ==
  ASSUME NEW T, T \subseteq Nat, T # {}
  PROVE  Sets!Min(T) \in T /\ \A n \in T : Sets!Min(T) <= n
<1> DEFINE less == {p \in Nat \X Nat : p[1] < p[2]}
<1>1. IsWellFoundedOn(less, Nat)
  BY NatLessThanWellFounded DEF OpToRel
<1>2. PICK m \in T : \A n \in T : <<n, m>> \notin less
  <2> HIDE DEF less
  <2> QED  BY <1>1, WFMin
<1>3. \A n \in T : ~(n < m)  BY <1>2
<1>4. \A n \in T : m <= n  BY <1>3
<1>5. QED  BY <1>4 DEF Sets!Min

\* The sizes and types the steps rest on.
LEMMA TypeFacts ==
  ASSUME TypeOK
  PROVE  /\ graph.nodes \subseteq Nat
         /\ rule.relations \in Seq(Relations)
         /\ Len(rule.relations) \in Nat /\ Len(rule.relations) >= 1
         /\ DOMAIN rule.relations = 1..Len(rule.relations)
         /\ rule.via \in Seq(SUBSET Nat)
         /\ DOMAIN rule.via = 1..Len(rule.via)
         /\ Len(rule.via) \in {0, Len(rule.relations) - 1}
         /\ path \in Seq(graph.nodes) /\ untried \in Seq(SUBSET Nat)
         /\ Len(path) \in Nat /\ Len(untried) = Len(path)
         /\ Len(path) <= Len(rule.relations) + 1
         /\ path # <<>> => Len(path) >= 1
         /\ \A n, i : Outgoing(n, i) \subseteq Nat
<1>1. graph \in AllGraphs /\ rule \in Compiled  BY DEF TypeOK
<1>2. graph.nodes \subseteq Nat  BY <1>1 DEF AllGraphs
<1>3. \A n, i : Outgoing(n, i) \subseteq Nat  BY <1>1 DEF AllGraphs, Outgoing
<1>4. rule.relations \in Seq(Relations) /\ rule.via \in Seq(SUBSET Nat)
  BY <1>1, RulesAssumption DEF Compiled
<1>5. Len(rule.relations) \in 1..MaxPathRelations
  BY <1>1 DEF Compiled
<1>6. Len(rule.via) \in {0, Len(rule.relations) - 1}
  BY <1>1 DEF Compiled
<1>7. Len(rule.relations) \in Nat /\ Len(rule.relations) >= 1
  BY <1>5, LimitAssumption
<1>8. path \in Seq(graph.nodes) /\ untried \in Seq(SUBSET Nat)
      /\ Len(untried) = Len(path) /\ Len(path) <= Len(rule.relations) + 1
  BY DEF TypeOK
<1>9. path # <<>> => Len(path) >= 1
  BY <1>8, EmptySeq
<1>10. QED  BY <1>2, <1>3, <1>4, <1>6, <1>7, <1>8, <1>9

\* What the definition of a denied path says, element by element.
LEMMA DeniedFacts ==
  ASSUME TypeOK, NEW q
  PROVE  q \in DeniedPaths <=>
           /\ q \in [1..Len(rule.relations) + 1 -> graph.nodes]
           /\ q[1] \in rule.from /\ q[Len(rule.relations) + 1] \in rule.to
           /\ \A i \in 1..Len(rule.relations) :
                [from |-> q[i], relation |-> rule.relations[i], to |-> q[i + 1]]
                  \in graph.edges
           /\ \A i \in DOMAIN rule.via : q[i + 1] \in rule.via[i]
           /\ \A i, j \in 1..Len(rule.relations) + 1 : i # j => q[i] # q[j]
<1> DEFINE k == Len(rule.relations)
<1>1. k \in Nat /\ DOMAIN rule.relations = 1..k  BY TypeFacts
<1>2. ASSUME q \in [1..k + 1 -> graph.nodes]
      PROVE  Len(q) = k + 1 /\ DOMAIN q = 1..k + 1
  BY <1>1, <1>2
<1>3. QED  BY <1>1, <1>2 DEF DeniedPaths, Last

\* Whoever is the target of an edge is outgoing, and the other way round.
LEMMA OutgoingFacts ==
  ASSUME TypeOK, NEW n, NEW i, NEW m
  PROVE  m \in Outgoing(n, i) <=>
           /\ i \in 1..Len(rule.relations)
           /\ [from |-> n, relation |-> rule.relations[i], to |-> m] \in graph.edges
<1>1. DOMAIN rule.relations = 1..Len(rule.relations)  BY TypeFacts
<1>2. \A e \in graph.edges : e = [from |-> e.from, relation |-> e.relation, to |-> e.to]
  BY DEF TypeOK, AllGraphs
<1>3. ASSUME m \in Outgoing(n, i)
      PROVE  /\ i \in 1..Len(rule.relations)
             /\ [from |-> n, relation |-> rule.relations[i], to |-> m] \in graph.edges
  BY <1>1, <1>2, <1>3 DEF Outgoing
<1>4. ASSUME i \in 1..Len(rule.relations),
             [from |-> n, relation |-> rule.relations[i], to |-> m] \in graph.edges
      PROVE  m \in Outgoing(n, i)
  BY <1>1, <1>4 DEF Outgoing
<1>5. QED  BY <1>3, <1>4

-----------------------------------------------------------------------------
\* The graph and the rule do not change, nor does what is computed from them.
LEMMA NothingElse ==
  ASSUME TypeOK, Next
  PROVE  /\ graph' = graph /\ rule' = rule
         /\ DeniedPaths' = DeniedPaths
         /\ \A n, i : Outgoing(n, i)' = Outgoing(n, i)
<1>1. graph' = graph /\ rule' = rule
  BY DEF Next, Begin, Extend, Backtrack, Found
<1>2. DeniedPaths' = DeniedPaths  BY <1>1 DEF DeniedPaths, Last
<1>3. \A n, i : Outgoing(n, i)' = Outgoing(n, i)  BY <1>1 DEF Outgoing
<1>4. QED  BY <1>1, <1>2, <1>3

\* How each step moves, in terms of lengths and positions.
LEMMA BeginFacts ==
  ASSUME TypeOK, Begin
  PROVE  \E s \in starts :
           /\ path = <<>> /\ path' = <<s>> /\ untried' = <<Outgoing(s, 1)>>
           /\ starts' = starts \ {s} /\ matches' = matches
<1>1. starts \subseteq Nat /\ starts # {}
  BY TypeFacts DEF TypeOK, Begin
<1>2. Sets!Min(starts) \in starts  BY <1>1, LeastElement
<1>3. QED  BY <1>2 DEF Begin

LEMMA NextTargetFacts ==
  ASSUME TypeOK, UntriedIsOutgoing, path # <<>>, Last(untried) # {}
  PROVE  /\ NextTarget \in untried[Len(path)]
         /\ \A n \in untried[Len(path)] : NextTarget <= n
         /\ NextTarget \in Outgoing(path[Len(path)], Len(path))
         /\ Len(path) \in 1..Len(rule.relations)
<1> DEFINE L == Len(path)
<1>1. L \in Nat /\ L >= 1 /\ Len(untried) = L /\ untried \in Seq(SUBSET Nat)
  BY TypeFacts
<1>2. Last(untried) = untried[L] /\ untried[L] \subseteq Nat
  BY <1>1 DEF Last
<1>3. /\ Sets!Min(untried[L]) \in untried[L]
      /\ \A n \in untried[L] : Sets!Min(untried[L]) <= n
  BY <1>2, LeastElement
<1>4. NextTarget = Sets!Min(untried[L])  BY <1>2 DEF NextTarget
<1>5. NextTarget \in Outgoing(path[L], L)
  BY <1>1, <1>3, <1>4 DEF UntriedIsOutgoing
<1>6. L \in 1..Len(rule.relations)
  BY <1>5, OutgoingFacts
<1>7. QED  BY <1>3, <1>4, <1>5, <1>6

LEMMA SkipFacts ==
  ASSUME TypeOK, Extend, ~Admissible(NextTarget)
  PROVE  /\ path' = path /\ Len(untried') = Len(path)
         /\ untried' \in Seq(SUBSET Nat)
         /\ \A i \in 1..Len(path) - 1 : untried'[i] = untried[i]
         /\ untried'[Len(path)] = untried[Len(path)] \ {NextTarget}
         /\ starts' = starts /\ matches' = matches
<1> DEFINE L == Len(path)
           n == NextTarget
<1>1. L \in Nat /\ L >= 1 /\ Len(untried) = L /\ untried \in Seq(SUBSET Nat)
  BY TypeFacts DEF Extend
<1>2. /\ path' = path /\ starts' = starts /\ matches' = matches
      /\ untried' = [untried EXCEPT ![Len(untried)] = @ \ {n}]
  BY DEF Extend
<1> HIDE DEF n
<1>3. untried[L] \ {n} \in SUBSET Nat  BY <1>1
<1>4. untried' = [untried EXCEPT ![L] = untried[L] \ {n}]  BY <1>1, <1>2
<1>5. Len(untried') = L /\ untried' \in Seq(SUBSET Nat)
  BY <1>1, <1>3, <1>4
<1>6. /\ \A i \in 1..L - 1 : untried'[i] = untried[i]
      /\ untried'[L] = untried[L] \ {n}
  BY <1>1, <1>4
<1>7. QED  BY <1>2, <1>5, <1>6 DEF n

LEMMA FollowFacts ==
  ASSUME TypeOK, UntriedIsOutgoing, Extend, Admissible(NextTarget)
  PROVE  /\ path' \in Seq(graph.nodes) /\ Len(path') = Len(path) + 1
         /\ \A i \in 1..Len(path) : path'[i] = path[i]
         /\ path'[Len(path) + 1] = NextTarget
         /\ untried' \in Seq(SUBSET Nat) /\ Len(untried') = Len(path) + 1
         /\ \A i \in 1..Len(path) - 1 : untried'[i] = untried[i]
         /\ untried'[Len(path)] = untried[Len(path)] \ {NextTarget}
         /\ untried'[Len(path) + 1] = Outgoing(NextTarget, Len(path) + 1)
         /\ starts' = starts /\ matches' = matches
<1> DEFINE L == Len(path)
           n == NextTarget
           out == Outgoing(n, L + 1)
           rest == [untried EXCEPT ![L] = untried[L] \ {n}]
<1>1. /\ L \in Nat /\ L >= 1 /\ Len(untried) = L
      /\ untried \in Seq(SUBSET Nat) /\ path \in Seq(graph.nodes)
  BY TypeFacts DEF Extend
<1>2. n \in graph.nodes  BY DEF Admissible
<1>3. out \in SUBSET Nat  BY TypeFacts
<1>4. /\ starts' = starts /\ matches' = matches
      /\ path' = Append(path, n) /\ untried' = Append(rest, out)
  BY <1>1 DEF Extend
<1> HIDE DEF n, out
<1>5. untried[L] \ {n} \in SUBSET Nat  BY <1>1
<1>6. rest \in Seq(SUBSET Nat) /\ Len(rest) = L  BY <1>1, <1>5
<1>7. /\ \A i \in 1..L - 1 : rest[i] = untried[i]
      /\ rest[L] = untried[L] \ {n}
  BY <1>1
<1> HIDE DEF rest
<1>8. /\ path' \in Seq(graph.nodes) /\ Len(path') = L + 1
      /\ \A i \in 1..L : path'[i] = path[i]
      /\ path'[L + 1] = n
  BY <1>1, <1>2, <1>4
<1>9. /\ untried' \in Seq(SUBSET Nat) /\ Len(untried') = L + 1
      /\ \A i \in 1..L : untried'[i] = rest[i]
      /\ untried'[L + 1] = out
  BY <1>1, <1>3, <1>4, <1>6
<1>10. /\ \A i \in 1..L - 1 : untried'[i] = untried[i]
       /\ untried'[L] = untried[L] \ {n}
  BY <1>1, <1>7, <1>9
<1>11. QED  BY <1>4, <1>8, <1>9, <1>10 DEF n, out

LEMMA FrontFacts ==
  ASSUME NEW S, NEW seq \in Seq(S), Len(seq) >= 1
  PROVE  /\ Seqs!Front(seq) \in Seq(S)
         /\ Len(Seqs!Front(seq)) = Len(seq) - 1
         /\ \A i \in 1..Len(seq) - 1 : Seqs!Front(seq)[i] = seq[i]
<1>1. Len(seq) \in Nat /\ \A i \in 1..Len(seq) - 1 : seq[i] \in S  OBVIOUS
<1> DEFINE n == Len(seq) - 1
           front == SubSeq(seq, 1, n)
<1>2. n \in Int /\ \A i \in 1..n : seq[i] \in S  BY <1>1
<1> HIDE DEF n
<1>3. /\ front \in Seq(S)
      /\ Len(front) = IF 1 <= n THEN n - 1 + 1 ELSE 0
      /\ \A i \in 1..n - 1 + 1 : front[i] = seq[1 + i - 1]
  BY <1>2, SubSeqProperties
<1> HIDE DEF front
<1>4. Len(front) = n
  <2>1. n \in Nat  BY <1>1 DEF n
  <2> QED  BY <1>3, <2>1
<1>5. \A i \in 1..n : front[i] = seq[i]
  BY <1>2, <1>3
<1>6. QED  BY <1>3, <1>4, <1>5 DEF Seqs!Front, front, n

LEMMA BacktrackFacts ==
  ASSUME TypeOK, Backtrack
  PROVE  /\ path' \in Seq(graph.nodes) /\ Len(path') = Len(path) - 1
         /\ \A i \in 1..Len(path) - 1 : path'[i] = path[i]
         /\ untried' \in Seq(SUBSET Nat) /\ Len(untried') = Len(path) - 1
         /\ \A i \in 1..Len(path) - 1 : untried'[i] = untried[i]
         /\ untried[Len(path)] = {}
         /\ starts' = starts /\ matches' = matches
<1>1. /\ Len(path) >= 1 /\ Len(untried) = Len(path)
      /\ untried \in Seq(SUBSET Nat) /\ path \in Seq(graph.nodes)
  BY TypeFacts DEF Backtrack
<1>2. untried[Len(path)] = {}  BY <1>1 DEF Backtrack, Last
<1>3. QED  BY <1>1, <1>2, FrontFacts DEF Backtrack

-----------------------------------------------------------------------------
LEMMA InitInv == Init => SearchInv
<1> SUFFICES ASSUME Init PROVE SearchInv  OBVIOUS
<1>1. graph \in AllGraphs /\ rule \in Compiled
  BY GraphsAssumption DEF Init
<1>2. path = <<>> /\ untried = <<>> /\ Len(path) = 0 /\ matches = {}
  BY DEF Init
<1>3. rule.relations \in Seq(Relations)
  BY <1>1, RulesAssumption DEF Compiled
<1>4. TypeOK
  BY <1>1, <1>2, <1>3 DEF Init, TypeOK
<1>5. PathFollowsRule /\ UntriedIsOutgoing /\ UntriedComesLater /\ NothingSkipped
  BY <1>2
  DEF PathFollowsRule, UntriedIsOutgoing, UntriedComesLater, NothingSkipped
<1>6. OnlyDeniedPaths /\ FirstIsReported
  BY <1>2 DEF OnlyDeniedPaths, FirstIsReported
<1>7. NoDeniedPathMissed
  <2> SUFFICES ASSUME NEW q \in DeniedPaths PROVE q[1] \in starts
    BY DEF NoDeniedPathMissed, Decided
  <2>1. q \in [1..Len(rule.relations) + 1 -> graph.nodes] /\ q[1] \in rule.from
    BY <1>4, DeniedFacts
  <2>2. q[1] \in graph.nodes  BY <1>3, <2>1
  <2> QED  BY <2>1, <2>2 DEF Init
<1>8. QED  BY <1>4, <1>5, <1>6, <1>7 DEF SearchInv

\* What has been reported stays right when nothing is reported and no start is done.
LEMMA ReportsKeep ==
  ASSUME SearchInv, Next, matches' = matches,
         \A q \in DeniedPaths : Decided(q[1])' => Decided(q[1])
  PROVE  /\ OnlyDeniedPaths' /\ FirstIsReported' /\ NoDeniedPathMissed'
<1>1. DeniedPaths' = DeniedPaths  BY NothingElse DEF SearchInv
<1>2. OnlyDeniedPaths'
  BY <1>1 DEF SearchInv, OnlyDeniedPaths
<1>3. FirstIsReported'
  BY <1>1 DEF SearchInv, FirstIsReported
<1>4. NoDeniedPathMissed'
  BY <1>1 DEF SearchInv, NoDeniedPathMissed
<1>5. QED  BY <1>2, <1>3, <1>4

LEMMA BeginInv ==
  ASSUME SearchInv, Begin
  PROVE  SearchInv'
<1>1. TypeOK /\ Next  BY DEF SearchInv, Next
<1>2. PICK s \in starts :
        /\ path = <<>> /\ path' = <<s>> /\ untried' = <<Outgoing(s, 1)>>
        /\ starts' = starts \ {s} /\ matches' = matches
  BY <1>1, BeginFacts
<1>3. /\ graph' = graph /\ rule' = rule /\ DeniedPaths' = DeniedPaths
      /\ \A n, i : Outgoing(n, i)' = Outgoing(n, i)
  BY <1>1, NothingElse
<1>4. /\ s \in graph.nodes /\ s \in rule.from
      /\ Outgoing(s, 1) \in SUBSET Nat
      /\ Len(rule.relations) \in Nat /\ Len(rule.relations) >= 1
  BY <1>1, TypeFacts DEF TypeOK
<1> DEFINE out == Outgoing(s, 1)
<1>5. /\ path' \in Seq(graph.nodes) /\ Len(path') = 1 /\ path'[1] = s
      /\ untried' \in Seq(SUBSET Nat) /\ Len(untried') = 1 /\ untried'[1] = out
  <2>1. untried' = <<out>> /\ out \in SUBSET Nat  BY <1>2, <1>4
  <2> HIDE DEF out
  <2>2. untried' \in Seq(SUBSET Nat) /\ Len(untried') = 1 /\ untried'[1] = out
    BY <2>1
  <2>3. path' = <<s>> /\ s \in graph.nodes  BY <1>2, <1>4
  <2>4. path' \in Seq(graph.nodes) /\ Len(path') = 1 /\ path'[1] = s
    BY <2>3
  <2> QED  BY <2>2, <2>4
<1>6. TypeOK'
  <2>1. starts' \subseteq graph.nodes \cap rule.from  BY <1>1, <1>2 DEF TypeOK
  <2> QED  BY <1>1, <1>2, <1>3, <1>4, <1>5, <2>1 DEF TypeOK
<1>7. PathFollowsRule'
  BY <1>3, <1>4, <1>5 DEF PathFollowsRule
<1>8. UntriedIsOutgoing'
  BY <1>3, <1>5 DEF UntriedIsOutgoing
<1>9. UntriedComesLater'
  BY <1>5 DEF UntriedComesLater
<1>10. NothingSkipped'
  <2> SUFFICES ASSUME NEW q \in DeniedPaths, q[1] = s PROVE StillAhead(q)'
    BY <1>3, <1>5 DEF NothingSkipped
  <2>1. [from |-> q[1], relation |-> rule.relations[1], to |-> q[2]] \in graph.edges
    BY <1>1, <1>4, DeniedFacts
  <2>2. q[2] \in out
    BY <1>1, <1>4, <2>1, OutgoingFacts
  <2> HIDE DEF out
  <2> QED  BY <1>3, <1>4, <1>5, <2>2 DEF StillAhead
<1>11. OnlyDeniedPaths' /\ FirstIsReported' /\ NoDeniedPathMissed'
  <2>1. \A n : Decided(n)' => Decided(n)
    BY <1>2, <1>5 DEF Decided
  <2> QED  BY <1>1, <1>2, <2>1, ReportsKeep
<1>12. QED
  BY <1>6, <1>7, <1>8, <1>9, <1>10, <1>11 DEF SearchInv

\* An edge that is not followed leads to no denied path.
LEMMA SkipInv ==
  ASSUME SearchInv, Extend, ~Admissible(NextTarget)
  PROVE  SearchInv'
<1> DEFINE L == Len(path)
           n == NextTarget
<1>1. TypeOK /\ Next  BY DEF SearchInv, Next
<1>2. /\ graph' = graph /\ rule' = rule /\ DeniedPaths' = DeniedPaths
      /\ \A m, i : Outgoing(m, i)' = Outgoing(m, i)
  BY <1>1, NothingElse
<1>3. /\ path' = path /\ Len(untried') = L /\ untried' \in Seq(SUBSET Nat)
      /\ \A i \in 1..L - 1 : untried'[i] = untried[i]
      /\ untried'[L] = untried[L] \ {n}
      /\ starts' = starts /\ matches' = matches
  BY <1>1, SkipFacts
<1>4. /\ n \in Outgoing(path[L], L) /\ L \in 1..Len(rule.relations)
  BY <1>1, NextTargetFacts DEF SearchInv, Extend
<1>5. L \in Nat /\ Len(rule.relations) \in Nat
      /\ DOMAIN rule.via = 1..Len(rule.via)
      /\ Len(rule.via) \in {0, Len(rule.relations) - 1}
  BY <1>1, TypeFacts
<1> HIDE DEF n
<1>6. \A i \in 1..L : untried'[i] \subseteq untried[i]
  BY <1>3, <1>5
<1>7. TypeOK'
  BY <1>1, <1>2, <1>3 DEF TypeOK
<1>8. PathFollowsRule'
  BY <1>2, <1>3 DEF SearchInv, PathFollowsRule
<1>9. UntriedIsOutgoing'
  BY <1>2, <1>3, <1>6 DEF SearchInv, UntriedIsOutgoing
<1>10. UntriedComesLater'
  BY <1>3, <1>5, <1>6 DEF SearchInv, UntriedComesLater
<1>11. NothingSkipped'
  <2> SUFFICES ASSUME NEW q \in DeniedPaths, q[1] = path[1], path # <<>>, q # path
               PROVE  StillAhead(q)'
    BY <1>2, <1>3 DEF NothingSkipped
  <2>1. PICK i \in 1..L : /\ i <= Len(rule.relations)
                          /\ q[i + 1] \in untried[i]
                          /\ \A j \in 1..i : q[j] = path[j]
    BY DEF SearchInv, NothingSkipped, StillAhead
  <2>2. ASSUME i = L, q[L + 1] = n  PROVE FALSE
    <3>1. /\ q \in [1..Len(rule.relations) + 1 -> graph.nodes]
          /\ \A j \in DOMAIN rule.via : q[j + 1] \in rule.via[j]
          /\ \A j, h \in 1..Len(rule.relations) + 1 : j # h => q[j] # q[h]
      BY <1>1, DeniedFacts
    <3>2. n \in graph.nodes  BY <1>4, <1>5, <2>2, <3>1
    <3>3. \A j \in 1..L : path[j] # n
      BY <1>4, <1>5, <2>1, <2>2, <3>1
    <3>4. L \in DOMAIN rule.via => n \in rule.via[L]
      BY <2>2, <3>1
    <3>5. DOMAIN path = 1..L  BY <1>1, TypeFacts
    <3> QED  BY <3>2, <3>3, <3>4, <3>5 DEF Admissible, n
  <2>3. q[i + 1] \in untried'[i]
    BY <1>3, <1>5, <2>1, <2>2
  <2> QED  BY <1>2, <1>3, <2>1, <2>3 DEF StillAhead
<1>12. OnlyDeniedPaths' /\ FirstIsReported' /\ NoDeniedPathMissed'
  <2>1. \A m : Decided(m)' => Decided(m)
    BY <1>3 DEF Decided
  <2> QED  BY <1>1, <1>3, <2>1, ReportsKeep
<1>13. QED
  BY <1>7, <1>8, <1>9, <1>10, <1>11, <1>12 DEF SearchInv

LEMMA FollowInv ==
  ASSUME SearchInv, Extend, Admissible(NextTarget)
  PROVE  SearchInv'
<1> DEFINE L == Len(path)
           n == NextTarget
           k == Len(rule.relations)
<1>1. TypeOK /\ Next /\ UntriedIsOutgoing  BY DEF SearchInv, Next
<1>2. /\ graph' = graph /\ rule' = rule /\ DeniedPaths' = DeniedPaths
      /\ \A m, i : Outgoing(m, i)' = Outgoing(m, i)
  BY <1>1, NothingElse
<1>3. /\ path' \in Seq(graph.nodes) /\ Len(path') = L + 1
      /\ \A i \in 1..L : path'[i] = path[i]
      /\ path'[L + 1] = n
  BY <1>1, FollowFacts
<1>4. /\ untried' \in Seq(SUBSET Nat) /\ Len(untried') = L + 1
      /\ \A i \in 1..L - 1 : untried'[i] = untried[i]
      /\ untried'[L] = untried[L] \ {n}
      /\ untried'[L + 1] = Outgoing(n, L + 1)
      /\ starts' = starts /\ matches' = matches
  BY <1>1, FollowFacts
<1>5. /\ n \in Outgoing(path[L], L) /\ L \in 1..k
      /\ \A m \in untried[L] : n <= m
  BY <1>1, NextTargetFacts DEF Extend
<1>6. L \in Nat /\ k \in Nat  BY <1>1, TypeFacts
<1>7. /\ DOMAIN rule.via = 1..Len(rule.via) /\ DOMAIN path = 1..L
      /\ graph.nodes \subseteq Nat
  BY <1>1, TypeFacts
<1>8. \A i \in 1..L : untried[i] \subseteq Nat
  <2>1. untried \in Seq(SUBSET Nat) /\ Len(untried) = L  BY <1>1, TypeFacts
  <2> QED  BY <1>6, <2>1
<1>9. path # <<>> /\ path' # <<>>
  BY <1>3, <1>5 DEF Extend
<1>10. /\ n \in graph.nodes
       /\ \A i \in 1..L : path[i] # n
       /\ L \in DOMAIN rule.via => n \in rule.via[L]
  BY <1>7 DEF Admissible
<1>11. [from |-> path[L], relation |-> rule.relations[L], to |-> n] \in graph.edges
  BY <1>1, <1>5, OutgoingFacts
<1> HIDE DEF n
<1>12. TypeOK'
  BY <1>1, <1>2, <1>3, <1>4, <1>5, <1>6 DEF TypeOK
<1>13. PathFollowsRule'
  <2>1. path'[1] \in rule'.from
    BY <1>2, <1>3, <1>5, <1>9 DEF SearchInv, PathFollowsRule
  <2>2. ASSUME NEW i \in 1..L
        PROVE  /\ [from |-> path'[i], relation |-> rule.relations[i],
                   to |-> path'[i + 1]] \in graph.edges
               /\ i \in DOMAIN rule.via => path'[i + 1] \in rule.via[i]
    <3>1. CASE i = L
      <4>1. path'[i] = path[L] /\ path'[i + 1] = n  BY <1>3, <1>5, <3>1
      <4> QED  BY <1>10, <1>11, <3>1, <4>1
    <3>2. CASE i # L
      <4>1. i \in 1..L - 1 /\ i + 1 \in 1..L  BY <1>6, <3>2
      <4>2. path'[i] = path[i] /\ path'[i + 1] = path[i + 1]  BY <1>3, <4>1
      <4> QED  BY <4>1, <4>2 DEF SearchInv, PathFollowsRule
    <3> QED  BY <3>1, <3>2
  <2>3. \A i, j \in 1..L + 1 : i # j => path'[i] # path'[j]
    <3>1. \A i, j \in 1..L : i # j => path[i] # path[j]
      BY DEF SearchInv, PathFollowsRule
    <3>2. \A i \in 1..L + 1 : i \in 1..L \/ i = L + 1  BY <1>6
    <3>3. \A i \in 1..L : path'[i] = path[i] /\ path'[i] # n  BY <1>3, <1>10
    <3> QED  BY <1>3, <3>1, <3>2, <3>3
  <2>4. Len(path') - 1 = L  BY <1>3, <1>6
  <2> QED  BY <1>2, <1>3, <2>1, <2>2, <2>3, <2>4 DEF PathFollowsRule
<1>14. UntriedIsOutgoing'
  <2> SUFFICES ASSUME NEW i \in 1..L + 1
               PROVE  untried'[i] \subseteq Outgoing(path'[i], i)
    BY <1>2, <1>3 DEF UntriedIsOutgoing
  <2>1. CASE i = L + 1  BY <1>3, <1>4, <2>1
  <2>2. CASE i # L + 1
    <3>1. i \in 1..L  BY <1>6, <2>2
    <3>2. untried'[i] \subseteq untried[i]  BY <1>4, <1>6, <3>1
    <3>3. path'[i] = path[i]  BY <1>3, <3>1
    <3> QED  BY <1>1, <3>1, <3>2, <3>3 DEF UntriedIsOutgoing
  <2> QED  BY <2>1, <2>2
<1>15. UntriedComesLater'
  <2> SUFFICES ASSUME NEW i \in 1..L, NEW m \in untried'[i]
               PROVE  path'[i + 1] < m
    BY <1>3, <1>6 DEF UntriedComesLater
  <2>1. CASE i = L
    <3>1. m \in untried[L] /\ m # n  BY <1>4, <2>1
    <3>2. n <= m /\ m \in Nat /\ n \in Nat  BY <1>5, <1>7, <1>8, <1>10, <3>1
    <3> QED  BY <1>3, <2>1, <3>1, <3>2
  <2>2. CASE i # L
    <3>1. i \in 1..L - 1 /\ i + 1 \in 1..L  BY <1>6, <2>2
    <3>2. m \in untried[i] /\ path'[i + 1] = path[i + 1]  BY <1>3, <1>4, <3>1
    <3> QED  BY <3>1, <3>2 DEF SearchInv, UntriedComesLater
  <2> QED  BY <2>1, <2>2
<1>16. NothingSkipped'
  <2> SUFFICES ASSUME NEW q \in DeniedPaths, q[1] = path[1]
               PROVE  q = path' \/ StillAhead(q)'
    BY <1>2, <1>3, <1>5, <1>6, <1>9 DEF NothingSkipped
  <2>1. /\ q \in [1..k + 1 -> graph.nodes]
        /\ \A i \in 1..k :
             [from |-> q[i], relation |-> rule.relations[i], to |-> q[i + 1]]
               \in graph.edges
    BY <1>1, DeniedFacts
  <2>2. q # path
    <3>1. DOMAIN q = 1..k + 1  BY <2>1
    <3> QED  BY <1>5, <1>6, <1>7, <3>1
  <2>3. PICK i \in 1..L : /\ i <= k /\ q[i + 1] \in untried[i]
                          /\ \A j \in 1..i : q[j] = path[j]
    BY <1>9, <2>2 DEF SearchInv, NothingSkipped, StillAhead
  <2>4. CASE i # L \/ q[L + 1] # n
    <3>1. q[i + 1] \in untried'[i]
      <4>1. CASE i = L  BY <1>4, <2>3, <2>4, <4>1
      <4>2. CASE i # L
        <5>1. i \in 1..L - 1  BY <1>6, <4>2
        <5> QED  BY <1>4, <2>3, <5>1
      <4> QED  BY <4>1, <4>2
    <3>2. i \in 1..L + 1 /\ \A j \in 1..i : q[j] = path'[j]
      BY <1>3, <1>6, <2>3
    <3> QED  BY <1>2, <1>3, <2>3, <3>1, <3>2 DEF StillAhead
  <2>5. CASE i = L /\ q[L + 1] = n
    <3>1. \A j \in 1..L + 1 : q[j] = path'[j]
      BY <1>3, <1>6, <2>3, <2>5
    <3>2. CASE L = k
      <4>1. path' \in [1..k + 1 -> graph.nodes]
        BY <1>3, <1>6, <3>2
      <4> QED  BY <2>1, <3>1, <3>2, <4>1
    <3>3. CASE L # k
      <4>1. L + 1 \in 1..k  BY <1>5, <1>6, <3>3
      <4>2. q[L + 1 + 1] \in Outgoing(n, L + 1)
        BY <1>1, <2>1, <2>5, <4>1, OutgoingFacts
      <4>3. q[L + 1 + 1] \in untried'[L + 1]  BY <1>4, <4>2
      <4>4. L + 1 \in 1..Len(path')  BY <1>3, <1>6
      <4> QED  BY <1>2, <3>1, <4>1, <4>3, <4>4 DEF StillAhead
    <3> QED  BY <3>2, <3>3
  <2> QED  BY <2>4, <2>5
<1>17. OnlyDeniedPaths' /\ FirstIsReported' /\ NoDeniedPathMissed'
  <2>1. \A m : Decided(m)' => Decided(m)
    BY <1>3, <1>4, <1>5, <1>6, <1>9 DEF Decided
  <2> QED  BY <1>1, <1>4, <2>1, ReportsKeep
<1>18. QED
  BY <1>12, <1>13, <1>14, <1>15, <1>16, <1>17 DEF SearchInv

LEMMA BacktrackInv ==
  ASSUME SearchInv, Backtrack
  PROVE  SearchInv'
<1> DEFINE L == Len(path)
           k == Len(rule.relations)
<1>1. TypeOK /\ Next  BY DEF SearchInv, Next
<1>2. /\ graph' = graph /\ rule' = rule /\ DeniedPaths' = DeniedPaths
      /\ \A m, i : Outgoing(m, i)' = Outgoing(m, i)
  BY <1>1, NothingElse
<1>3. /\ path' \in Seq(graph.nodes) /\ Len(path') = L - 1
      /\ \A i \in 1..L - 1 : path'[i] = path[i]
      /\ untried' \in Seq(SUBSET Nat) /\ Len(untried') = L - 1
      /\ \A i \in 1..L - 1 : untried'[i] = untried[i]
      /\ starts' = starts /\ matches' = matches
  BY <1>1, BacktrackFacts
<1>4. untried[L] = {} /\ path # <<>> /\ ~(Full /\ Last(path) \in rule.to)
  BY <1>1, BacktrackFacts DEF Backtrack
<1>5. L \in Nat /\ k \in Nat /\ k >= 1 /\ L >= 1 /\ L <= k + 1
  BY <1>1, <1>4, TypeFacts
<1>6. \A q \in DeniedPaths : q[1] = path[1] =>
        \E i \in 1..L - 1 : /\ i <= k
                            /\ q[i + 1] \in untried[i]
                            /\ \A j \in 1..i : q[j] = path[j]
  <2> SUFFICES ASSUME NEW q \in DeniedPaths, q[1] = path[1]
               PROVE  \E i \in 1..L - 1 : /\ i <= k
                                          /\ q[i + 1] \in untried[i]
                                          /\ \A j \in 1..i : q[j] = path[j]
    OBVIOUS
  <2>1. /\ q \in [1..k + 1 -> graph.nodes]
        /\ q[k + 1] \in rule.to
    BY <1>1, DeniedFacts
  <2>2. q # path
    <3> SUFFICES ASSUME q = path PROVE FALSE  OBVIOUS
    <3>1. DOMAIN path = 1..L /\ DOMAIN path = 1..k + 1
      BY <1>1, <2>1, TypeFacts
    <3>2. L \in 1..k + 1 /\ k + 1 \in 1..L  BY <1>5, <3>1
    <3>3. L = k + 1  BY <1>5, <3>2
    <3> QED  BY <1>4, <2>1, <3>3 DEF Full, Last
  <2>3. PICK i \in 1..L : /\ i <= k /\ q[i + 1] \in untried[i]
                          /\ \A j \in 1..i : q[j] = path[j]
    BY <1>4, <2>2 DEF SearchInv, NothingSkipped, StillAhead
  <2>4. i # L  BY <1>4, <2>3
  <2>5. i \in 1..L - 1  BY <1>5, <2>4
  <2> QED  BY <2>3, <2>5
<1>7. TypeOK'
  BY <1>1, <1>2, <1>3, <1>5 DEF TypeOK
<1>8. PathFollowsRule'
  <2>1. ASSUME path' # <<>>  PROVE L - 1 >= 1
    BY <1>3, <1>5, <2>1
  <2>2. path' # <<>> => path'[1] \in rule.from
    BY <1>3, <1>4, <1>5, <2>1 DEF SearchInv, PathFollowsRule
  <2>3. ASSUME NEW i \in 1..Len(path') - 1
        PROVE  /\ [from |-> path'[i], relation |-> rule.relations[i],
                   to |-> path'[i + 1]] \in graph.edges
               /\ i \in DOMAIN rule.via => path'[i + 1] \in rule.via[i]
    <3>1. i \in 1..L - 1 /\ i + 1 \in 1..L - 1  BY <1>3, <1>5
    <3>2. path'[i] = path[i] /\ path'[i + 1] = path[i + 1]  BY <1>3, <3>1
    <3> QED  BY <3>1, <3>2 DEF SearchInv, PathFollowsRule
  <2>4. \A i, j \in 1..Len(path') : i # j => path'[i] # path'[j]
    BY <1>3, <1>5 DEF SearchInv, PathFollowsRule
  <2> QED  BY <1>2, <2>2, <2>3, <2>4 DEF PathFollowsRule
<1>9. UntriedIsOutgoing'
  BY <1>2, <1>3, <1>5 DEF SearchInv, UntriedIsOutgoing
<1>10. UntriedComesLater'
  <2> SUFFICES ASSUME NEW i \in 1..Len(path') - 1, NEW m \in untried'[i]
               PROVE  path'[i + 1] < m
    BY DEF UntriedComesLater
  <2>1. i \in 1..L - 1 /\ i + 1 \in 1..L - 1  BY <1>3, <1>5
  <2>2. path'[i + 1] = path[i + 1] /\ untried'[i] = untried[i]  BY <1>3, <2>1
  <2> QED  BY <2>1, <2>2 DEF SearchInv, UntriedComesLater
<1>11. NothingSkipped'
  <2> SUFFICES ASSUME NEW q \in DeniedPaths, path' # <<>>, q[1] = path'[1]
               PROVE  StillAhead(q)'
    BY <1>2 DEF NothingSkipped
  <2>1. L - 1 >= 1  BY <1>3, <1>5
  <2>2. path'[1] = path[1]  BY <1>3, <1>5, <2>1
  <2>3. PICK i \in 1..L - 1 : /\ i <= k /\ q[i + 1] \in untried[i]
                              /\ \A j \in 1..i : q[j] = path[j]
    BY <1>6, <2>2
  <2>4. q[i + 1] \in untried'[i]  BY <1>3, <2>3
  <2>5. \A j \in 1..i : q[j] = path'[j]  BY <1>3, <1>5, <2>3
  <2> QED  BY <1>2, <1>3, <2>3, <2>4, <2>5 DEF StillAhead
<1>12. OnlyDeniedPaths' /\ FirstIsReported' /\ NoDeniedPathMissed'
  <2>1. ASSUME NEW q \in DeniedPaths, Decided(q[1])'  PROVE Decided(q[1])
    <3>1. CASE q[1] # path[1]
      BY <1>3, <2>1, <3>1 DEF Decided
    <3>2. CASE q[1] = path[1]
      <4>1. L - 1 >= 1  BY <1>5, <1>6, <3>2
      <4>2. path' # <<>> /\ path'[1] = path[1]  BY <1>3, <1>5, <4>1
      <4> QED  BY <2>1, <3>2, <4>2 DEF Decided
    <3> QED  BY <3>1, <3>2
  <2> QED  BY <1>1, <1>3, <2>1, ReportsKeep
<1>13. QED
  BY <1>7, <1>8, <1>9, <1>10, <1>11, <1>12 DEF SearchInv

LEMMA FoundInv ==
  ASSUME SearchInv, Found
  PROVE  SearchInv'
<1> DEFINE L == Len(path)
           k == Len(rule.relations)
<1>1. TypeOK /\ Next  BY DEF SearchInv, Next
<1>2. /\ graph' = graph /\ rule' = rule /\ DeniedPaths' = DeniedPaths
      /\ \A m, i : Outgoing(m, i)' = Outgoing(m, i)
  BY <1>1, NothingElse
<1>3. /\ path' = <<>> /\ untried' = <<>> /\ starts' = starts
      /\ matches' = matches \cup {path}
  BY DEF Found
<1>4. /\ L = k + 1 /\ path[L] \in rule.to /\ path # <<>>
      /\ path \in Seq(graph.nodes)
  BY <1>1, TypeFacts DEF Found, Full, Last
<1>5. k \in Nat /\ k >= 1 /\ DOMAIN rule.via = 1..Len(rule.via)
      /\ Len(rule.via) \in {0, k - 1}
  BY <1>1, TypeFacts
<1>6. path \in DeniedPaths
  <2>1. path \in [1..k + 1 -> graph.nodes]  BY <1>4, <1>5
  <2>2. L - 1 = k  BY <1>4, <1>5
  <2>3. path[1] \in rule.from
    BY <1>4 DEF SearchInv, PathFollowsRule
  <2>4. \A i \in 1..k :
          [from |-> path[i], relation |-> rule.relations[i], to |-> path[i + 1]]
            \in graph.edges
    BY <2>2 DEF SearchInv, PathFollowsRule
  <2>5. \A i \in DOMAIN rule.via : path[i + 1] \in rule.via[i]
    <3>1. \A i \in DOMAIN rule.via : i \in 1..L - 1  BY <1>5, <2>2
    <3> QED  BY <3>1 DEF SearchInv, PathFollowsRule
  <2>6. \A i, j \in 1..k + 1 : i # j => path[i] # path[j]
    BY <1>4 DEF SearchInv, PathFollowsRule
  <2> HIDE DEF k, L
  <2> QED
    BY <1>1, <1>4, <2>1, <2>3, <2>4, <2>5, <2>6, DeniedFacts DEF k, L
<1>7. TypeOK'
  BY <1>1, <1>2, <1>3, <1>5 DEF TypeOK
<1>8. PathFollowsRule' /\ UntriedIsOutgoing' /\ UntriedComesLater' /\ NothingSkipped'
  BY <1>3
  DEF PathFollowsRule, UntriedIsOutgoing, UntriedComesLater, NothingSkipped
<1>9. OnlyDeniedPaths'
  BY <1>2, <1>3, <1>6 DEF SearchInv, OnlyDeniedPaths
<1>10. NoDeniedPathMissed'
  <2> SUFFICES ASSUME NEW q \in DeniedPaths, Decided(q[1])'
               PROVE  \E p \in matches' : p[1] = q[1]
    BY <1>2 DEF NoDeniedPathMissed
  <2>1. CASE q[1] = path[1]  BY <1>3, <2>1
  <2>2. CASE q[1] # path[1]
    <3>1. Decided(q[1])  BY <1>3, <2>2 DEF Decided
    <3> QED  BY <1>3, <3>1 DEF SearchInv, NoDeniedPathMissed
  <2> QED  BY <2>1, <2>2
<1>11. FirstIsReported'
  <2> SUFFICES ASSUME NEW p \in matches', NEW q \in DeniedPaths,
                      p[1] = q[1], p # q
               PROVE  \E i \in DOMAIN p : p[i] < q[i] /\ \A j \in 1..i - 1 : p[j] = q[j]
    BY <1>2 DEF FirstIsReported
  <2>1. CASE p \in matches
    BY <2>1 DEF SearchInv, FirstIsReported
  <2>2. CASE p = path
    <3>1. PICK i \in 1..L : /\ i <= k /\ q[i + 1] \in untried[i]
                            /\ \A j \in 1..i : q[j] = path[j]
      BY <1>4, <2>2 DEF SearchInv, NothingSkipped, StillAhead
    <3>2. i \in 1..L - 1  BY <1>4, <1>5, <3>1
    <3>3. path[i + 1] < q[i + 1]
      BY <3>1, <3>2 DEF SearchInv, UntriedComesLater
    <3>4. i + 1 \in DOMAIN path /\ i + 1 - 1 = i
      BY <1>4, <1>5, <3>2
    <3> QED  BY <2>2, <3>1, <3>3, <3>4
  <2> QED  BY <1>3, <2>1, <2>2
<1>12. QED
  BY <1>7, <1>8, <1>9, <1>10, <1>11 DEF SearchInv

-----------------------------------------------------------------------------
LEMMA NextInv == SearchInv /\ [Next]_vars => SearchInv'
<1> SUFFICES ASSUME SearchInv, [Next]_vars PROVE SearchInv'  OBVIOUS
<1>1. CASE Begin  BY <1>1, BeginInv
<1>2. CASE Extend  BY <1>2, SkipInv, FollowInv
<1>3. CASE Backtrack  BY <1>3, BacktrackInv
<1>4. CASE Found  BY <1>4, FoundInv
<1>5. CASE UNCHANGED vars
  <2>1. /\ graph' = graph /\ rule' = rule /\ starts' = starts
        /\ path' = path /\ untried' = untried /\ matches' = matches
    BY <1>5 DEF vars
  <2>2. TypeOK'  BY <2>1 DEF SearchInv, TypeOK
  <2>3. DeniedPaths' = DeniedPaths  BY <2>1 DEF DeniedPaths, Last
  <2>4. PathFollowsRule' /\ UntriedComesLater'
    BY <2>1 DEF SearchInv, PathFollowsRule, UntriedComesLater
  <2>5. UntriedIsOutgoing'
    BY <2>1 DEF SearchInv, UntriedIsOutgoing, Outgoing
  <2>6. NothingSkipped'
    BY <2>1, <2>3 DEF SearchInv, NothingSkipped, StillAhead
  <2>7. OnlyDeniedPaths' /\ FirstIsReported'
    BY <2>1, <2>3 DEF SearchInv, OnlyDeniedPaths, FirstIsReported
  <2>8. NoDeniedPathMissed'
    BY <2>1, <2>3 DEF SearchInv, NoDeniedPathMissed, Decided
  <2> QED
    BY <2>2, <2>4, <2>5, <2>6, <2>7, <2>8 DEF SearchInv
<1>6. QED  BY <1>1, <1>2, <1>3, <1>4, <1>5 DEF Next

\* The variables of the search keep their types.
THEOREM SearchTypeCorrect == Spec => []TypeOK
<1>1. SearchInv => TypeOK  BY DEF SearchInv
<1>2. QED  BY <1>1, InitInv, NextInv, PTL DEF Spec

\* Whatever is reported is a denied path.
THEOREM ReportsAreDenied == Spec => []OnlyDeniedPaths
<1>1. SearchInv => OnlyDeniedPaths  BY DEF SearchInv
<1>2. QED  BY <1>1, InitInv, NextInv, PTL DEF Spec

\* Every start from which a denied path leads is reported.
THEOREM NoneIsMissed == Spec => []NoDeniedPathMissed
<1>1. SearchInv => NoDeniedPathMissed  BY DEF SearchInv
<1>2. QED  BY <1>1, InitInv, NextInv, PTL DEF Spec

\* What is reported for a start is its first denied path, so that the report is a
\* function of the graph and the rule.
THEOREM TheFirstIsReported == Spec => []FirstIsReported
<1>1. SearchInv => FirstIsReported  BY DEF SearchInv
<1>2. QED  BY <1>1, InitInv, NextInv, PTL DEF Spec
=============================================================================
