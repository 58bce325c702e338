--------------------------- MODULE CaseFileProofs --------------------------
(***************************************************************************)
(* Proofs about what is read out of the trace, for every ledger and every  *)
(* order of its edges: each exchange the trace reached by value has a      *)
(* route of transactions on file that holds up, and the answers of a run   *)
(* only get nearer.                                                        *)
(*                                                                         *)
(* A route is the outcome of a search that goes round a loop, so facts     *)
(* about it are proved by induction on the rounds.  The induction itself   *)
(* is a lemma about sets of naturals, Induction: what it is used for is    *)
(* put in it as the set of rounds after which the fact holds.              *)
(***************************************************************************)
EXTENDS CaseFile, TraceGraphProofs, FiniteSetTheorems, SequenceTheorems

-----------------------------------------------------------------------------
(* Induction, from the order of the intervals 1..k by inclusion.           *)

LEMMA Least ==
  ASSUME NEW S, S \subseteq Nat, S # {}
  PROVE  \E m \in S : \A k \in S : m <= k
<1> DEFINE T == {1..k : k \in S}
           F == FiniteSubsetsOf(Nat)
           R == StrictSubsetOrdering(Nat)
<1>1. IsWellFoundedOn(R, F)
  BY FS_StrictSubsetOrderingWellFounded
<1>2. T \subseteq F
  <2>1. ASSUME NEW k \in S
        PROVE  1..k \in F
    <3>1. IsFiniteSet(1..k) /\ 1..k \in SUBSET Nat
      BY FS_Interval
    <3>2. QED BY <3>1 DEF FiniteSubsetsOf
  <2>2. QED BY <2>1
<1>3. T # {}
  OBVIOUS
<1> HIDE DEF T, F, R
<1>4. PICK x \in T : \A y \in T : ~ (<<y, x>> \in R)
  BY <1>1, <1>2, <1>3, WFMin
<1>5. PICK m \in S : x = 1..m
  BY DEF T
<1>6. ASSUME NEW k \in S, k < m
      PROVE  FALSE
  <2>1. 1..k \in T
    BY DEF T
  <2>2. 1..k \subseteq 1..m /\ 1..k # 1..m
    <3>1. m \in 1..m /\ m \notin 1..k
      BY <1>6
    <3>2. 1..k \subseteq 1..m
      BY <1>6
    <3>3. QED BY <3>1, <3>2
  <2>3. 1..k \in SUBSET Nat /\ 1..m \in SUBSET Nat
    OBVIOUS
  <2>4. <<1..k, 1..m>> \in R
    BY <2>2, <2>3 DEF R, StrictSubsetOrdering
  <2>5. QED BY <1>4, <1>5, <2>1, <2>4
<1>7. QED BY <1>6

LEMMA Induction ==
  ASSUME NEW S, 0 \in S, \A k \in Nat : k \in S => k + 1 \in S
  PROVE  Nat \subseteq S
<1> SUFFICES ASSUME Nat \ S # {}
             PROVE  FALSE
  OBVIOUS
<1>1. PICK m \in Nat \ S : \A k \in Nat \ S : m <= k
  BY Least
<1>2. m # 0 /\ m - 1 \in Nat
  OBVIOUS
<1>3. m - 1 \in S
  BY <1>1, <1>2
<1>4. QED BY <1>1, <1>2, <1>3

-----------------------------------------------------------------------------
(* The search.                                                             *)

\* The positions of a chain are finitely many.
LEMMA FinitelyManyPositions == IsFiniteSet(Node) /\ Cardinality(Node) \in Nat
<1>1. IsFiniteSet(Objectives \cup {Undirected})
  <2>1. IsFiniteSet(Direction)
    <3>1. IsFiniteSet({"backward"} \cup {"forward"})
      BY FS_Singleton, FS_AddElement
    <3>2. Direction = {"backward"} \cup {"forward"}
      BY DEF Direction
    <3>3. QED BY <3>1, <3>2
  <2>2. IsFiniteSet(Objectives)
    BY <2>1, FS_Subset, ObjectivesAssumption
  <2>3. QED BY <2>2, FS_AddElement
<1>2. IsFiniteSet(Node)
  BY <1>1, AddressAssumption, FS_Product DEF Node
<1>3. QED BY <1>2, FS_CardinalityType

\* The routes found after k rounds of the search.
Round(f, k, n, drawn) == IF k = 0 THEN {<<RootNode>>} ELSE Deeper(f[k - 1], n, drawn)

\* The loop of the search defines what it finds.
LEMMA SearchRounds ==
  ASSUME NEW n, NEW drawn
  PROVE  \E After : /\ Searched(n, drawn) = After[Cardinality(Node)]
                    /\ After = [k \in 0..Cardinality(Node) |-> Round(After, k, n, drawn)]
<1> DEFINE Defined(N) == \E f : f = [k \in 0..N |-> Round(f, k, n, drawn)]
           S == {N \in Nat : Defined(N)}
<1>1. 0 \in S
  <2> DEFINE f == [k \in 0..0 |-> {<<RootNode>>}]
  <2>1. f = [k \in 0..0 |-> Round(f, k, n, drawn)]
    BY DEF Round
  <2>2. QED BY <2>1
<1>2. ASSUME NEW N \in Nat, N \in S
      PROVE  N + 1 \in S
  <2>1. PICK f : f = [k \in 0..N |-> Round(f, k, n, drawn)]
    BY <1>2
  <2> DEFINE g == [k \in 0..(N + 1) |-> IF k = N + 1 THEN Deeper(f[N], n, drawn) ELSE f[k]]
  <2>2. \A k \in 0..N : g[k] = f[k]
    OBVIOUS
  <2>3. \A k \in 0..N : f[k] = Round(f, k, n, drawn)
    BY <2>1
  <2>4. \A k \in 0..(N + 1) : g[k] = Round(g, k, n, drawn)
    <3> SUFFICES ASSUME NEW k \in 0..(N + 1)
                 PROVE  g[k] = Round(g, k, n, drawn)
      OBVIOUS
    <3>1. CASE k = N + 1
      <4>1. g[k - 1] = f[N] /\ k # 0
        BY <2>2, <3>1
      <4>2. g[k] = Deeper(f[N], n, drawn)
        BY <3>1
      <4> HIDE DEF g
      <4>3. QED BY <4>1, <4>2 DEF Round
    <3>2. CASE k \in 0..N
      <4>1. k # 0 => k - 1 \in 0..N
        BY <3>2
      <4>2. g[k] = f[k] /\ (k # 0 => g[k - 1] = f[k - 1])
        BY <2>2, <3>2, <4>1
      <4> HIDE DEF g
      <4>3. QED BY <2>3, <3>2, <4>2 DEF Round
    <3>3. QED BY <3>1, <3>2
  <2>5. g = [k \in 0..(N + 1) |-> g[k]]
    OBVIOUS
  <2> HIDE DEF g
  <2>6. g = [k \in 0..(N + 1) |-> Round(g, k, n, drawn)]
    BY <2>4, <2>5
  <2>7. QED BY <2>6
<1> HIDE DEF Defined
<1>3. Nat \subseteq S
  BY <1>1, <1>2, Induction
<1>4. Defined(Cardinality(Node))
  BY <1>3, FinitelyManyPositions
<1> DEFINE After == CHOOSE f : f = [k \in 0..Cardinality(Node) |-> Round(f, k, n, drawn)]
<1>5. After = [k \in 0..Cardinality(Node) |-> Round(After, k, n, drawn)]
  BY <1>4 DEF Defined
<1>6. Searched(n, drawn) = After[Cardinality(Node)]
  BY DEF Searched, Round
<1>7. QED BY <1>5, <1>6

\* A fact that the subject's route has and every round keeps holds of what is found.
RoundsKeep(Good, n, drawn) ==
  /\ {<<RootNode>>} \in Good
  /\ \A some \in Good : Deeper(some, n, drawn) \in Good

LEMMA SearchKeeps ==
  ASSUME NEW n, NEW drawn, NEW Good, RoundsKeep(Good, n, drawn)
  PROVE  Searched(n, drawn) \in Good
<1>1. PICK After : /\ Searched(n, drawn) = After[Cardinality(Node)]
                   /\ After = [k \in 0..Cardinality(Node) |-> Round(After, k, n, drawn)]
  BY SearchRounds
<1>2. \A k \in 0..Cardinality(Node) : After[k] = Round(After, k, n, drawn)
  BY <1>1
<1> DEFINE S == {k \in Nat : k \in 0..Cardinality(Node) => After[k] \in Good}
<1>3. 0 \in S
  BY <1>2, FinitelyManyPositions DEF Round, RoundsKeep
<1>4. ASSUME NEW k \in Nat, k \in S
      PROVE  k + 1 \in S
  <2> SUFFICES ASSUME k + 1 \in 0..Cardinality(Node)
               PROVE  After[k + 1] \in Good
    OBVIOUS
  <2>1. k \in 0..Cardinality(Node) /\ k + 1 # 0 /\ k + 1 - 1 = k
    BY FinitelyManyPositions
  <2>2. After[k] \in Good
    BY <1>4, <2>1
  <2>3. After[k + 1] = Deeper(After[k], n, drawn)
    BY <1>2, <2>1 DEF Round
  <2>4. QED BY <2>2, <2>3 DEF RoundsKeep
<1>5. Nat \subseteq S
  BY <1>3, <1>4, Induction
<1>6. QED BY <1>1, <1>5, FinitelyManyPositions

\* A route that holds up while it is searched for.
Holding(route, drawn) ==
  /\ route \in Seq(Node) /\ Len(route) # 0
  /\ \A i \in 1..Len(route) :
       /\ i > 1 => Joined(route[i - 1], route[i], drawn)
       /\ i < Len(route) => route[i] = RootNode \/ Carries(route[i])

\* One round longer, it still does.
LEMMA LongerHolds ==
  ASSUME NEW drawn, NEW route, Holding(route, drawn), NEW next \in Node,
         Joined(route[Len(route)], next, drawn),
         route[Len(route)] = RootNode \/ Carries(route[Len(route)])
  PROVE  Holding(Append(route, next), drawn)
<1> DEFINE longer == Append(route, next)
<1>1. Len(route) \in Nat /\ route \in Seq(Node)
  BY DEF Holding
<1>2. /\ longer \in Seq(Node) /\ Len(longer) = Len(route) + 1
      /\ longer[Len(route) + 1] = next /\ \A i \in 1..Len(route) : longer[i] = route[i]
  BY <1>1, AppendProperties
<1> HIDE DEF longer
<1>3. ASSUME NEW i \in 1..Len(longer)
      PROVE  /\ i > 1 => Joined(longer[i - 1], longer[i], drawn)
             /\ i < Len(longer) => longer[i] = RootNode \/ Carries(longer[i])
  <2>1. CASE i = Len(route) + 1
    <3>1. i > 1 => longer[i - 1] = route[Len(route)]
      BY <1>1, <1>2, <2>1
    <3>2. QED BY <1>1, <1>2, <2>1, <3>1
  <2>2. CASE i \in 1..Len(route)
    <3>1. longer[i] = route[i] /\ (i > 1 => longer[i - 1] = route[i - 1])
      BY <1>1, <1>2, <2>2
    <3>2. CASE i < Len(route)
      BY <2>2, <3>1, <3>2 DEF Holding
    <3>3. CASE i = Len(route)
      BY <2>2, <3>1, <3>3 DEF Holding
    <3>4. QED BY <1>1, <2>2, <3>2, <3>3
  <2>3. QED BY <1>1, <1>2, <2>1, <2>2
<1>4. longer \in Seq(Node) /\ Len(longer) # 0
  BY <1>1, <1>2
<1>5. Holding(longer, drawn)
  BY <1>3, <1>4 DEF Holding
<1>6. QED BY <1>5 DEF longer

\* Whatever the search finds holds up.
LEMMA FoundHolds ==
  ASSUME NEW n, NEW drawn, NEW route \in Searched(n, drawn)
  PROVE  Holding(route, drawn)
<1> DEFINE Good == {some \in SUBSET Seq(Node) : \A r \in some : Holding(r, drawn)}
<1>1. {<<RootNode>>} \in Good
  <2>1. <<RootNode>> \in Seq(Node) /\ Len(<<RootNode>>) = 1 /\ <<RootNode>>[1] = RootNode
    BY RootIsNode
  <2>2. Holding(<<RootNode>>, drawn)
    BY <2>1 DEF Holding
  <2>3. QED BY <2>1, <2>2
<1>2. ASSUME NEW some \in Good
      PROVE  Deeper(some, n, drawn) \in Good
  <2>1. ASSUME NEW longer \in Longer(some, drawn)
        PROVE  Holding(longer, drawn)
    <3>1. PICK r \in some : \E next \in Node \ ToSet(r) :
            /\ longer = Append(r, next) /\ Joined(r[Len(r)], next, drawn)
            /\ r[Len(r)] = RootNode \/ Carries(r[Len(r)])
      BY <2>1 DEF Longer
    <3>2. QED BY <3>1, LongerHolds
  <2>2. Longer(some, drawn) \in Good
    BY <2>1 DEF Holding
  <2>3. QED BY <2>2 DEF Deeper
<1> HIDE DEF Good
<1>3. Searched(n, drawn) \in Good
  BY <1>1, <1>2, SearchKeeps DEF RoundsKeep
<1>4. QED BY <1>3 DEF Good

\* A way from the subject to n that the search may take, of h steps.
Leads(way, h, n, drawn) ==
  /\ way \in [0..h -> Node] /\ way[0] = RootNode /\ way[h] = n
  /\ \A i, j \in 0..h : way[i] = way[j] => i = j
  /\ \A i \in 1..h : Joined(way[i - 1], way[i], drawn)
  /\ \A i \in 0..h : i < h => way[i] = RootNode \/ Carries(way[i])

\* Its first k steps, as a route.
Upto(way, k) == [i \in 1..(k + 1) |-> way[i - 1]]

\* A way visits no position twice, so the search does not give up before its end.
LEMMA WaysAreShort ==
  ASSUME NEW h \in Nat, NEW way, NEW n, NEW drawn, Leads(way, h, n, drawn)
  PROVE  h < Cardinality(Node)
<1>1. way \in Injection(0..h, Node)
  BY DEF Leads, Injection, IsInjective
<1>2. Cardinality(0..h) <= Cardinality(Node)
  BY <1>1, FinitelyManyPositions, FS_Injection
<1>3. Cardinality(0..h) = h + 1
  BY FS_Interval
<1>4. QED BY <1>2, <1>3, FinitelyManyPositions

\* One round further along the way.
LEMMA NextAlong ==
  ASSUME NEW h \in Nat, NEW way, NEW n, NEW drawn, Leads(way, h, n, drawn),
         NEW k \in Nat, k < h, NEW some, Upto(way, k) \in some
  PROVE  Upto(way, k + 1) \in Longer(some, drawn)
<1> DEFINE route == Upto(way, k)
           next == way[k + 1]
<1>1. route \in Seq(Node) /\ Len(route) = k + 1 /\ \A i \in 1..(k + 1) : route[i] = way[i - 1]
  BY DEF Upto, Leads
<1>2. k \in 0..h /\ k + 1 \in 0..h /\ k + 1 \in 1..h /\ next \in Node
  BY DEF Leads
<1>3. next \notin ToSet(route)
  <2> SUFFICES ASSUME NEW i \in 1..(k + 1), next = route[i]
               PROVE  FALSE
    BY <1>1 DEF ToSet
  <2>1. i - 1 \in 0..h /\ way[i - 1] = way[k + 1]
    BY <1>1, <1>2
  <2>2. i - 1 = k + 1
    BY <1>2, <2>1 DEF Leads
  <2>3. QED BY <2>2
<1>4. route[Len(route)] = way[k]
  BY <1>1
<1>5. Joined(way[k], next, drawn) /\ (way[k] = RootNode \/ Carries(way[k]))
  <2>1. k + 1 - 1 = k
    OBVIOUS
  <2>2. QED BY <1>2, <2>1 DEF Leads
<1>6. Upto(way, k + 1) = Append(route, next)
  <2>1. /\ Append(route, next) \in Seq(Node) /\ Len(Append(route, next)) = k + 2
        /\ Append(route, next)[k + 2] = next
        /\ \A i \in 1..(k + 1) : Append(route, next)[i] = route[i]
    BY <1>1, <1>2, AppendProperties
  <2>2. /\ Upto(way, k + 1) \in Seq(Node) /\ Len(Upto(way, k + 1)) = k + 2
        /\ \A i \in 1..(k + 2) : Upto(way, k + 1)[i] = way[i - 1]
    BY DEF Upto, Leads
  <2> HIDE DEF route
  <2>3. \A i \in 1..(k + 2) : Append(route, next)[i] = way[i - 1]
    BY <1>1, <2>1
  <2>4. QED BY <2>1, <2>2, <2>3, SeqEqual
<1> HIDE DEF route, next
<1>7. Append(route, next) \in Longer(some, drawn)
  <2>1. route \in some
    BY DEF route
  <2>2. QED BY <1>2, <1>3, <1>4, <1>5, <2>1 DEF Longer
<1>8. QED BY <1>6, <1>7

\* If there is a way, the search finds one.
LEMMA SearchFinds ==
  ASSUME NEW h \in Nat, NEW way, NEW n, NEW drawn, Leads(way, h, n, drawn)
  PROVE  EndingAt(Searched(n, drawn), n) # {}
<1>1. PICK After : /\ Searched(n, drawn) = After[Cardinality(Node)]
                   /\ After = [k \in 0..Cardinality(Node) |-> Round(After, k, n, drawn)]
  BY SearchRounds
<1>2. \A k \in 0..Cardinality(Node) : After[k] = Round(After, k, n, drawn)
  BY <1>1
<1> DEFINE Found(k) == EndingAt(After[k], n) # {}
           Underway(k) == k <= h /\ Upto(way, k) \in After[k]
           S == {k \in Nat : k \in 0..Cardinality(Node) => Found(k) \/ Underway(k)}
<1>3. ASSUME Underway(h)
      PROVE  Found(h)
  <2>1. Upto(way, h)[Len(Upto(way, h))] = n
    BY DEF Upto, Leads
  <2>2. QED BY <1>3, <2>1 DEF EndingAt
<1>4. 0 \in S
  <2>1. Upto(way, 0) = <<RootNode>>
    BY DEF Upto, Leads
  <2>2. QED BY <1>2, <2>1, FinitelyManyPositions DEF Round
<1>5. ASSUME NEW k \in Nat, k \in S
      PROVE  k + 1 \in S
  <2> SUFFICES ASSUME k + 1 \in 0..Cardinality(Node)
               PROVE  Found(k + 1) \/ Underway(k + 1)
    OBVIOUS
  <2>1. k \in 0..Cardinality(Node) /\ k + 1 # 0 /\ k + 1 - 1 = k
    BY FinitelyManyPositions
  <2>2. After[k + 1] = Deeper(After[k], n, drawn)
    BY <1>2, <2>1 DEF Round
  <2>3. CASE Found(k)
    BY <2>2, <2>3 DEF Deeper
  <2>4. CASE ~Found(k) /\ Underway(k)
    <3>1. k < h
      BY <1>3, <2>4
    <3>2. After[k + 1] = Longer(After[k], drawn)
      BY <2>2, <2>4 DEF Deeper
    <3>3. Upto(way, k + 1) \in After[k + 1]
      BY <2>4, <3>1, <3>2, NextAlong
    <3>4. QED BY <3>1, <3>3
  <2>5. QED BY <1>5, <2>1, <2>3, <2>4
<1>6. Nat \subseteq S
  BY <1>4, <1>5, Induction
<1>7. Found(Cardinality(Node))
  <2>1. h < Cardinality(Node) /\ Cardinality(Node) \in 0..Cardinality(Node)
    BY WaysAreShort, FinitelyManyPositions
  <2>2. Found(Cardinality(Node)) \/ Underway(Cardinality(Node))
    BY <1>6, <2>1, FinitelyManyPositions
  <2>3. QED BY <2>1, <2>2, FinitelyManyPositions
<1>8. QED BY <1>1, <1>7

-----------------------------------------------------------------------------
(* The step of the trace, as the case file sees it.                        *)

RecordGrows ==
  /\ RowsStand /\ edges \subseteq edges'
  /\ \A f \in Finding : findings[f] <= findings'[f]
  /\ \A m \in Node : ~Present(m) => nodes'[m].state # "expanded"

LEMMA TraceGrows == IInv /\ [TraceNext]_traceVars => RecordGrows
<1> SUFFICES ASSUME IInv, [TraceNext]_traceVars
             PROVE  RecordGrows
  OBVIOUS
<1>1. RowsStand
  <2>1. CASE TraceNext
    BY <2>1, StepKeepsRows DEF RowsStand, traceVars
  <2>2. CASE UNCHANGED traceVars
    BY <2>2 DEF RowsStand, traceVars
  <2>3. QED BY <2>1, <2>2
<1>2. \A f \in Finding : findings[f] \in Nat
  BY DEF IInv, TypeOK
<1>3. CASE AdmitRoot
  <2>1. /\ edges' = edges /\ findings' = findings
        /\ \A m \in Node \ {RootNode} : nodes'[m] = nodes[m]
    BY <1>3 DEF AdmitRoot, IInv, TypeOK
  <2>2. nodes'[RootNode].state = "frontier"
    BY <1>3, RootIsNode DEF AdmitRoot, IInv, TypeOK, Absent
  <2>3. QED BY <1>1, <1>2, <2>1, <2>2 DEF RecordGrows, Present
<1>4. ASSUME NEW n \in Node, NEW depth \in Depths, ProcessNode(n, depth)
      PROVE  RecordGrows
  <2>1. PICK row, reached, speculative, filed :
          /\ Claim(n, row, reached, speculative)
          /\ Files(n, row, reached, filed) /\ Ends(n, row, reached) /\ File(filed)
    BY <1>4, FilingShape DEF IInv
  <2>2. UNCHANGED ledger
    BY <1>4, StepShape DEF IInv
  <2>3. Filing(n, row, reached, speculative, filed)
    BY <2>1, <2>2 DEF Filing
  <2>4. \A f \in Finding : findings[f] <= findings'[f]
    BY <1>2, <2>3, FindingsAfter
  <2>5. edges \subseteq edges'
    BY <2>1 DEF Claim, Settle
  <2>6. \A m \in Node : ~Present(m) => nodes'[m].state # "expanded"
    <3> SUFFICES ASSUME NEW m \in Node, ~Present(m)
                 PROVE  nodes'[m].state # "expanded"
      OBVIOUS
    <3>1. CASE m \in New(reached)
      BY <2>3, <3>1, AfterFiling
    <3>2. CASE m \notin New(reached)
      <4>1. m \notin reached
        BY <3>2 DEF New
      <4>2. nodes'[m] = nodes[m]
        BY <2>3, <4>1, AfterFiling
      <4>3. QED BY <4>2 DEF Present
    <3>3. QED BY <3>1, <3>2
  <2>7. QED BY <1>1, <2>4, <2>5, <2>6 DEF RecordGrows
<1>5. CASE \E claim \in Volatile : RefreshLabels(claim[1], claim[2])
  BY <1>1, <1>2, <1>5 DEF RefreshLabels, RecordGrows, Present
<1>6. CASE UNCHANGED traceVars
  BY <1>1, <1>2, <1>6 DEF traceVars, RecordGrows, Present
<1>7. QED BY <1>3, <1>4, <1>5, <1>6 DEF TraceNext

\* A traced node is reached along traced nodes, one hop at a time.
Chain(way, m) ==
  /\ way \in [0..nodes[m].hop -> Node]
  /\ way[0] = RootNode /\ way[nodes[m].hop] = m
  /\ \A i \in 0..nodes[m].hop : Traced(way[i]) /\ nodes[way[i]].hop = i
  /\ \A i \in 1..nodes[m].hop : <<way[i - 1], way[i]>> \in edges

LEMMA TracedChain ==
  ASSUME IInv, RootAlone, NEW m \in Node, Traced(m)
  PROVE  \E way : Chain(way, m)
<1> DEFINE S == {h \in Nat : \A n \in Node : Traced(n) /\ nodes[n].hop = h => \E way : Chain(way, n)}
<1>t. \A n \in Node : nodes[n].hop \in Nat
  BY RowFields DEF IInv, TypeOK
<1>1. 0 \in S
  <2> SUFFICES ASSUME NEW n \in Node, Traced(n), nodes[n].hop = 0
               PROVE  \E way : Chain(way, n)
    OBVIOUS
  <2>1. n = RootNode
    BY DEF RootAlone, Traced
  <2> DEFINE way == [i \in 0..0 |-> RootNode]
  <2>2. Chain(way, n)
    BY <2>1 DEF Chain
  <2>3. QED BY <2>2
<1>2. ASSUME NEW h \in Nat, h \in S
      PROVE  h + 1 \in S
  <2> SUFFICES ASSUME NEW n \in Node, Traced(n), nodes[n].hop = h + 1
               PROVE  \E way : Chain(way, n)
    OBVIOUS
  <2>1. n # RootNode
    BY DEF IInv, RootFirst
  <2>2. PICK p \in Node : TracedFrom(p, n)
    BY <2>1 DEF IInv, Provenance, NoLaundering
  <2>3. Traced(p) /\ nodes[p].hop = h /\ <<p, n>> \in edges
    BY <1>t, <2>2 DEF TracedFrom, Traced, Present
  <2>4. PICK way : Chain(way, p)
    BY <1>2, <2>3
  <2> DEFINE longer == [i \in 0..(h + 1) |-> IF i = h + 1 THEN n ELSE way[i]]
  <2>5. \A i \in 0..h : longer[i] = way[i] /\ way[i] \in Node
    BY <2>3, <2>4 DEF Chain
  <2>6. longer[h + 1] = n
    OBVIOUS
  <2>7. longer \in [0..(h + 1) -> Node]
    <3>1. \A i \in 0..(h + 1) : longer[i] \in Node
      BY <2>5, <2>6
    <3>2. QED BY <3>1
  <2> HIDE DEF longer
  <2>8. \A i \in 0..(h + 1) : Traced(longer[i]) /\ nodes[longer[i]].hop = i
    <3>1. \A i \in 0..h : Traced(longer[i]) /\ nodes[longer[i]].hop = i
      BY <2>3, <2>4, <2>5 DEF Chain
    <3>2. QED BY <2>6, <3>1
  <2>9. ASSUME NEW i \in 1..(h + 1)
        PROVE  <<longer[i - 1], longer[i]>> \in edges
    <3>1. CASE i = h + 1
      <4>1. longer[i - 1] = p
        BY <2>3, <2>4, <2>5, <3>1 DEF Chain
      <4>2. QED BY <2>3, <2>6, <3>1, <4>1
    <3>2. CASE i \in 1..h
      <4>1. i - 1 \in 0..h /\ i \in 0..h
        BY <3>2
      <4>2. QED BY <2>3, <2>4, <2>5, <3>2, <4>1 DEF Chain
    <3>3. QED BY <3>1, <3>2
  <2>10. longer[0] = RootNode
    BY <2>3, <2>4, <2>5 DEF Chain
  <2>11. Chain(longer, n)
    BY <2>6, <2>7, <2>8, <2>9, <2>10 DEF Chain
  <2>12. QED BY <2>11
<1> HIDE DEF S
<1>3. Nat \subseteq S
  BY <1>1, <1>2, Induction
<1>4. QED BY <1>t, <1>3 DEF S

-----------------------------------------------------------------------------
(* The evidence.                                                           *)

Shown == routes \in [Node -> Seq(Node)] /\ EvidenceHolds

\* Beyond the subject, an exchange is newly named exactly by the step that ends
\* a branch at it.
LEMMA NamedOnce ==
  ASSUME IInv, Accounted, IInv', Accounted', RecordGrows, NEW n \in Node \ {RootNode}
  PROVE  n \in NewlyNamed <=> (nodes'[n].reason = "vasp" /\ nodes[n].reason # "vasp")
<1> DEFINE f == <<"vasp", n>>
<1>1. f \in Finding
  BY DEF Finding, Kind
<1>2. findings[f] \in Nat /\ findings'[f] \in Nat /\ findings[f] <= findings'[f] /\ findings'[f] <= 1
  BY <1>1 DEF IInv, TypeOK, Accounted, FiledOnce, RecordGrows
<1>3. findings[f] > 0 <=> nodes[n].reason = "vasp"
  BY DEF Accounted, BranchesEndAtVasp
<1>4. findings'[f] > 0 <=> nodes'[n].reason = "vasp"
  BY DEF Accounted, BranchesEndAtVasp
<1>5. n \in NewlyNamed <=> findings'[f] > findings[f]
  BY DEF NewlyNamed
<1> HIDE DEF f
<1>6. QED BY <1>2, <1>3, <1>4, <1>5

\* A way was there to be found when a traced exchange was filed, in whatever
\* order its edges were drawn.
LEMMA WayToNewlyNamed ==
  ASSUME IInv, Accounted, IInv', RecordGrows,
         NEW n \in Node \ {RootNode}, (Traced(n))',
         NEW drawn \in SUBSET (edges' \ edges), {e \in edges' \ edges : e[2] = n} \subseteq drawn
  PROVE  \E h \in Nat : \E way : Leads(way, h, n, edges \cup drawn)
<1>1. PICK p \in Node : /\ <<p, n>> \in edges' /\ nodes'[p].state = "expanded"
                        /\ ~nodes'[p].speculative /\ nodes'[n].hop = nodes'[p].hop + 1
  BY DEF IInv, Provenance, NoLaundering, Traced, TracedFrom, Present
<1>2. Traced(p) /\ nodes'[p].hop = nodes[p].hop
  BY <1>1 DEF RecordGrows, RowsStand, Traced
<1>3. PICK way : Chain(way, p)
  BY <1>2, TracedChain DEF Accounted
<1> DEFINE h == nodes[p].hop
           longer == [i \in 0..(h + 1) |-> IF i = h + 1 THEN n ELSE way[i]]
<1>4. h \in Nat
  BY RowFields DEF IInv, TypeOK
<1>5. \A i \in 0..h : /\ way[i] \in Node /\ ~nodes'[way[i]].speculative
                      /\ nodes'[way[i]].hop = i /\ nodes[way[i]].hop = i
  BY <1>3 DEF Chain, RecordGrows, RowsStand, Traced
<1>6. \A i \in 0..h : longer[i] = way[i]
  BY <1>4
<1>7. longer[h + 1] = n
  BY <1>4
<1>8. longer \in [0..(h + 1) -> Node]
  <2>1. \A i \in 0..(h + 1) : longer[i] \in Node
    BY <1>4, <1>5, <1>6, <1>7
  <2>2. QED BY <2>1
<1> HIDE DEF longer
<1>9. \A i \in 0..(h + 1) : nodes'[longer[i]].hop = i
  <2>1. nodes'[n].hop = h + 1
    BY <1>1, <1>2
  <2> HIDE DEF h
  <2>2. QED BY <1>4, <1>5, <1>6, <1>7, <2>1
<1>10. \A i, j \in 0..(h + 1) : longer[i] = longer[j] => i = j
  BY <1>9
<1>11. ASSUME NEW i \in 1..(h + 1)
       PROVE  Joined(longer[i - 1], longer[i], edges \cup drawn)
  <2>1. CASE i = h + 1
    <3>1. longer[i - 1] = p
      BY <1>3, <1>4, <1>6, <2>1 DEF Chain
    <3>2. <<p, n>> \in edges \cup drawn
      BY <1>1
    <3>3. QED BY <1>7, <2>1, <3>1, <3>2 DEF Joined
  <2>2. CASE i \in 1..h
    <3>1. i - 1 \in 0..h /\ i \in 0..h
      BY <1>4, <2>2
    <3>2. <<way[i - 1], way[i]>> \in edges
      BY <1>3, <2>2 DEF Chain
    <3>3. QED BY <1>6, <3>1, <3>2 DEF Joined
  <2>3. QED BY <1>4, <2>1, <2>2
<1>12. \A i \in 0..(h + 1) : i < h + 1 => Carries(longer[i])
  BY <1>4, <1>5, <1>6 DEF Carries
<1>13. longer[0] = RootNode
  BY <1>3, <1>4, <1>6 DEF Chain
<1>14. Leads(longer, h + 1, n, edges \cup drawn)
  BY <1>7, <1>8, <1>10, <1>11, <1>12, <1>13 DEF Leads
<1>15. h + 1 \in Nat
  BY <1>4
<1>16. QED BY <1>14, <1>15

\* What is filed with a newly named exchange.
LEMMA FiledRoute ==
  ASSUME IInv, Accounted, IInv', RecordGrows, FileRoutes, NEW n \in NewlyNamed
  PROVE  /\ routes'[n] = <<>> \/ Holding(routes'[n], edges')
         /\ n # RootNode /\ (Traced(n))' => routes'[n] # <<>>
<1>1. n \in Node /\ routes'[n] \in Findable(n)
  BY DEF FileRoutes, NewlyNamed
<1>2. PICK drawn \in SUBSET (edges' \ edges) :
        /\ {e \in edges' \ edges : e[2] = n} \subseteq drawn
        /\ routes'[n] \in ShortestTo(n, edges \cup drawn)
  BY <1>1 DEF Findable
<1> DEFINE found == EndingAt(Searched(n, edges \cup drawn), n)
<1>3. routes'[n] \in IF n = RootNode \/ found = {} THEN {<<>>} ELSE found
  BY <1>2 DEF ShortestTo
<1>4. ASSUME routes'[n] \in found
      PROVE  Holding(routes'[n], edges') /\ routes'[n] # <<>>
  <2>1. Holding(routes'[n], edges \cup drawn)
    BY <1>4, FoundHolds DEF EndingAt
  <2>2. edges \cup drawn \subseteq edges'
    BY DEF RecordGrows
  <2>3. QED BY <2>1, <2>2 DEF Holding, Joined
<1>5. ASSUME n # RootNode, (Traced(n))'
      PROVE  found # {}
  <2>1. PICK h \in Nat : \E way : Leads(way, h, n, edges \cup drawn)
    BY <1>1, <1>2, <1>5, WayToNewlyNamed
  <2>2. QED BY <2>1, SearchFinds
<1>6. QED BY <1>3, <1>4, <1>5

LEMMA StepShown == IInv /\ Accounted /\ Shown /\ [CaseNext]_caseVars => Shown'
<1> SUFFICES ASSUME IInv, Accounted, Shown, [CaseNext]_caseVars
             PROVE  Shown'
  OBVIOUS
<1>1. CASE UNCHANGED caseVars
  BY <1>1 DEF Shown, EvidenceHolds, RoutesHoldUp, TracedExchangesAreShown, Joined, caseVars, traceVars
<1>2. CASE CaseNext
  <2>1. [TraceNext]_traceVars /\ FileRoutes
    BY <1>2 DEF CaseNext
  <2>2. IInv' /\ Accounted' /\ RecordGrows
    BY <2>1, StepInvariant, StepAccounted, TraceGrows
  <2>3. /\ \A n \in NewlyNamed : n \in Node
        /\ \A n \in Node \ NewlyNamed : routes'[n] = routes[n]
        /\ DOMAIN routes' = Node
    BY <2>1 DEF FileRoutes, NewlyNamed
  <2>4. \A n \in NewlyNamed : routes'[n] = <<>> \/ Holding(routes'[n], edges')
    BY <2>1, <2>2, FiledRoute
  <2>5. routes' \in [Node -> Seq(Node)]
    <3>1. \A n \in Node : routes'[n] \in Seq(Node)
      <4>1. \A n \in NewlyNamed : routes'[n] \in Seq(Node)
        <5>1. <<>> \in Seq(Node) /\ \A route : Holding(route, edges') => route \in Seq(Node)
          BY DEF Holding
        <5>2. QED BY <2>4, <5>1
      <4>2. \A n \in Node \ NewlyNamed : routes'[n] \in Seq(Node)
        BY <2>3 DEF Shown
      <4>3. QED BY <4>1, <4>2
    <3>2. routes' = [n \in Node |-> routes'[n]]
      BY <2>1 DEF FileRoutes
    <3>3. QED BY <3>1, <3>2
  <2>6. ASSUME NEW n \in Node, NEW i \in 1..Len(routes'[n])
        PROVE  /\ i > 1 => Joined(routes'[n][i - 1], routes'[n][i], edges')
               /\ i < Len(routes'[n]) => ~nodes'[routes'[n][i]].speculative
    <3>1. CASE n \in NewlyNamed
      <4>1. Holding(routes'[n], edges')
        BY <2>4, <2>6, <3>1
      <4>2. ~nodes'[RootNode].speculative
        BY <2>2 DEF IInv, RootFirst
      <4>3. QED BY <2>6, <4>1, <4>2 DEF Holding, Carries
    <3>2. CASE n \notin NewlyNamed
      <4> DEFINE route == routes[n]
      <4>1. routes'[n] = route /\ route \in Seq(Node) /\ Len(route) \in Nat
        BY <2>3, <3>2 DEF Shown
      <4>2. \A j \in 1..Len(route) : /\ j > 1 => Joined(route[j - 1], route[j], edges)
                                     /\ j < Len(route) => ~nodes[route[j]].speculative
        BY DEF Shown, EvidenceHolds, RoutesHoldUp
      <4> HIDE DEF route
      <4>3. i > 1 => Joined(route[i - 1], route[i], edges')
        BY <2>2, <2>6, <4>1, <4>2 DEF RecordGrows, Joined
      <4>4. ASSUME i < Len(route)
            PROVE  ~nodes'[route[i]].speculative
        <5>1. i + 1 \in 1..Len(route) /\ i + 1 > 1 /\ i + 1 - 1 = i
          BY <2>6, <4>1, <4>4
        <5>2. Joined(route[i], route[i + 1], edges)
          BY <4>2, <5>1
        <5>3. Present(route[i]) /\ route[i] \in Node
          BY <2>6, <4>1, <5>2 DEF Joined, IInv, Tidy
        <5>4. QED BY <2>2, <2>6, <4>1, <4>2, <4>4, <5>3 DEF RecordGrows, RowsStand
      <4>5. QED BY <4>1, <4>3, <4>4
    <3>3. QED BY <3>1, <3>2
  <2>7. ASSUME NEW n \in Node \ {RootNode}, nodes'[n].reason = "vasp", ~nodes'[n].speculative
        PROVE  routes'[n] # <<>>
    <3>1. CASE n \in NewlyNamed
      <4>1. nodes'[n].state # "absent"
        BY <2>2, <2>7 DEF IInv, Tidy, Present, Absent
      <4>2. (Traced(n))'
        BY <2>7, <4>1 DEF Traced, Present
      <4>3. QED BY <2>1, <2>2, <3>1, <4>2, FiledRoute
    <3>2. CASE n \notin NewlyNamed
      <4>1. nodes[n].reason = "vasp"
        BY <2>2, <2>7, <3>2, NamedOnce
      <4>2. Present(n)
        BY <4>1 DEF IInv, Tidy, Absent
      <4>3. ~nodes[n].speculative
        BY <2>2, <2>7, <4>2 DEF RecordGrows, RowsStand
      <4>4. routes[n] # <<>>
        BY <4>1, <4>3 DEF Shown, EvidenceHolds, TracedExchangesAreShown
      <4>5. QED BY <2>3, <3>2, <4>4
    <3>3. QED BY <3>1, <3>2
  <2>8. RoutesHoldUp'
    BY <2>6 DEF RoutesHoldUp
  <2>9. TracedExchangesAreShown'
    BY <2>7 DEF TracedExchangesAreShown
  <2>10. QED BY <2>5, <2>8, <2>9 DEF Shown, EvidenceHolds
<1>3. QED BY <1>1, <1>2

LEMMA InitShown == CaseInit => IInv /\ Accounted /\ Shown
<1> SUFFICES ASSUME CaseInit
             PROVE  IInv /\ Accounted /\ Shown
  OBVIOUS
<1>1. IInv /\ Accounted
  BY InitInvariant, InitAccounted DEF CaseInit
<1>2. \A n \in Node : routes[n] = <<>> /\ Len(routes[n]) = 0 /\ routes[n] \in Seq(Node)
  BY DEF CaseInit
<1>3. \A n \in Node : nodes[n] = Absent
  BY DEF CaseInit, TraceInit
<1>4. TracedExchangesAreShown
  BY <1>3 DEF TracedExchangesAreShown, Absent
<1>5. RoutesHoldUp
  BY <1>2 DEF RoutesHoldUp
<1>6. QED BY <1>1, <1>2, <1>4, <1>5 DEF Shown, EvidenceHolds, CaseInit

\* The trace's invariants hold of the case file, and the evidence with them.
THEOREM CaseInvariant == CaseSpec => [](IInv /\ Accounted /\ Shown)
<1>1. [CaseNext]_caseVars => [TraceNext]_traceVars
  BY DEF CaseNext, caseVars, traceVars
<1>2. IInv /\ Accounted /\ Shown /\ [CaseNext]_caseVars => (IInv /\ Accounted /\ Shown)'
  BY <1>1, StepInvariant, StepAccounted, StepShown
<1>3. QED BY <1>2, InitShown, PTL DEF CaseSpec

\* Every exchange reached by value has a route on file; its links are on record
\* and it passes through no guess.
THEOREM EvidenceIsSound == CaseSpec => []EvidenceHolds
<1>1. Shown => EvidenceHolds
  BY DEF Shown
<1>2. QED BY <1>1, CaseInvariant, PTL

-----------------------------------------------------------------------------
(* The answers.                                                            *)

\* Closest, before and after a step alike: the hops are a parameter.
Nearest(some, hop) ==
  {e \in some : \A f \in some : \/ hop[e] < hop[f]
                                \/ hop[e] = hop[f] /\ (~Named(e) \/ Named(f))}

LEMMA NearestEndpoints ==
  ASSUME NEW some, NEW hop \in [some -> Nat]
  PROVE  /\ some # {} => Nearest(some, hop) # {}
         /\ \A f \in Nearest(some, hop) : f \in some /\ \A e \in some : hop[f] <= hop[e]
<1>1. ASSUME some # {}
      PROVE  Nearest(some, hop) # {}
  <2> DEFINE hops == {hop[e] : e \in some}
  <2>1. hops \subseteq Nat /\ hops # {}
    BY <1>1
  <2>2. PICK least \in hops : \A h \in hops : least <= h
    BY <2>1, Least
  <2> DEFINE near == {e \in some : hop[e] = least}
  <2>3. near # {}
    OBVIOUS
  <2>4. PICK e \in near : ~Named(e) \/ \A f \in near : Named(f)
    BY <2>3
  <2>5. \A f \in some : hop[e] < hop[f] \/ (hop[e] = hop[f] /\ (~Named(e) \/ Named(f)))
    <3> SUFFICES ASSUME NEW f \in some, ~(hop[e] < hop[f])
                 PROVE  hop[e] = hop[f] /\ (~Named(e) \/ Named(f))
      OBVIOUS
    <3>1. hop[e] = hop[f]
      BY <2>2
    <3>2. f \in near
      BY <3>1
    <3>3. QED BY <2>4, <3>1, <3>2
  <2>6. QED BY <2>5 DEF Nearest
<1>2. \A f \in Nearest(some, hop) : f \in some /\ \A e \in some : hop[f] <= hop[e]
  BY DEF Nearest
<1>3. QED BY <1>1, <1>2

\* An endpoint on record stays on record, as traced and as near as it was.
LEMMA EndpointsStay ==
  ASSUME IInv, Accounted, IInv', RecordGrows, NEW d \in Objectives, NEW e \in TracedEndpoints(d)
  PROVE  e \in TracedEndpoints(d)' /\ nodes'[e[2]].hop = Hop(e)
<1>1. /\ e \in {"vasp", "service"} \X {n \in Node : n[2] = d} /\ findings[e] > 0
      /\ ~nodes[e[2]].speculative
  BY DEF TracedEndpoints, Endpoints
<1>2. e \in Finding /\ e[1] \in Kind /\ e[2] \in Node /\ e = <<e[1], e[2]>>
  BY <1>1 DEF Finding, Kind
<1>3. findings[e] \in Nat /\ findings'[e] \in Nat /\ findings[e] <= findings'[e]
  BY <1>2 DEF IInv, TypeOK, RecordGrows
<1>4. Present(e[2])
  <2>1. findings[<<e[1], e[2]>>] # 0
    BY <1>1, <1>2
  <2>2. QED BY <1>2, <2>1 DEF Accounted, NothingFiledEarly
<1>5. nodes'[e[2]].hop = nodes[e[2]].hop /\ nodes'[e[2]].speculative = nodes[e[2]].speculative
  BY <1>2, <1>4 DEF RecordGrows, RowsStand
<1>6. findings'[e] > 0
  BY <1>1, <1>3
<1>7. QED BY <1>1, <1>5, <1>6 DEF TracedEndpoints, Endpoints, Hop

LEMMA StepImproves ==
  IInv /\ Accounted /\ IInv' /\ [CaseNext]_caseVars => [AnswersImprove]_caseVars
<1> SUFFICES ASSUME IInv, Accounted, IInv', [CaseNext]_caseVars
             PROVE  AnswersImprove
  OBVIOUS
<1>1. RecordGrows
  <2>1. [TraceNext]_traceVars
    BY DEF CaseNext, caseVars, traceVars
  <2>2. QED BY <2>1, TraceGrows
<1> SUFFICES ASSUME NEW d \in Objectives
             PROVE  /\ \A e \in Answer(d).nearest :
                         /\ Answer(d).nearest' # {}
                         /\ \A f \in Answer(d).nearest' : nodes'[f[2]].hop <= Hop(e)
                    /\ \A e \in Answer(d).nearestNamed : \E f \in Answer(d).nearestNamed' :
                         nodes'[f[2]].hop <= Hop(e)
                    /\ Answer(d).nearest # {} => Answer(d).bestEffort' = {}
  BY DEF AnswersImprove
<1> DEFINE old == TracedEndpoints(d)
           new == TracedEndpoints(d)'
           oldNamed == {e \in old : Named(e)}
           newNamed == {e \in new : Named(e)}
           hop == [e \in new |-> nodes'[e[2]].hop]
           namedHop == [e \in newNamed |-> nodes'[e[2]].hop]
<1>2. \A e \in old : e \in new /\ nodes'[e[2]].hop = Hop(e)
  BY <1>1, EndpointsStay
<1>3. hop \in [new -> Nat] /\ namedHop \in [newNamed -> Nat]
  <2>1. \A e \in new : e[2] \in Node
    BY DEF TracedEndpoints, Endpoints
  <2>2. \A e \in new : nodes'[e[2]].hop \in Nat
    BY <2>1, RowFields DEF IInv, TypeOK
  <2> HIDE DEF new
  <2>3. QED BY <2>2
<1>4. /\ Answer(d).nearest = Closest(old) /\ Answer(d).nearestNamed = Closest(oldNamed)
      /\ Answer(d).nearest' = Nearest(new, hop) /\ Answer(d).nearestNamed' = Nearest(newNamed, namedHop)
      /\ new # {} => Answer(d).bestEffort' = {}
  BY DEF Answer, Closest, Nearest, Hop
<1>5. Closest(old) \subseteq old /\ Closest(oldNamed) \subseteq oldNamed
  BY DEF Closest
<1> HIDE DEF old, new
<1>6. /\ new # {} => Nearest(new, hop) # {}
      /\ \A f \in Nearest(new, hop) : f \in new /\ \A e \in new : hop[f] <= hop[e]
  BY <1>3, NearestEndpoints
<1>7. /\ newNamed # {} => Nearest(newNamed, namedHop) # {}
      /\ \A f \in Nearest(newNamed, namedHop) :
           f \in newNamed /\ \A e \in newNamed : namedHop[f] <= namedHop[e]
  BY <1>3, NearestEndpoints
<1>8. \A e \in oldNamed : e \in newNamed /\ nodes'[e[2]].hop = Hop(e)
  BY <1>2
<1>9. ASSUME NEW e \in Closest(old)
      PROVE  /\ Nearest(new, hop) # {}
             /\ \A f \in Nearest(new, hop) : nodes'[f[2]].hop <= Hop(e)
  BY <1>2, <1>5, <1>6
<1>10. ASSUME NEW e \in Closest(oldNamed)
       PROVE  \E f \in Nearest(newNamed, namedHop) : nodes'[f[2]].hop <= Hop(e)
  BY <1>5, <1>7, <1>8
<1>11. QED BY <1>2, <1>4, <1>5, <1>9, <1>10

\* As a run goes on, and is resumed, its answers only get nearer.
THEOREM AnswersGetNearer == CaseSpec => AnswersOnlyImprove
BY CaseInvariant, StepImproves, PTL DEF CaseSpec, AnswersOnlyImprove

=============================================================================
