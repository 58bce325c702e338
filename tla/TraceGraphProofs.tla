-------------------------- MODULE TraceGraphProofs --------------------------
(***************************************************************************)
(* Proofs about the graph of one investigation, for every ledger, every    *)
(* label index and every choice of thresholds.                             *)
(*                                                                         *)
(* The argument has two halves.  StepShape reduces the four things a       *)
(* claimed node can meet to one formula, Claim, that keeps only what the   *)
(* invariants look at.  Each conjunct of the inductive invariant is then   *)
(* preserved by Claim, and Claim is all that is ever unfolded.             *)
(*                                                                         *)
(* A second part is about what the trace files: no finding twice, an       *)
(* exchange exactly where a branch ended at one, and a coverage statement  *)
(* the ledger bears out.  It adds a second invariant, Accounted, that      *)
(* follows what is filed when; FilingShape is the counterpart there of     *)
(* StepShape, and keeps of a claim's step which findings it files and whom *)
(* it reaches.                                                             *)
(***************************************************************************)
EXTENDS TraceGraph, TLAPS

\* Nothing is in the record before the subject is; the subject is a traced node
\* at distance 0.
RootFirst ==
  /\ (\E n \in Node : Present(n)) => Present(RootNode)
  /\ nodes[RootNode].hop = 0 /\ ~nodes[RootNode].speculative

\* A frontier row has no reason to have ended, an absent row says nothing, and
\* edges leave only nodes that were claimed, for nodes that exist.
Tidy ==
  /\ \A n \in Node : Present(n) \/ nodes[n] = Absent
  /\ \A n \in Frontier : nodes[n].reason = "none"
  /\ \A e \in edges : e[1] \notin Frontier /\ Present(e[1]) /\ Present(e[2])

\* Traced nodes lie within one hop of every traced frontier node: the search
\* advances level by level.
HopBand ==
  \A m, n \in Node :
    Traced(m) /\ ~nodes[n].speculative /\ n \in Frontier => nodes[m].hop <= nodes[n].hop + 1

IInv == TypeOK /\ RootFirst /\ Tidy /\ HopBand /\ Provenance /\ CleanFirst /\ NearestFirst

\* What the claim of n does to the graph, whichever branch it meets: a close
\* reaches nothing, a crossing guesses, an expansion inherits n's speculation.
Closes(row, reached) == row.state = "terminal" /\ row.reason # "mixer_crossed" /\ reached = {}

Crosses(row, reached, speculative) ==
  /\ row.state = "terminal" /\ row.reason = "mixer_crossed"
  /\ speculative = TRUE
  /\ \A m \in reached : m[1] # Root /\ m[2] \in Objectives
                        /\ (Present(m) => nodes[m].speculative)

Expands(n, row, reached, speculative) ==
  /\ row.state = "expanded" /\ row.reason = "none"
  /\ speculative = nodes[n].speculative
  /\ \A m \in reached : \/ m = RootNode
                        \/ /\ m[1] # Root /\ m[2] \in Objectives
                           /\ n = RootNode \/ m[2] = n[2]

Claim(n, row, reached, speculative) ==
  /\ n \in Node /\ Claimable(n)
  /\ row \in NodeRow /\ reached \in SUBSET Node /\ speculative \in BOOLEAN
  /\ row.hop = nodes[n].hop /\ row.speculative = nodes[n].speculative
  /\ \/ Closes(row, reached)
     \/ Crosses(row, reached, speculative)
     \/ Expands(n, row, reached, speculative)
  /\ Settle(n, row, reached, speculative)

-----------------------------------------------------------------------------

\* The subject's position is a position.
LEMMA RootIsNode == RootNode \in Node
  BY RootAssumption DEF RootNode, Node

\* Records of the nodes table have the fields the proofs read.
LEMMA RowFields ==
  ASSUME NEW row \in NodeRow
  PROVE  /\ row.state \in State /\ row.reason \in Reason /\ row.hop \in Nat
         /\ row.speculative \in BOOLEAN
  BY DEF NodeRow

LEMMA AbsentRow == Absent \in NodeRow /\ Absent.state = "absent"
  BY DEF Absent, NodeRow, State, Reason

\* The marks an expansion and a crossing of n leave on its row.
Grown(row, n, seen) ==
  [row EXCEPT !.state = "expanded", !.truncated = n[1] \in Busy, !.capped = Overflowing(n, seen) # {}]

Cut(row, n) == [row EXCEPT !.truncated = n[1] \in Busy]

\* An expansion rewrites what its EXCEPT names and nothing else of the row.
LEMMA ExpandedRow ==
  ASSUME NEW row \in NodeRow, NEW n, NEW seen
  PROVE  /\ Grown(row, n, seen) \in NodeRow
         /\ Grown(row, n, seen).state = "expanded"
         /\ Grown(row, n, seen).truncated <=> n[1] \in Busy
         /\ Grown(row, n, seen).capped <=> Overflowing(n, seen) # {}
         /\ Grown(row, n, seen).reason = row.reason
         /\ Grown(row, n, seen).hop = row.hop
         /\ Grown(row, n, seen).speculative = row.speculative
<1> DEFINE truncated == n[1] \in Busy
           capped == Overflowing(n, seen) # {}
           grown == [row EXCEPT !.state = "expanded", !.truncated = truncated, !.capped = capped]
<1>1. truncated \in BOOLEAN /\ capped \in BOOLEAN
  OBVIOUS
<1>2. /\ grown \in NodeRow /\ grown.state = "expanded"
      /\ grown.truncated = truncated /\ grown.capped = capped
      /\ grown.reason = row.reason
      /\ grown.hop = row.hop /\ grown.speculative = row.speculative
  <2> HIDE DEF truncated, capped
  <2>1. QED BY <1>1 DEF NodeRow, State
<1>3. Grown(row, n, seen) = grown
  BY DEF Grown
<1> HIDE DEF grown
<1>4. QED BY <1>2, <1>3

\* So does the mark that a history was cut.
LEMMA TruncatedRow ==
  ASSUME NEW row \in NodeRow, NEW n
  PROVE  /\ Cut(row, n) \in NodeRow
         /\ Cut(row, n).state = row.state
         /\ Cut(row, n).reason = row.reason
         /\ Cut(row, n).hop = row.hop
         /\ Cut(row, n).speculative = row.speculative
<1> DEFINE truncated == n[1] \in Busy
           cut == [row EXCEPT !.truncated = truncated]
<1>1. truncated \in BOOLEAN
  OBVIOUS
<1>2. /\ cut \in NodeRow /\ cut.state = row.state /\ cut.reason = row.reason
      /\ cut.hop = row.hop /\ cut.speculative = row.speculative
  <2> HIDE DEF truncated
  <2>1. QED BY <1>1 DEF NodeRow
<1>3. Cut(row, n) = cut
  BY DEF Cut
<1> HIDE DEF cut
<1>4. QED BY <1>2, <1>3

\* The row of a position first reached out of n.
LEMMA DiscoveredRow ==
  ASSUME TypeOK, NEW n \in Node, NEW m, NEW speculative \in BOOLEAN
  PROVE  /\ Discovered(n, m, speculative) \in NodeRow
         /\ Discovered(n, m, speculative).hop = nodes[n].hop + 1
         /\ Discovered(n, m, speculative).speculative = speculative
         /\ \/ /\ Discovered(n, m, speculative).state = "terminal"
               /\ Discovered(n, m, speculative).reason = "vasp"
            \/ /\ Discovered(n, m, speculative).state = "frontier"
               /\ Discovered(n, m, speculative).reason = "none"
<1>1. nodes[n].hop + 1 \in Nat
  BY RowFields DEF TypeOK
<1>2. QED
  BY <1>1 DEF Discovered, Absent, NodeRow, State, Reason

\* The rows a crossing and an expansion leave behind.
CrossedRow(n, followed) ==
  Cut(Closed(n, IF followed = {} THEN "mixer" ELSE "mixer_crossed"), n)

GrownRow(n, seen) == Grown(nodes[n], n, seen)

Destinations(followed) == {Destination(m) : m \in followed}

\* A claimable node has a frontier row that says nothing yet.
LEMMA ClaimedRow ==
  ASSUME TypeOK, Tidy, NEW n \in Node, Claimable(n)
  PROVE  /\ nodes[n] \in NodeRow /\ n \in Frontier /\ nodes[n].reason = "none" /\ Present(n)
         /\ n = RootNode \/ (n[1] # Root /\ n[2] \in Objectives)
BY DEF TypeOK, Claimable, Frontier, Tidy, Present

\* Counterparties keep to the directions asked for, and to their own node's.
LEMMA CounterpartyDirection ==
  ASSUME TypeOK, Tidy, NEW n \in Node, Claimable(n), NEW m \in Counterparties(n)
  PROVE  m \in Node /\ m[2] \in Objectives /\ (n = RootNode \/ m[2] = n[2])
<1>1. CASE n = RootNode
  BY <1>1 DEF Counterparties, Pursues, RootNode
<1>2. CASE n # RootNode
  <2>1. n[2] # Undirected
    BY <1>2, ClaimedRow, ObjectivesAssumption DEF Undirected, Direction
  <2>2. QED BY <1>2, <2>1, ClaimedRow DEF Counterparties, Pursues
<1>3. QED BY <1>1, <1>2

\* A row that ends a branch, for whatever reason, is a row of the table.
LEMMA ClosedRow ==
  ASSUME TypeOK, Tidy, NEW n \in Node, Claimable(n), NEW why \in Reason
  PROVE  /\ Closed(n, why) \in NodeRow
         /\ Closed(n, why).state = "terminal" /\ Closed(n, why).reason = why
         /\ Closed(n, why).hop = nodes[n].hop
         /\ Closed(n, why).speculative = nodes[n].speculative
BY ClaimedRow DEF Closed, NodeRow, State

LEMMA VaspClaim ==
  ASSUME TypeOK, Tidy, NEW n \in Node, Claimable(n), CloseAtVasp(n)
  PROVE  Claim(n, Closed(n, "vasp"), {}, FALSE)
<1>1. "vasp" \in Reason
  BY DEF Reason
<1>2. QED BY <1>1, ClosedRow, ClaimedRow DEF CloseAtVasp, Claim, Closes

LEMMA HorizonClaim ==
  ASSUME TypeOK, Tidy, NEW n \in Node, Claimable(n), NEW depth, CloseAtHorizon(n, depth)
  PROVE  Claim(n, Closed(n, "depth_horizon"), {}, FALSE)
<1>1. "depth_horizon" \in Reason
  BY DEF Reason
<1>2. QED BY <1>1, ClosedRow, ClaimedRow DEF CloseAtHorizon, Claim, Closes

LEMMA MixerClaim ==
  ASSUME TypeOK, Tidy, NEW n \in Node, Claimable(n), NEW depth,
         NEW followed \in SUBSET ExitCandidates(n), CrossMixer(n, depth, followed)
  PROVE  Claim(n, CrossedRow(n, followed), followed, TRUE)
<1> DEFINE why == IF followed = {} THEN "mixer" ELSE "mixer_crossed"
           row == CrossedRow(n, followed)
<1>1. /\ row \in NodeRow /\ row.state = "terminal"
      /\ row.reason = why
      /\ row.hop = nodes[n].hop /\ row.speculative = nodes[n].speculative
  <2>1. why \in Reason
    BY DEF Reason
  <2>2. row = Cut(Closed(n, why), n)
    BY DEF CrossedRow
  <2> HIDE DEF why, row
  <2>3. QED BY <2>1, <2>2, ClosedRow, TruncatedRow
<1>2. Settle(n, row, followed, TRUE)
  BY DEF CrossMixer, CrossedRow, Cut
<1>3. \A m \in followed : /\ m \in Node /\ m[1] # Root /\ m[2] \in Objectives
                          /\ Present(m) => nodes[m].speculative
  BY CounterpartyDirection DEF ExitCandidates
<1>4. Closes(row, followed) \/ Crosses(row, followed, TRUE)
  BY <1>1, <1>3 DEF Closes, Crosses
<1>5. QED
  BY <1>1, <1>2, <1>3, <1>4, ClaimedRow DEF Claim

LEMMA ExpansionClaim ==
  ASSUME TypeOK, Tidy, NEW n \in Node, Claimable(n), NEW depth,
         NEW seen \in Readable(n), NEW followed \in Followable(n, seen),
         Expand(n, depth, seen, followed)
  PROVE  Claim(n, GrownRow(n, seen), Destinations(followed), nodes[n].speculative)
<1> DEFINE row == GrownRow(n, seen)
           reached == Destinations(followed)
<1>1. /\ row \in NodeRow /\ row.state = "expanded" /\ row.reason = "none"
      /\ row.hop = nodes[n].hop /\ row.speculative = nodes[n].speculative
  BY ClaimedRow, ExpandedRow DEF GrownRow
<1>2. Settle(n, row, reached, nodes[n].speculative)
  BY DEF Expand, GrownRow, Grown, Destinations
<1>3. followed \subseteq Counterparties(n)
  BY DEF Followable, Readable
<1>4. \A m \in reached : /\ m \in Node
                         /\ \/ m = RootNode
                            \/ /\ m[1] # Root /\ m[2] \in Objectives
                               /\ n = RootNode \/ m[2] = n[2]
  BY <1>3, CounterpartyDirection, RootIsNode DEF Destination, Destinations
<1>5. nodes[n].speculative \in BOOLEAN
  BY ClaimedRow, RowFields
<1>6. Expands(n, row, reached, nodes[n].speculative)
  BY <1>1, <1>4 DEF Expands
<1>7. QED BY <1>1, <1>2, <1>4, <1>5, <1>6, ClaimedRow DEF Claim

\* Every claim closes, crosses or expands its node, in the sense of Claim.
LEMMA StepShape ==
  ASSUME TypeOK, Tidy, NEW n \in Node, NEW depth, ProcessNode(n, depth)
  PROVE  /\ \E row, reached, speculative : Claim(n, row, reached, speculative)
         /\ UNCHANGED <<ledger, labels>>
         /\ findings' \in [Finding -> Nat]
<1>n. Claimable(n)
  BY DEF ProcessNode
<1>f. ASSUME NEW filed, File(filed)
      PROVE  findings' \in [Finding -> Nat]
  BY <1>f DEF File, TypeOK
<1>1. CASE CloseAtVasp(n)
  BY <1>1, <1>f, <1>n, VaspClaim DEF CloseAtVasp
<1>2. CASE CloseAtHorizon(n, depth)
  BY <1>2, <1>f, <1>n, HorizonClaim DEF CloseAtHorizon
<1>3. ASSUME NEW followed \in SUBSET ExitCandidates(n), CrossMixer(n, depth, followed)
      PROVE  /\ \E row, reached, speculative : Claim(n, row, reached, speculative)
             /\ UNCHANGED <<ledger, labels>>
             /\ findings' \in [Finding -> Nat]
  BY <1>3, <1>f, <1>n, MixerClaim DEF CrossMixer
<1>4. ASSUME NEW seen \in Readable(n), NEW followed \in Followable(n, seen),
             Expand(n, depth, seen, followed)
      PROVE  /\ \E row, reached, speculative : Claim(n, row, reached, speculative)
             /\ UNCHANGED <<ledger, labels>>
             /\ findings' \in [Finding -> Nat]
  <2>1. /\ UNCHANGED <<ledger, labels>>
        /\ \E filed : File(filed)
    BY <1>4 DEF Expand
  <2>2. QED BY <1>4, <1>f, <1>n, <2>1, ExpansionClaim
<1>5. QED BY <1>1, <1>2, <1>3, <1>4 DEF ProcessNode

-----------------------------------------------------------------------------
(* What Claim leaves behind, and the invariants it preserves.              *)

\* After a claim: n has its row, every other row stands, and what was absent is
\* either still absent or one hop past n with the crossing's or n's speculation.
LEMMA AfterClaim ==
  ASSUME TypeOK, Tidy, NEW n, NEW row, NEW reached, NEW speculative,
         Claim(n, row, reached, speculative)
  PROVE  /\ nodes' \in [Node -> NodeRow]
         /\ n \in Node /\ Present(n) /\ nodes[n].state = "frontier" /\ nodes'[n] = row
         /\ \A m \in Node : m # n /\ Present(m) => nodes'[m] = nodes[m]
         /\ \A m \in Node : ~Present(m) /\ m \notin reached => nodes'[m] = nodes[m]
         /\ \A m \in Node : ~Present(m) /\ m \in reached =>
              /\ nodes'[m].hop = nodes[n].hop + 1
              /\ nodes'[m].speculative = speculative
              /\ \/ nodes'[m].state = "terminal" /\ nodes'[m].reason = "vasp"
                 \/ nodes'[m].state = "frontier" /\ nodes'[m].reason = "none"
         /\ edges' = edges \cup ({n} \X reached)
<1>1. /\ n \in Node /\ row \in NodeRow /\ reached \in SUBSET Node /\ speculative \in BOOLEAN
      /\ nodes[n].state = "frontier" /\ Present(n)
  BY DEF Claim, Claimable, Frontier, Present
<1>2. /\ nodes' = [m \in Node |-> IF m = n THEN row
                                ELSE IF m \in New(reached) THEN Discovered(n, m, speculative)
                                ELSE nodes[m]]
      /\ edges' = edges \cup ({n} \X reached)
  BY DEF Claim, Settle
<1>3. \A m : Discovered(n, m, speculative) \in NodeRow
  BY <1>1, DiscoveredRow
<1>4. nodes' \in [Node -> NodeRow]
  BY <1>1, <1>2, <1>3 DEF TypeOK
<1>5. \A m \in Node : m \in New(reached) <=> (m \in reached /\ ~Present(m))
  BY DEF New
<1>6. \A m \in Node : ~Present(m) /\ m \in reached => nodes'[m] = Discovered(n, m, speculative)
  BY <1>1, <1>2, <1>5
<1>7. QED
  BY <1>1, <1>2, <1>4, <1>5, <1>6, DiscoveredRow

\* A claim puts only such positions into the record as TypeOK allows.
LEMMA ClaimKeepsType ==
  ASSUME TypeOK, Tidy, RootFirst, NEW n, NEW row, NEW reached, NEW speculative,
         Claim(n, row, reached, speculative),
         UNCHANGED <<ledger, labels>>, findings' \in [Finding -> Nat]
  PROVE  TypeOK'
<1>1. edges' \subseteq Node \X Node
  BY AfterClaim DEF TypeOK, Claim
<1>2. \A m \in Node : (Present(m))' /\ m # RootNode => m[1] # Root /\ m[2] \in Objectives
  <2> SUFFICES ASSUME NEW m \in Node, (Present(m))', m # RootNode
               PROVE  m[1] # Root /\ m[2] \in Objectives
    OBVIOUS
  <2>1. CASE Present(m)
    BY <2>1 DEF TypeOK
  <2>2. CASE ~Present(m)
    <3>1. m \in reached
      BY <2>2, AfterClaim DEF Present
    <3>2. QED BY <3>1 DEF Claim, Closes, Crosses, Expands
  <2>3. QED BY <2>1, <2>2
<1>3. QED BY <1>1, <1>2, AfterClaim DEF TypeOK

LEMMA ClaimKeepsRootFirst ==
  ASSUME TypeOK, Tidy, RootFirst, NEW n, NEW row, NEW reached, NEW speculative,
         Claim(n, row, reached, speculative)
  PROVE  RootFirst'
<1>1. Present(RootNode)
  BY AfterClaim DEF RootFirst
<1>2. CASE n = RootNode
  <2>1. /\ row.state \in {"expanded", "terminal"}
        /\ row.hop = nodes[n].hop /\ row.speculative = nodes[n].speculative
    BY DEF Claim, Closes, Crosses, Expands
  <2>2. nodes'[RootNode] = row
    BY <1>2, AfterClaim
  <2>3. QED BY <1>2, <2>1, <2>2 DEF RootFirst, Present
<1>3. CASE n # RootNode
  BY <1>1, <1>3, AfterClaim, RootIsNode DEF RootFirst, Present
<1>4. QED BY <1>2, <1>3

LEMMA ClaimKeepsTidy ==
  ASSUME TypeOK, Tidy, RootFirst, NEW n, NEW row, NEW reached, NEW speculative,
         Claim(n, row, reached, speculative)
  PROVE  Tidy'
<1>0. row.state \in {"expanded", "terminal"}
  BY DEF Claim, Closes, Crosses, Expands
<1>1. \A m \in Node : (Present(m) \/ nodes[m] = Absent)'
  BY <1>0, AfterClaim, AbsentRow DEF Tidy, Present
<1>2. \A m \in Frontier' : nodes'[m].reason = "none"
  BY <1>0, AfterClaim DEF Tidy, Frontier, Present
<1>3. \A m \in Node : Present(m) => (Present(m))'
  BY <1>0, AfterClaim DEF Present
<1>4. \A m \in reached : (Present(m))'
  BY <1>3, AfterClaim DEF Present, Claim
<1>5. \A e \in edges' : e[1] \notin Frontier' /\ (Present(e[1]))' /\ (Present(e[2]))'
  <2> SUFFICES ASSUME NEW e \in edges'
               PROVE  e[1] \notin Frontier' /\ (Present(e[1]))' /\ (Present(e[2]))'
    OBVIOUS
  <2>1. CASE e \in edges
    <3>1. /\ e[1] \in Node /\ e[2] \in Node
          /\ e[1] \notin Frontier /\ Present(e[1]) /\ Present(e[2])
      BY <2>1 DEF TypeOK, Tidy
    <3>2. e[1] # n
      BY <3>1, AfterClaim DEF Frontier
    <3>3. nodes'[e[1]] = nodes[e[1]]
      BY <3>1, <3>2, AfterClaim
    <3>4. QED BY <1>3, <3>1, <3>3 DEF Frontier
  <2>2. CASE e \in {n} \X reached
    BY <1>0, <1>3, <1>4, <2>2, AfterClaim DEF Frontier
  <2>3. QED BY <2>1, <2>2, AfterClaim
<1>6. QED BY <1>1, <1>2, <1>5, AbsentRow DEF Tidy

\* A guess is claimed only when no traced node waits, and what it reaches is a
\* guess; while traced nodes wait, no guess has been claimed.
LEMMA ClaimKeepsCleanFirst ==
  ASSUME TypeOK, Tidy, RootFirst, CleanFirst, NEW n, NEW row, NEW reached, NEW speculative,
         Claim(n, row, reached, speculative)
  PROVE  CleanFirst'
<1>n. /\ row.state \in {"expanded", "terminal"} /\ row.speculative = nodes[n].speculative
      /\ nodes[n].speculative => reached = {} \/ speculative = TRUE
      /\ Claimable(n) /\ n \in Frontier
  BY DEF Claim, Closes, Crosses, Expands, Claimable
<1>1. CASE nodes[n].speculative
  <2>1. \A m \in Frontier : nodes[m].speculative
    BY <1>n, <1>1 DEF Claimable, Precedes
  <2>2. \A m \in Frontier' : nodes'[m].speculative
    <3> SUFFICES ASSUME NEW m \in Frontier' PROVE nodes'[m].speculative
      OBVIOUS
    <3>1. m \in Node /\ nodes'[m].state = "frontier" /\ m # n
      BY <1>n, AfterClaim DEF Frontier
    <3>2. CASE Present(m)
      BY <2>1, <3>1, <3>2, AfterClaim DEF Frontier
    <3>3. CASE ~Present(m)
      <4>1. m \in reached
        BY <3>1, <3>3, AfterClaim DEF Present
      <4>2. QED BY <1>n, <1>1, <3>1, <3>3, <4>1, AfterClaim
    <3>4. QED BY <3>2, <3>3
  <2>3. QED BY <2>2 DEF CleanFirst
<1>2. CASE ~nodes[n].speculative
  <2>1. \A g \in Node : ~GuessClaimed(g)
    BY <1>n, <1>2 DEF CleanFirst
  <2>2. \A g \in Node : ~(GuessClaimed(g))'
    <3> SUFFICES ASSUME NEW g \in Node PROVE ~(GuessClaimed(g))'
      OBVIOUS
    <3>1. CASE g = n
      BY <1>n, <1>2, <3>1, AfterClaim DEF GuessClaimed
    <3>2. CASE g # n /\ Present(g)
      BY <2>1, <3>2, AfterClaim DEF GuessClaimed
    <3>3. CASE g # n /\ ~Present(g) /\ g \in reached
      BY <3>3, AfterClaim DEF GuessClaimed
    <3>4. CASE g # n /\ ~Present(g) /\ g \notin reached
      BY <2>1, <3>4, AfterClaim DEF GuessClaimed
    <3>5. QED BY <3>1, <3>2, <3>3, <3>4
  <2>3. QED BY <2>2 DEF CleanFirst
<1>3. QED BY <1>1, <1>2

\* Rows keep their distance and their speculation for good.
LEMMA ClaimKeepsRows ==
  ASSUME TypeOK, Tidy, NEW n, NEW row, NEW reached, NEW speculative,
         Claim(n, row, reached, speculative)
  PROVE  \A m \in Node : Present(m) =>
           /\ (Present(m))'
           /\ nodes'[m].hop = nodes[m].hop /\ nodes'[m].speculative = nodes[m].speculative
           /\ nodes[m].state # "frontier" => nodes'[m] = nodes[m]
<1>1. /\ row.state \in {"expanded", "terminal"}
      /\ row.hop = nodes[n].hop /\ row.speculative = nodes[n].speculative
  BY DEF Claim, Closes, Crosses, Expands
<1>2. QED BY <1>1, AfterClaim DEF Present

\* The nearest traced node is claimed first, so what it reaches lies at the far
\* edge of the band.
LEMMA ClaimKeepsHopBand ==
  ASSUME TypeOK, Tidy, HopBand, NEW n, NEW row, NEW reached, NEW speculative,
         Claim(n, row, reached, speculative)
  PROVE  HopBand'
<1>n. /\ n \in Frontier /\ Claimable(n) /\ n \in Node
      /\ row.state # "frontier" /\ row.state # "absent"
      /\ row.hop = nodes[n].hop /\ row.speculative = nodes[n].speculative
      /\ nodes[n].speculative => reached = {} \/ speculative = TRUE
  BY DEF Claim, Closes, Crosses, Expands, Claimable, Frontier
<1>h. \A m \in Node : nodes[m].hop \in Nat /\ nodes[m].speculative \in BOOLEAN
  BY RowFields DEF TypeOK
<1> SUFFICES ASSUME NEW m \in Node, NEW f \in Node,
                    (Traced(m))', ~nodes'[f].speculative, f \in Frontier'
             PROVE  nodes'[m].hop <= nodes'[f].hop + 1
  BY DEF HopBand
<1>f. nodes'[f].state = "frontier" /\ f # n
  BY <1>n, AfterClaim DEF Frontier
<1>m. nodes'[m].state # "absent" /\ ~nodes'[m].speculative
  BY DEF Traced, Present
<1>1. CASE Present(m) /\ Present(f)
  BY <1>1, <1>m, <1>f, ClaimKeepsRows, AfterClaim DEF HopBand, Traced, Frontier
<1>2. CASE Present(m) /\ ~Present(f)
  <2>1. f \in reached
    BY <1>2, <1>f, AfterClaim DEF Present
  <2>2. nodes'[f].hop = nodes[n].hop + 1 /\ ~nodes[n].speculative
    BY <1>2, <2>1, <1>n, <1>h, AfterClaim
  <2>3. nodes[m].hop <= nodes[n].hop + 1
    BY <1>2, <1>m, <1>n, <2>2, ClaimKeepsRows DEF HopBand, Traced
  <2>4. QED BY <1>2, <1>h, <2>2, <2>3, <1>n, ClaimKeepsRows
<1>3. CASE ~Present(m) /\ Present(f)
  <2>1. m \in reached
    BY <1>3, <1>m, AfterClaim DEF Present
  <2>2. nodes'[m].hop = nodes[n].hop + 1 /\ ~nodes[n].speculative
    BY <1>3, <1>m, <2>1, <1>n, <1>h, AfterClaim
  <2>3. f \in Frontier /\ ~nodes[f].speculative /\ nodes'[f].hop = nodes[f].hop
    BY <1>3, <1>f, ClaimKeepsRows, AfterClaim DEF Frontier
  <2>4. nodes[n].hop <= nodes[f].hop
    BY <1>n, <1>h, <2>2, <2>3 DEF Claimable, Precedes
  <2>5. QED BY <1>h, <1>n, <2>2, <2>3, <2>4
<1>4. CASE ~Present(m) /\ ~Present(f)
  <2>1. m \in reached /\ f \in reached
    BY <1>4, <1>m, <1>f, AfterClaim DEF Present
  <2>2. nodes'[m].hop = nodes[n].hop + 1 /\ nodes'[f].hop = nodes[n].hop + 1
    BY <1>4, <2>1, AfterClaim
  <2>3. QED BY <1>h, <1>n, <2>2
<1>5. QED BY <1>1, <1>2, <1>3, <1>4

\* An edge drawn now between traced nodes leads no further back than one hop.
LEMMA ClaimKeepsNearestFirst ==
  ASSUME TypeOK, Tidy, HopBand, NearestFirst,
         NEW n, NEW row, NEW reached, NEW speculative,
         Claim(n, row, reached, speculative)
  PROVE  NearestFirst'
<1>n. /\ n \in Frontier /\ n \in Node /\ reached \in SUBSET Node
      /\ row.hop = nodes[n].hop /\ row.speculative = nodes[n].speculative
  BY DEF Claim, Claimable, Frontier
<1>h. \A m \in Node : nodes[m].hop \in Nat /\ nodes[m].speculative \in BOOLEAN
  BY RowFields DEF TypeOK
<1> SUFFICES ASSUME NEW e \in edges', (Traced(e[1]))', (Traced(e[2]))'
             PROVE  nodes'[e[2]].hop <= nodes'[e[1]].hop + 1
  BY DEF NearestFirst
<1>1. CASE e \in edges
  <2>1. e[1] \in Node /\ e[2] \in Node /\ Present(e[1]) /\ Present(e[2])
    BY <1>1 DEF TypeOK, Tidy
  <2>2. Traced(e[1]) /\ Traced(e[2])
    BY <2>1, ClaimKeepsRows DEF Traced
  <2>3. QED BY <1>1, <2>1, <2>2, ClaimKeepsRows DEF NearestFirst
<1>2. CASE e \in {n} \X reached
  <2>1. e[1] = n /\ e[2] \in reached /\ e[2] \in Node
    BY <1>2, <1>n
  <2>2. nodes'[n].hop = nodes[n].hop /\ ~nodes[n].speculative
    BY <1>n, <2>1, AfterClaim DEF Traced
  <2>3. CASE Present(e[2])
    <3>1. Traced(e[2]) /\ nodes'[e[2]].hop = nodes[e[2]].hop
      BY <2>1, <2>3, ClaimKeepsRows DEF Traced
    <3>2. QED BY <1>n, <2>1, <2>2, <3>1 DEF HopBand
  <2>4. CASE ~Present(e[2])
    <3>1. nodes'[e[2]].hop = nodes[n].hop + 1
      BY <2>1, <2>4, AfterClaim
    <3>2. QED BY <1>h, <1>n, <2>1, <2>2, <3>1
  <2>5. QED BY <2>3, <2>4
<1>3. QED BY <1>1, <1>2, AfterClaim

\* Guesses stay guesses and traced nodes stay traced from where they were.
LEMMA ClaimKeepsProvenance ==
  ASSUME TypeOK, Tidy, RootFirst, Provenance,
         NEW n, NEW row, NEW reached, NEW speculative,
         Claim(n, row, reached, speculative)
  PROVE  Provenance'
<1>n. /\ n \in Frontier /\ n \in Node /\ reached \in SUBSET Node
      /\ nodes[n].state = "frontier" /\ Present(n)
      /\ row.hop = nodes[n].hop /\ row.speculative = nodes[n].speculative
  BY DEF Claim, Claimable, Frontier, Present
<1>h. \A m \in Node : nodes[m].hop \in Nat /\ nodes[m].speculative \in BOOLEAN
  BY RowFields DEF TypeOK
<1>e. edges \subseteq edges' /\ \A m \in reached : <<n, m>> \in edges'
  BY AfterClaim
<1>1. NoLaundering'
  <2> SUFFICES ASSUME NEW m \in Node \ {RootNode}, (Traced(m))'
               PROVE  \E p \in Node : (TracedFrom(p, m))'
    BY DEF NoLaundering
  <2>1. CASE Present(m)
    <3>1. Traced(m)
      BY <2>1, ClaimKeepsRows DEF Traced
    <3>2. PICK p \in Node : TracedFrom(p, m)
      BY <3>1 DEF Provenance, NoLaundering
    <3>3. p # n /\ Present(p)
      BY <1>n, <3>2 DEF TracedFrom, Present
    <3>4. nodes'[p] = nodes[p] /\ nodes'[m].hop = nodes[m].hop
      BY <2>1, <3>3, ClaimKeepsRows, AfterClaim
    <3>5. QED BY <1>e, <3>2, <3>4 DEF TracedFrom
  <2>2. CASE ~Present(m)
    <3>1. m \in reached
      BY <2>2, AfterClaim DEF Traced, Present
    <3>2. nodes'[m].hop = nodes[n].hop + 1 /\ speculative = FALSE
      BY <2>2, <3>1, AfterClaim DEF Traced, Claim
    <3>3. row.state = "expanded" /\ nodes[n].speculative = FALSE /\ (n = RootNode \/ m[2] = n[2])
      BY <3>1, <3>2 DEF Claim, Closes, Crosses, Expands
    <3>4. (TracedFrom(n, m))'
      BY <1>e, <1>n, <3>1, <3>2, <3>3, AfterClaim DEF TracedFrom
    <3>5. QED BY <1>n, <3>4
  <2>3. QED BY <2>1, <2>2
<1>2. NoGuessIntoTraced'
  <2> SUFFICES ASSUME NEW e \in edges', nodes'[e[1]].reason = "mixer_crossed"
               PROVE  nodes'[e[2]].speculative
    BY DEF NoGuessIntoTraced
  <2>1. CASE e \in edges
    <3>1. /\ e[1] \in Node /\ e[2] \in Node /\ Present(e[1]) /\ Present(e[2])
          /\ e[1] \notin Frontier
      BY <2>1 DEF TypeOK, Tidy
    <3>2. nodes'[e[1]] = nodes[e[1]]
      BY <1>n, <3>1, AfterClaim
    <3>3. QED BY <2>1, <3>1, <3>2, ClaimKeepsRows DEF Provenance, NoGuessIntoTraced
  <2>2. CASE e \in {n} \X reached
    <3>1. e[1] = n /\ e[2] \in reached /\ e[2] \in Node /\ row.reason = "mixer_crossed"
      BY <1>n, <2>2, AfterClaim
    <3>2. speculative = TRUE /\ (Present(e[2]) => nodes[e[2]].speculative)
      BY <3>1 DEF Claim, Closes, Crosses, Expands
    <3>3. CASE Present(e[2])
      BY <3>1, <3>2, <3>3, ClaimKeepsRows
    <3>4. CASE ~Present(e[2])
      <4>1. nodes'[e[2]].speculative = speculative
        BY <3>1, <3>4, AfterClaim
      <4>2. QED BY <3>2, <4>1
    <3>5. QED BY <3>3, <3>4
  <2>3. QED BY <2>1, <2>2, AfterClaim
<1>3. GuessHasParent'
  <2> SUFFICES ASSUME NEW m \in Node, nodes'[m].speculative
               PROVE  \E p \in Node :
                        /\ <<p, m>> \in edges'
                        /\ nodes'[p].speculative \/ nodes'[p].reason = "mixer_crossed"
                        /\ nodes'[m].hop = nodes'[p].hop + 1
    BY DEF GuessHasParent
  <2>1. CASE Present(m)
    <3>1. nodes[m].speculative /\ nodes'[m].hop = nodes[m].hop
      BY <2>1, ClaimKeepsRows
    <3>2. PICK p \in Node : /\ <<p, m>> \in edges
                            /\ nodes[p].speculative \/ nodes[p].reason = "mixer_crossed"
                            /\ nodes[m].hop = nodes[p].hop + 1
      BY <3>1 DEF Provenance, GuessHasParent
    <3>3. Present(p) /\ p \notin Frontier
      BY <3>2 DEF Tidy
    <3>4. nodes'[p] = nodes[p]
      BY <1>n, <3>3, AfterClaim
    <3>5. QED BY <1>e, <3>1, <3>2, <3>4
  <2>2. CASE ~Present(m)
    <3>1. m \in reached
      BY <2>2, AfterClaim, AbsentRow DEF Tidy, Absent
    <3>2. nodes'[m].hop = nodes[n].hop + 1 /\ speculative = TRUE
      BY <2>2, <3>1, AfterClaim DEF Claim
    <3>3. nodes'[n] = row
      BY AfterClaim
    <3>4. nodes'[n].speculative \/ nodes'[n].reason = "mixer_crossed"
      <4>1. Crosses(row, reached, speculative) \/ Expands(n, row, reached, speculative)
        BY <3>1 DEF Claim, Closes
      <4>2. CASE Crosses(row, reached, speculative)
        BY <3>3, <4>2 DEF Crosses
      <4>3. CASE Expands(n, row, reached, speculative)
        <5>1. nodes[n].speculative = TRUE
          BY <3>2, <4>3 DEF Expands
        <5>2. QED BY <1>n, <3>3, <5>1
      <4>4. QED BY <4>1, <4>2, <4>3
    <3>5. nodes'[m].hop = nodes'[n].hop + 1
      BY <1>n, <3>2, <3>3
    <3>6. <<n, m>> \in edges'
      BY <1>e, <3>1
    <3>7. QED BY <1>n, <3>4, <3>5, <3>6
  <2>3. QED BY <2>1, <2>2
<1>4. QED BY <1>1, <1>2, <1>3 DEF Provenance

-----------------------------------------------------------------------------
(* The invariant, step by step.                                            *)

\* An empty record satisfies everything.
LEMMA InitInvariant == TraceInit => IInv
<1> SUFFICES ASSUME TraceInit PROVE IInv
  OBVIOUS
<1>1. \A n \in Node : nodes[n] = Absent /\ ~Present(n) /\ n \notin Frontier
  BY AbsentRow DEF TraceInit, Present, Frontier
<1>2. TypeOK
  BY <1>1, AbsentRow, LabelsAssumption DEF TraceInit, TypeOK
<1>3. RootFirst
  BY <1>1, RootIsNode DEF RootFirst, Absent
<1>4. Tidy
  BY <1>1 DEF Tidy, Frontier, TraceInit
<1>5. HopBand
  BY <1>1 DEF HopBand
<1>6. Provenance
  BY <1>1 DEF Provenance, NoLaundering, NoGuessIntoTraced, GuessHasParent, Traced, TraceInit, Absent
<1>7. CleanFirst
  BY <1>1 DEF CleanFirst, Frontier
<1>8. NearestFirst
  BY DEF NearestFirst, TraceInit
<1>9. QED BY <1>2, <1>3, <1>4, <1>5, <1>6, <1>7, <1>8 DEF IInv

\* The subject is admitted into an empty record, as a traced node at distance 0.
LEMMA AdmitRootKeeps == IInv /\ AdmitRoot => IInv'
<1> SUFFICES ASSUME IInv, AdmitRoot PROVE IInv'
  OBVIOUS
<1>1. \A m \in Node : ~Present(m) /\ nodes[m] = Absent
  BY DEF IInv, RootFirst, AdmitRoot, Tidy
<1>2. /\ nodes' \in [Node -> NodeRow]
      /\ nodes'[RootNode].state = "frontier" /\ nodes'[RootNode].hop = 0
      /\ ~nodes'[RootNode].speculative /\ nodes'[RootNode].reason = "none"
      /\ \A m \in Node \ {RootNode} : nodes'[m] = Absent
  BY <1>1, RootIsNode DEF AdmitRoot, IInv, TypeOK, Absent, NodeRow, State, Reason
<1>3. /\ edges = {} /\ edges' = {}
      /\ UNCHANGED <<ledger, labels, edges, findings>>
  BY <1>1 DEF IInv, Tidy, TypeOK, AdmitRoot
<1>4. \A m \in Node : (Present(m))' => m = RootNode
  BY <1>2, AbsentRow DEF Present
<1>5. TypeOK'
  BY <1>2, <1>3, <1>4 DEF IInv, TypeOK
<1>6. RootFirst'
  BY <1>2, RootIsNode DEF RootFirst, Present
<1>7. Tidy'
  BY <1>2, <1>3, <1>4 DEF Tidy, Frontier, Present
<1>8. HopBand'
  BY <1>2, <1>4, RootIsNode DEF HopBand, Traced, Frontier, Present
<1>9. Provenance'
  BY <1>2, <1>3, <1>4 DEF Provenance, NoLaundering, NoGuessIntoTraced, GuessHasParent, Traced, Absent
<1>10. CleanFirst'
  BY <1>2, <1>4 DEF CleanFirst, GuessClaimed, Absent
<1>11. NearestFirst'
  BY <1>3 DEF NearestFirst
<1>12. QED BY <1>5, <1>6, <1>7, <1>8, <1>9, <1>10, <1>11 DEF IInv

\* The label index moves without the record moving.
LEMMA RefreshKeeps ==
  ASSUME IInv, NEW a, NEW category, RefreshLabels(a, category)
  PROVE  IInv'
<1>1. a \in Address /\ category \in Category
  BY LabelsAssumption DEF RefreshLabels
<1>2. labels' \in [Address -> SUBSET Category]
  BY <1>1 DEF RefreshLabels, IInv, TypeOK
<1>3. UNCHANGED <<ledger, nodes, edges, findings>>
  BY DEF RefreshLabels
<1>4. QED
  BY <1>2, <1>3, ZenonT(60)
  DEF IInv, TypeOK, RootFirst, Tidy, HopBand, Provenance, CleanFirst, NearestFirst, Present,
      Frontier, Traced, NoLaundering, NoGuessIntoTraced, GuessHasParent, TracedFrom, GuessClaimed

LEMMA StutterKeeps == IInv /\ UNCHANGED traceVars => IInv'
<1> SUFFICES ASSUME IInv, UNCHANGED traceVars PROVE IInv'
  OBVIOUS
<1>1. UNCHANGED <<ledger, labels, nodes, edges, findings>>
  BY DEF traceVars
<1>2. QED
  BY <1>1, ZenonT(60)
  DEF IInv, TypeOK, RootFirst, Tidy, HopBand, Provenance, CleanFirst, NearestFirst, Present,
      Frontier, Traced, NoLaundering, NoGuessIntoTraced, GuessHasParent, TracedFrom, GuessClaimed

\* The induction step.
LEMMA StepInvariant == IInv /\ [TraceNext]_traceVars => IInv'
<1> SUFFICES ASSUME IInv, [TraceNext]_traceVars PROVE IInv'
  OBVIOUS
<1>1. CASE AdmitRoot
  BY <1>1, AdmitRootKeeps
<1>2. ASSUME NEW n \in Node, NEW depth \in Depths, ProcessNode(n, depth)
      PROVE  IInv'
  <2>1. PICK row, reached, speculative : Claim(n, row, reached, speculative)
    BY <1>2, StepShape DEF IInv
  <2>2. UNCHANGED <<ledger, labels>> /\ findings' \in [Finding -> Nat]
    BY <1>2, StepShape DEF IInv
  <2>3. TypeOK' /\ RootFirst' /\ Tidy'
    BY <2>1, <2>2, ClaimKeepsType, ClaimKeepsRootFirst, ClaimKeepsTidy DEF IInv
  <2>4. HopBand' /\ NearestFirst' /\ CleanFirst' /\ Provenance'
    BY <2>1, ClaimKeepsHopBand, ClaimKeepsNearestFirst, ClaimKeepsCleanFirst, ClaimKeepsProvenance
       DEF IInv
  <2>5. QED BY <2>3, <2>4 DEF IInv
<1>3. CASE \E claim \in Volatile : RefreshLabels(claim[1], claim[2])
  BY <1>3, RefreshKeeps
<1>4. CASE UNCHANGED traceVars
  BY <1>4, StutterKeeps
<1>5. QED BY <1>1, <1>2, <1>3, <1>4 DEF TraceNext

\* For every ledger, label history and threshold, the inductive invariant holds.
THEOREM Invariant == TraceSpec => []IInv
<1>1. QED BY InitInvariant, StepInvariant, PTL DEF TraceSpec

-----------------------------------------------------------------------------
(* What follows from it.                                                   *)

\* The tables keep their shape, whatever is claimed in whatever order.
THEOREM TypeCorrect == TraceSpec => []TypeOK
<1>1. IInv => TypeOK
  BY DEF IInv
<1>2. QED BY <1>1, Invariant, PTL

\* No chain of clean hops ever launders a mixer-exit guess into a traced path.
THEOREM GuessesStayGuesses == TraceSpec => []Provenance
<1>1. IInv => Provenance
  BY DEF IInv
<1>2. QED BY <1>1, Invariant, PTL

\* No budget is spent on a guess while a traced address waits.
THEOREM CleanWorkFirst == TraceSpec => []CleanFirst
<1>1. IInv => CleanFirst
  BY DEF IInv
<1>2. QED BY <1>1, Invariant, PTL

\* Along traced edges, a node's first-discovery hop is its minimum distance.
THEOREM FirstHopIsDistance == TraceSpec => []NearestFirst
<1>1. IInv => NearestFirst
  BY DEF IInv
<1>2. QED BY <1>1, Invariant, PTL

\* A step never reopens a node that was closed, nor rewrites where a node stands.
LEMMA StepKeepsRows == IInv /\ [TraceNext]_traceVars => [RowsStand]_traceVars
<1> SUFFICES ASSUME IInv, TraceNext PROVE RowsStand
  BY DEF traceVars
<1>1. CASE AdmitRoot
  <2>1. \A m \in Node : ~Present(m)
    BY <1>1 DEF IInv, RootFirst, AdmitRoot
  <2>2. QED BY <2>1 DEF RowsStand
<1>2. ASSUME NEW n \in Node, NEW depth \in Depths, ProcessNode(n, depth)
      PROVE  RowsStand
  <2>1. PICK row, reached, speculative : Claim(n, row, reached, speculative)
    BY <1>2, StepShape DEF IInv
  <2>2. QED BY <2>1, ClaimKeepsRows DEF IInv, RowsStand
<1>3. CASE \E claim \in Volatile : RefreshLabels(claim[1], claim[2])
  BY <1>3 DEF RefreshLabels, RowsStand
<1>4. QED BY <1>1, <1>2, <1>3 DEF TraceNext

\* The account a reader has seen is never rewritten, over all behaviours.
THEOREM AccountStands == TraceSpec => SettledNodesStand
<1>1. QED BY Invariant, StepKeepsRows, PTL DEF TraceSpec, SettledNodesStand

-----------------------------------------------------------------------------
(* What is filed, what ends a branch, what the coverage statement says.     *)


\* Distance 0 is the subject's alone, so its guards single the subject out.
RootAlone == \A n \in Node : Present(n) /\ nodes[n].hop = 0 => n = RootNode

\* A node still to be claimed bears at most what its discovery filed: a pool's
\* contact, and of the subject, never discovered, not even that.
NothingFiledEarly ==
  \A k \in Kind, n \in Node :
    /\ ~Present(n) => findings[<<k, n>>] = 0
    /\ n \in Frontier /\ (k # "mixer" \/ n = RootNode) => findings[<<k, n>>] = 0

\* Patterns are filed by an expansion.
PatternsAreExpansions ==
  \A n \in Node : findings[<<"pattern", n>>] > 0 => nodes[n].state = "expanded"

\* A row that ended a branch says why.
EndsForAReason == \A n \in Node : nodes[n].state = "terminal" => nodes[n].reason # "none"

\* An expansion that neither the provider nor the supernode guard cut short
\* left nobody out.
ReachesAll ==
  \A n \in Node :
    nodes[n].state = "expanded" /\ ~nodes[n].truncated /\ ~nodes[n].capped =>
      \A m \in Counterparties(n) : Present(Destination(m))

Accounted ==
  /\ RootAlone /\ NothingFiledEarly /\ PatternsAreExpansions /\ EndsForAReason /\ ReachesAll
  /\ FiledOnce /\ BranchesEndAtVasp

\* What a claim of n files: labels of n, whatever they are; patterns of an
\* expansion nothing preceded; and what the discovered are known to be.
Files(n, row, reached, filed) ==
  /\ filed \subseteq Finding
  /\ \A f \in filed : \/ f[2] = n
                      \/ f[2] \in New(reached) /\ f[1] \in {"mixer", "vasp"}
  /\ <<"mixer", n>> \in filed => nodes[n].hop = 0
  /\ <<"vasp", n>> \in filed <=> NamedEndpoint(n)
  /\ \A m \in New(reached) : <<"vasp", m>> \in filed <=> NamedEndpoint(m)
  /\ <<"pattern", n>> \in filed => row.state = "expanded" /\ ~HasProcessedSibling(n)

\* How the claim of n ends it.
Ends(n, row, reached) ==
  /\ row.reason = "vasp" <=> EndsAtVasp(n)
  /\ row.reason = "vasp" => reached = {}
  /\ row.state = "terminal" => row.reason # "none"
  /\ row.state = "expanded" /\ ~row.truncated /\ ~row.capped =>
       \A m \in Counterparties(n) : Destination(m) \in reached

-----------------------------------------------------------------------------
(* What a claim files.                                                     *)

\* Whatever a claim adds to its node's labels and to the discovered, it files
\* exchanges exactly where a label names one, and a pattern only if it may.
LEMMA FiledFindings ==
  ASSUME NEW n \in Node, Present(n), NEW row, NEW reached \in SUBSET Node,
         NEW more \in SUBSET ({"pattern", "service", "supernode", "crossing"} \X {n}),
         <<"pattern", n>> \in more => row.state = "expanded" /\ ~HasProcessedSibling(n)
  PROVE  Files(n, row, reached, ClaimFindings(n) \cup more \cup DiscoveryFindings(New(reached)))
<1> DEFINE found == DiscoveryFindings(New(reached))
<1>1. n \notin New(reached) /\ New(reached) \subseteq Node
  BY DEF New
<1>2. \A f \in ClaimFindings(n) : f \in Finding /\ f[2] = n /\ f[1] \in {"sanctioned", "mixer", "vasp"}
  BY DEF ClaimFindings, Finding, Kind
<1>3. /\ <<"vasp", n>> \in ClaimFindings(n) <=> NamedEndpoint(n)
      /\ <<"mixer", n>> \in ClaimFindings(n) => nodes[n].hop = 0
  BY DEF ClaimFindings
<1>4. \A f \in more : f \in Finding /\ f[2] = n /\ f[1] \notin {"sanctioned", "mixer", "vasp"}
  BY DEF Finding, Kind
<1>5. \A f \in found : f \in Finding /\ f[2] \in New(reached) /\ f[1] \in {"mixer", "vasp"}
  BY <1>1 DEF DiscoveryFindings, Finding, Kind
<1>6. \A m \in New(reached) : <<"vasp", m>> \in found <=> NamedEndpoint(m)
  BY DEF DiscoveryFindings
<1>7. \A k : <<k, n>> \notin found
  BY <1>1, <1>5
<1>8. \A m \in New(reached) : \A k : <<k, m>> \notin ClaimFindings(n) \cup more
  BY <1>1, <1>2, <1>4
<1> HIDE DEF found
<1>9. QED
  BY <1>2, <1>3, <1>4, <1>5, <1>6, <1>7, <1>8 DEF Files, found

\* With the whole history read and no direction overflowing, an expansion
\* follows every counterparty.
LEMMA NobodyLeftOut ==
  ASSUME NEW n \in Node, NEW seen \in Readable(n), NEW followed \in Followable(n, seen),
         n[1] \notin Busy, Overflowing(n, seen) = {}
  PROVE  followed = Counterparties(n)
<1>1. seen = Counterparties(n)
  BY DEF Readable
<1>2. followed \subseteq seen /\ \A d \in Pursues(n) : Along(followed, d) = Along(seen, d)
  BY DEF Followable
<1>3. \A m \in seen : m[2] \in Pursues(n)
  BY <1>1 DEF Counterparties
<1>4. \A m \in seen : m \in followed
  BY <1>2, <1>3 DEF Along
<1>5. QED BY <1>1, <1>2, <1>4

\* A claim's step, as the record of findings sees it.
LEMMA FilingShape ==
  ASSUME TypeOK, Tidy, NEW n \in Node, NEW depth, ProcessNode(n, depth)
  PROVE  \E row, reached, speculative, filed :
           /\ Claim(n, row, reached, speculative)
           /\ Files(n, row, reached, filed) /\ Ends(n, row, reached) /\ File(filed)
<1>n. Claimable(n) /\ Present(n) /\ nodes[n] \in NodeRow
  BY ClaimedRow DEF ProcessNode
<1>e. New({}) = {} /\ DiscoveryFindings({}) = {}
  BY DEF New, DiscoveryFindings
<1>1. CASE CloseAtVasp(n)
  <2> DEFINE row == Closed(n, "vasp")
  <2>1. row.state = "terminal" /\ row.reason = "vasp"
    BY <1>n, ClosedRow DEF Reason
  <2>2. Files(n, row, {}, ClaimFindings(n) \cup {} \cup DiscoveryFindings(New({})))
    <3> HIDE DEF row
    <3>1. QED BY <1>n, FiledFindings
  <2>3. Files(n, row, {}, ClaimFindings(n))
    BY <1>e, <2>2
  <2>4. Ends(n, row, {})
    BY <1>1, <2>1 DEF Ends, CloseAtVasp
  <2>5. QED BY <1>1, <1>n, <2>3, <2>4, VaspClaim DEF CloseAtVasp
<1>2. CASE CloseAtHorizon(n, depth)
  <2> DEFINE row == Closed(n, "depth_horizon")
  <2>1. row.state = "terminal" /\ row.reason = "depth_horizon"
    BY <1>n, ClosedRow DEF Reason
  <2>2. Files(n, row, {}, ClaimFindings(n) \cup {} \cup DiscoveryFindings(New({})))
    <3> HIDE DEF row
    <3>1. QED BY <1>n, FiledFindings
  <2>3. Files(n, row, {}, ClaimFindings(n))
    BY <1>e, <2>2
  <2>4. Ends(n, row, {})
    BY <1>2, <2>1 DEF Ends, CloseAtHorizon
  <2>5. QED BY <1>2, <1>n, <2>3, <2>4, HorizonClaim DEF CloseAtHorizon
<1>3. ASSUME NEW followed \in SUBSET ExitCandidates(n), CrossMixer(n, depth, followed)
      PROVE  \E row, reached, speculative, filed :
               /\ Claim(n, row, reached, speculative)
               /\ Files(n, row, reached, filed) /\ Ends(n, row, reached) /\ File(filed)
  <2> DEFINE row == CrossedRow(n, followed)
             filed == ClaimFindings(n) \cup {<<"crossing", n>>} \cup DiscoveryFindings(New(followed))
  <2>1. Claim(n, row, followed, TRUE)
    BY <1>3, <1>n, MixerClaim
  <2>2. row.state = "terminal" /\ row.reason \in {"mixer", "mixer_crossed"}
    <3>1. "mixer" \in Reason /\ "mixer_crossed" \in Reason
      BY DEF Reason
    <3>2. QED BY <1>n, <3>1, ClosedRow, TruncatedRow DEF CrossedRow
  <2>3. Files(n, row, followed, filed)
    <3>1. followed \in SUBSET Node
      BY DEF ExitCandidates, Counterparties
    <3>2. {<<"crossing", n>>} \in SUBSET ({"pattern", "service", "supernode", "crossing"} \X {n})
      OBVIOUS
    <3>3. <<"pattern", n>> \notin {<<"crossing", n>>}
      OBVIOUS
    <3> HIDE DEF row
    <3>4. QED BY <1>n, <3>1, <3>2, <3>3, FiledFindings
  <2>4. Ends(n, row, followed)
    BY <1>3, <2>2 DEF Ends, CrossMixer, Reads
  <2>5. QED BY <1>3, <2>1, <2>3, <2>4 DEF CrossMixer
<1>4. ASSUME NEW seen \in Readable(n), NEW followed \in Followable(n, seen),
             Expand(n, depth, seen, followed)
      PROVE  \E row, reached, speculative, filed :
               /\ Claim(n, row, reached, speculative)
               /\ Files(n, row, reached, filed) /\ Ends(n, row, reached) /\ File(filed)
  <2> DEFINE row == GrownRow(n, seen)
             reached == Destinations(followed)
             filed == ClaimFindings(n) \cup ExpansionFindings(n, seen)
                        \cup DiscoveryFindings(New(reached))
  <2>1. Claim(n, row, reached, nodes[n].speculative)
    BY <1>4, <1>n, ExpansionClaim
  <2>2. /\ row.state = "expanded" /\ row.reason = "none"
        /\ row.truncated <=> n[1] \in Busy
        /\ row.capped <=> Overflowing(n, seen) # {}
    BY <1>n, ClaimedRow, ExpandedRow DEF GrownRow
  <2>3. Files(n, row, reached, filed)
    <3>1. reached \in SUBSET Node
      BY <2>1 DEF Claim
    <3>2. ExpansionFindings(n, seen)
            \in SUBSET ({"pattern", "service", "supernode", "crossing"} \X {n})
      BY DEF ExpansionFindings
    <3>3. <<"pattern", n>> \in ExpansionFindings(n, seen) => ~HasProcessedSibling(n)
      BY DEF ExpansionFindings
    <3> HIDE DEF row, reached
    <3>4. QED BY <1>n, <2>2, <3>1, <3>2, <3>3, FiledFindings
  <2>4. Ends(n, row, reached)
    <3>1. ~row.truncated /\ ~row.capped =>
            \A m \in Counterparties(n) : Destination(m) \in reached
      BY <2>2, NobodyLeftOut DEF Destinations
    <3> HIDE DEF row, reached
    <3>2. QED BY <1>4, <2>2, <3>1 DEF Ends, Expand, Reads
  <2>5. File(filed)
    BY <1>4 DEF Expand, Destinations
  <2>6. QED BY <2>1, <2>3, <2>4, <2>5
<1>5. QED BY <1>1, <1>2, <1>3, <1>4 DEF ProcessNode

-----------------------------------------------------------------------------
(* What the step leaves behind.                                            *)

\* A step of the record: what FilingShape says of a claim, and the ledger stays.
Filing(n, row, reached, speculative, filed) ==
  /\ Claim(n, row, reached, speculative)
  /\ Files(n, row, reached, filed) /\ Ends(n, row, reached) /\ File(filed)
  /\ UNCHANGED ledger

\* The rows after it: n is done, the others present stand, and a discovered one
\* is closed exactly if a label names it.
LEMMA AfterFiling ==
  ASSUME IInv, NEW n, NEW row, NEW reached, NEW speculative, NEW filed,
         Filing(n, row, reached, speculative, filed)
  PROVE  /\ n \in Frontier /\ n \in Node /\ nodes'[n] = row
         /\ row.state \in {"expanded", "terminal"} /\ row.hop = nodes[n].hop
         /\ Present(n) /\ Present(RootNode) /\ reached \in SUBSET Node
         /\ \A m \in Node : m # n /\ Present(m) => nodes'[m] = nodes[m]
         /\ \A m \in Node : ~Present(m) /\ m \notin reached => nodes'[m] = nodes[m]
         /\ \A m \in New(reached) :
              /\ m \in Node /\ ~Present(m) /\ m # n
              /\ nodes'[m].hop > 0
              /\ nodes'[m].reason = "vasp" <=> NamedEndpoint(m)
              /\ \/ nodes'[m].state = "terminal" /\ nodes'[m].reason = "vasp"
                 \/ nodes'[m].state = "frontier" /\ nodes'[m].reason = "none"
<1>t. TypeOK /\ Tidy /\ RootFirst
  BY DEF IInv
<1>c. /\ Claim(n, row, reached, speculative) /\ n \in Node /\ n \in Frontier
      /\ row.state \in {"expanded", "terminal"} /\ row.hop = nodes[n].hop
      /\ reached \in SUBSET Node /\ speculative \in BOOLEAN
  BY DEF Filing, Claim, Claimable, Closes, Crosses, Expands, Frontier
<1>1. /\ Present(n) /\ nodes'[n] = row
      /\ \A m \in Node : m # n /\ Present(m) => nodes'[m] = nodes[m]
      /\ \A m \in Node : ~Present(m) /\ m \notin reached => nodes'[m] = nodes[m]
  BY <1>t, <1>c, AfterClaim
<1>2. Present(RootNode)
  BY <1>t, <1>1, <1>c DEF RootFirst
<1>3. ASSUME NEW m \in New(reached)
      PROVE  /\ m \in Node /\ ~Present(m) /\ m # n
             /\ nodes'[m].hop > 0
             /\ nodes'[m].reason = "vasp" <=> NamedEndpoint(m)
             /\ \/ nodes'[m].state = "terminal" /\ nodes'[m].reason = "vasp"
                \/ nodes'[m].state = "frontier" /\ nodes'[m].reason = "none"
  <2>1. m \in Node /\ ~Present(m) /\ m # n /\ m \in reached
    BY <1>1, <1>c DEF New
  <2>2. nodes'[m] = Discovered(n, m, speculative)
    BY <1>c, <2>1 DEF Claim, Settle
  <2>3. Discovered(n, m, speculative).reason = IF NamedEndpoint(m) THEN "vasp" ELSE "none"
    BY DEF Discovered, Absent
  <2>4. nodes'[m].reason = "vasp" <=> NamedEndpoint(m)
    BY <2>2, <2>3
  <2>5. nodes[n].hop + 1 > 0
    BY <1>t, <1>c, RowFields DEF TypeOK
  <2>6. QED
    BY <1>t, <1>c, <2>1, <2>4, <2>5, AfterClaim
<1>4. QED
  BY <1>c, <1>1, <1>2, <1>3

\* What is on record about a node the step does not touch stays as it was.
LEMMA FindingsAfter ==
  ASSUME IInv, NEW n, NEW row, NEW reached, NEW speculative, NEW filed,
         Filing(n, row, reached, speculative, filed)
  PROVE  /\ \A f \in Finding : findings[f] \in Nat
         /\ \A f \in Finding : findings'[f] = IF f \in filed THEN findings[f] + 1 ELSE findings[f]
         /\ \A k \in Kind, m \in Node :
              /\ <<k, m>> \in Finding
              /\ m # n /\ m \notin New(reached) => findings'[<<k, m>>] = findings[<<k, m>>]
              /\ m \in New(reached) /\ k \notin {"mixer", "vasp"}
                   => findings'[<<k, m>>] = findings[<<k, m>>]
<1>1. /\ \A f \in Finding : findings[f] \in Nat
      /\ \A f \in Finding : findings'[f] = IF f \in filed THEN findings[f] + 1 ELSE findings[f]
  BY DEF IInv, TypeOK, Filing, File
<1>2. \A k \in Kind, m \in Node : <<k, m>> \in Finding
  BY DEF Finding
<1>3. \A f \in filed : f[2] = n \/ (f[2] \in New(reached) /\ f[1] \in {"mixer", "vasp"})
  BY DEF Filing, Files
<1>4. \A k \in Kind, m \in Node :
        (m # n /\ m \notin New(reached)) \/ (m # n /\ k \notin {"mixer", "vasp"})
          => <<k, m>> \notin filed
  BY <1>3
<1>5. n \notin New(reached)
  BY AfterFiling
<1>6. QED BY <1>1, <1>2, <1>4, <1>5

LEMMA FilingKeepsRootAlone ==
  ASSUME IInv, Accounted, NEW n, NEW row, NEW reached, NEW speculative, NEW filed,
         Filing(n, row, reached, speculative, filed)
  PROVE  RootAlone' /\ EndsForAReason'
<1>1. ASSUME NEW m \in Node
      PROVE  /\ nodes'[m].state # "absent" /\ nodes'[m].hop = 0 => m = RootNode
             /\ nodes'[m].state = "terminal" => nodes'[m].reason # "none"
  <2>1. CASE m = n
    <3>1. row.hop = 0 => m = RootNode
      BY <2>1, AfterFiling DEF Accounted, RootAlone
    <3>2. row.state = "terminal" => row.reason # "none"
      BY DEF Filing, Ends
    <3>3. QED BY <2>1, <3>1, <3>2, AfterFiling
  <2>2. CASE m # n /\ m \notin New(reached)
    <3>1. nodes'[m] = nodes[m]
      BY <2>2, AfterFiling DEF New
    <3>2. QED BY <3>1 DEF Accounted, RootAlone, EndsForAReason, Present
  <2>3. CASE m \in New(reached)
    BY <2>3, AfterFiling
  <2>4. QED BY <2>1, <2>2, <2>3
<1>2. QED BY <1>1 DEF RootAlone, EndsForAReason, Present

LEMMA FilingKeepsNothingEarly ==
  ASSUME IInv, Accounted, NEW n, NEW row, NEW reached, NEW speculative, NEW filed,
         Filing(n, row, reached, speculative, filed)
  PROVE  NothingFiledEarly'
<1> SUFFICES ASSUME NEW k \in Kind, NEW m \in Node
             PROVE  /\ nodes'[m].state = "absent" => findings'[<<k, m>>] = 0
                    /\ nodes'[m].state = "frontier" /\ (k # "mixer" \/ m = RootNode)
                         => findings'[<<k, m>>] = 0
  BY DEF NothingFiledEarly, Present, Frontier
<1>a. /\ nodes[m].state = "absent" => findings[<<k, m>>] = 0
      /\ nodes[m].state = "frontier" /\ (k # "mixer" \/ m = RootNode) => findings[<<k, m>>] = 0
  BY DEF Accounted, NothingFiledEarly, Present, Frontier
<1>1. CASE m = n
  BY <1>1, AfterFiling
<1>2. CASE m # n /\ m \notin New(reached)
  <2>1. nodes'[m] = nodes[m]
    BY <1>2, AfterFiling DEF New
  <2>2. findings'[<<k, m>>] = findings[<<k, m>>]
    BY <1>2, FindingsAfter
  <2>3. QED BY <1>a, <2>1, <2>2
<1>3. CASE m \in New(reached)
  <2>1. /\ nodes'[m].state # "absent" /\ m # RootNode /\ ~Present(m)
        /\ nodes'[m].state = "frontier" => ~NamedEndpoint(m)
    BY <1>3, AfterFiling
  <2>2. findings[<<k, m>>] = 0 /\ <<k, m>> \in Finding
    BY <1>a, <2>1, FindingsAfter DEF Present
  <2>3. nodes'[m].state = "frontier" /\ k = "vasp" => <<k, m>> \notin filed
    BY <1>3, <2>1 DEF Filing, Files
  <2>4. CASE k \in {"mixer", "vasp"}
    BY <2>1, <2>2, <2>3, <2>4, FindingsAfter
  <2>5. CASE k \notin {"mixer", "vasp"}
    BY <1>3, <2>2, <2>5, FindingsAfter
  <2>6. QED BY <2>4, <2>5
<1>4. QED BY <1>1, <1>2, <1>3

\* A claim files nothing that was on record: its node bore no such finding
\* yet, and the discovered bore none.
LEMMA FilesOnlyNew ==
  ASSUME IInv, Accounted, NEW n, NEW row, NEW reached, NEW speculative, NEW filed,
         Filing(n, row, reached, speculative, filed),
         NEW k \in Kind, NEW m \in Node, <<k, m>> \in filed
  PROVE  findings[<<k, m>>] = 0
<1>1. CASE m = n
  <2>1. nodes[n].state = "frontier" /\ Present(n)
    BY AfterFiling DEF Frontier
  <2>2. k = "mixer" => n = RootNode
    BY <1>1, <2>1 DEF Filing, Files, Accounted, RootAlone
  <2>3. QED BY <1>1, <2>1, <2>2 DEF Accounted, NothingFiledEarly, Frontier
<1>2. CASE m # n
  <2>1. m \in New(reached)
    BY <1>2 DEF Filing, Files
  <2>2. ~Present(m)
    BY <2>1, AfterFiling
  <2>3. QED BY <2>2 DEF Accounted, NothingFiledEarly
<1>3. QED BY <1>1, <1>2

\* An address's pattern is filed by the first of its nodes to be expanded, and
\* by no other.
LEMMA FilingKeepsFiledOnce ==
  ASSUME IInv, Accounted, NEW n, NEW row, NEW reached, NEW speculative, NEW filed,
         Filing(n, row, reached, speculative, filed)
  PROVE  FiledOnce' /\ PatternsAreExpansions'
<1>p. "pattern" \in Kind
  BY DEF Kind
<1>1. ASSUME NEW f \in Finding PROVE findings'[f] <= 1
  <2>1. PICK k \in Kind, m \in Node : f = <<k, m>>
    BY DEF Finding
  <2>2. findings[f] <= 1
    BY DEF Accounted, FiledOnce
  <2>3. f \in filed => findings[f] = 0
    BY <2>1, FilesOnlyNew
  <2>4. QED BY <2>2, <2>3, FindingsAfter
<1>2. ASSUME NEW m \in Node, findings'[<<"pattern", m>>] > 0, m # n
      PROVE  /\ findings[<<"pattern", m>>] > 0 /\ nodes[m].state = "expanded"
             /\ nodes'[m] = nodes[m]
  <2>1. findings'[<<"pattern", m>>] = findings[<<"pattern", m>>]
    BY <1>p, <1>2, FindingsAfter
  <2>2. findings[<<"pattern", m>>] > 0 /\ nodes[m].state = "expanded"
    BY <1>2, <2>1 DEF Accounted, PatternsAreExpansions
  <2>3. QED BY <1>2, <2>2, AfterFiling DEF Present
<1>3. ASSUME findings'[<<"pattern", n>>] > 0
      PROVE  row.state = "expanded" /\ ~HasProcessedSibling(n)
  <2>1. findings[<<"pattern", n>>] = 0
    BY <1>p, AfterFiling DEF Accounted, NothingFiledEarly
  <2>2. <<"pattern", n>> \in filed
    BY <1>p, <1>3, <2>1, FindingsAfter, AfterFiling
  <2>3. QED BY <2>2 DEF Filing, Files
<1>4. ASSUME NEW m \in Node, Sibling(m, n)
      PROVE  findings'[<<"pattern", m>>] = 0 \/ findings'[<<"pattern", n>>] = 0
  <2>1. m # n
    BY <1>4 DEF Sibling
  <2>2. <<"pattern", m>> \in Finding /\ <<"pattern", n>> \in Finding
    BY <1>p, AfterFiling DEF Finding
  <2>3. findings'[<<"pattern", m>>] \in Nat /\ findings'[<<"pattern", n>>] \in Nat
    BY <2>2, FindingsAfter
  <2>4. ~(findings'[<<"pattern", m>>] > 0 /\ findings'[<<"pattern", n>>] > 0)
    BY <1>2, <1>3, <1>4, <2>1 DEF HasProcessedSibling
  <2>5. QED BY <2>3, <2>4
<1>5. ASSUME NEW m \in Node, NEW mm \in Node, Sibling(m, mm)
      PROVE  findings'[<<"pattern", m>>] = 0 \/ findings'[<<"pattern", mm>>] = 0
  <2>1. CASE m # n /\ mm # n
    <3>1. <<"pattern", m>> \in Finding /\ <<"pattern", mm>> \in Finding
      BY <1>p DEF Finding
    <3>2. findings[<<"pattern", m>>] = 0 \/ findings[<<"pattern", mm>>] = 0
      BY <1>5 DEF Accounted, FiledOnce
    <3>3. /\ findings'[<<"pattern", m>>] = findings[<<"pattern", m>>]
          /\ findings'[<<"pattern", mm>>] = findings[<<"pattern", mm>>]
      BY <1>p, <2>1, FindingsAfter
    <3>4. QED BY <3>2, <3>3
  <2>2. CASE mm = n
    BY <1>4, <1>5, <2>2
  <2>3. CASE m = n
    <3>1. Sibling(mm, n)
      BY <1>5, <2>3 DEF Sibling
    <3>2. QED BY <1>4, <2>3, <3>1
  <2>4. QED BY <2>1, <2>2, <2>3
<1>6. PatternsAreExpansions'
  <2>1. nodes'[n] = row
    BY AfterFiling
  <2>2. QED BY <1>2, <1>3, <2>1 DEF PatternsAreExpansions
<1>7. FiledOnce'
  BY <1>1, <1>5 DEF FiledOnce, Sibling
<1>8. QED BY <1>6, <1>7

\* A branch is closed at an exchange by the step that files the exchange, and
\* edges leave only nodes closed for another reason or not at all.
LEMMA FilingKeepsBranches ==
  ASSUME IInv, Accounted, NEW n, NEW row, NEW reached, NEW speculative, NEW filed,
         Filing(n, row, reached, speculative, filed)
  PROVE  BranchesEndAtVasp'
<1> SUFFICES ASSUME NEW m \in Node \ {RootNode}
             PROVE  /\ (findings'[<<"vasp", m>>] > 0) <=> (nodes'[m].reason = "vasp")
                    /\ nodes'[m].reason = "vasp" => \A e \in edges' : e[1] # m
  BY DEF BranchesEndAtVasp
<1>v. "vasp" \in Kind /\ <<"vasp", m>> \in Finding
  BY DEF Kind, Finding
<1>b. /\ (findings[<<"vasp", m>>] > 0) <=> (nodes[m].reason = "vasp")
      /\ nodes[m].reason = "vasp" => \A e \in edges : e[1] # m
  BY DEF Accounted, BranchesEndAtVasp
<1>e. \A e \in edges' : e \in edges \/ (e[1] = n /\ reached # {})
  BY DEF Filing, Claim, Settle
<1>t. \A e \in edges : e[1] \notin Frontier /\ Present(e[1])
  BY DEF IInv, Tidy
<1>1. CASE m = n
  <2>1. nodes[n].state = "frontier" /\ Present(n) /\ nodes'[n] = row /\ n \in Node
    BY AfterFiling DEF Frontier
  <2>2. nodes[n].hop > 0
    <3>1. nodes[n].hop # 0
      BY <1>1, <2>1 DEF Accounted, RootAlone
    <3>2. QED BY <2>1, <3>1, RowFields DEF IInv, TypeOK
  <2>3. findings[<<"vasp", n>>] = 0
    BY <1>v, <2>1 DEF Accounted, NothingFiledEarly, Frontier
  <2>4. (findings'[<<"vasp", n>>] > 0) <=> <<"vasp", n>> \in filed
    BY <1>1, <1>v, <2>3, FindingsAfter
  <2>5. (findings'[<<"vasp", n>>] > 0) <=> (row.reason = "vasp")
    BY <2>2, <2>4 DEF Filing, Files, Ends, EndsAtVasp
  <2>6. row.reason = "vasp" => \A e \in edges' : e[1] # n
    <3>1. \A e \in edges : e[1] # n
      BY <1>t, <2>1 DEF Frontier
    <3>2. row.reason = "vasp" => reached = {}
      BY DEF Filing, Ends
    <3>3. QED BY <1>e, <3>1, <3>2
  <2>7. QED BY <1>1, <2>1, <2>5, <2>6
<1>2. CASE m # n /\ m \notin New(reached)
  <2>1. nodes'[m] = nodes[m] /\ findings'[<<"vasp", m>>] = findings[<<"vasp", m>>]
    BY <1>2, <1>v, AfterFiling, FindingsAfter DEF New
  <2>2. QED BY <1>2, <1>b, <1>e, <2>1
<1>3. CASE m \in New(reached)
  <2>1. ~Present(m) /\ m # n /\ (nodes'[m].reason = "vasp" <=> NamedEndpoint(m))
    BY <1>3, AfterFiling
  <2>2. findings[<<"vasp", m>>] = 0
    BY <1>v, <2>1 DEF Accounted, NothingFiledEarly
  <2>3. <<"vasp", m>> \in filed <=> NamedEndpoint(m)
    BY <1>3 DEF Filing, Files
  <2>4. \A e \in edges' : e[1] # m
    BY <1>e, <1>t, <2>1
  <2>5. QED BY <1>v, <2>1, <2>2, <2>3, <2>4, FindingsAfter
<1>4. QED BY <1>1, <1>2, <1>3

\* Who is a counterparty of a node is decided by the ledger, which nothing moves.
LEMMA FilingKeepsReachesAll ==
  ASSUME IInv, Accounted, NEW n, NEW row, NEW reached, NEW speculative, NEW filed,
         Filing(n, row, reached, speculative, filed)
  PROVE  ReachesAll'
<1>l. \A m \in Node : Counterparties(m)' = Counterparties(m)
  BY DEF Filing, Counterparties, Moved, Pursues
<1>p. \A m \in Node : Present(m) \/ m \in reached => (Present(m))'
  BY AfterFiling DEF Present, New
<1>d. \A q \in Node : \A m \in Counterparties(q) : Destination(m) \in Node
  BY RootIsNode DEF Counterparties, Destination
<1> SUFFICES ASSUME NEW m \in Node, nodes'[m].state = "expanded", ~nodes'[m].truncated,
                    ~nodes'[m].capped, NEW c \in Counterparties(m)
             PROVE  (Present(Destination(c)))'
  BY <1>l DEF ReachesAll, Destination
<1>1. CASE m = n
  <2>1. row.state = "expanded" /\ ~row.truncated /\ ~row.capped
    BY <1>1, AfterFiling
  <2>2. Destination(c) \in reached
    BY <1>1, <2>1 DEF Filing, Ends
  <2>3. QED BY <1>d, <1>p, <2>2
<1>2. CASE m # n /\ m \notin New(reached)
  <2>1. nodes'[m] = nodes[m]
    BY <1>2, AfterFiling DEF New
  <2>2. Present(Destination(c))
    BY <2>1 DEF Accounted, ReachesAll
  <2>3. QED BY <1>d, <1>p, <2>2
<1>3. CASE m \in New(reached)
  BY <1>3, AfterFiling
<1>4. QED BY <1>1, <1>2, <1>3

-----------------------------------------------------------------------------
(* Accounted, step by step.                                                *)

\* Nothing is filed in an empty record.
LEMMA InitAccounted == TraceInit => Accounted
<1> SUFFICES ASSUME TraceInit PROVE Accounted
  OBVIOUS
<1>1. \A n \in Node : nodes[n] = Absent /\ ~Present(n)
  BY AbsentRow DEF TraceInit, Present
<1>2. Absent.state = "absent" /\ Absent.reason = "none"
  BY DEF Absent
<1>3. \A f \in Finding : findings[f] = 0
  BY DEF TraceInit
<1>4. \A k \in Kind, n \in Node : findings[<<k, n>>] = 0
  BY <1>3 DEF Finding
<1>5. "pattern" \in Kind /\ "vasp" \in Kind
  BY DEF Kind
<1>6. RootAlone /\ EndsForAReason /\ ReachesAll
  BY <1>1, <1>2 DEF RootAlone, EndsForAReason, ReachesAll
<1>7. NothingFiledEarly /\ PatternsAreExpansions
  BY <1>4, <1>5 DEF NothingFiledEarly, PatternsAreExpansions
<1>8. FiledOnce
  BY <1>3, <1>4, <1>5 DEF FiledOnce
<1>9. BranchesEndAtVasp
  BY <1>1, <1>2, <1>4, <1>5 DEF BranchesEndAtVasp
<1>10. QED BY <1>6, <1>7, <1>8, <1>9 DEF Accounted

\* The subject is admitted with nothing on record against it.
LEMMA AdmitRootAccounted == IInv /\ Accounted /\ AdmitRoot => Accounted'
<1> SUFFICES ASSUME IInv, Accounted, AdmitRoot PROVE Accounted'
  OBVIOUS
<1>1. \A m \in Node : ~Present(m) /\ nodes[m] = Absent
  BY DEF IInv, RootFirst, AdmitRoot, Tidy
<1>2. /\ nodes'[RootNode].state = "frontier" /\ nodes'[RootNode].reason = "none"
      /\ \A m \in Node \ {RootNode} : nodes'[m] = Absent
  BY <1>1, RootIsNode DEF AdmitRoot, IInv, TypeOK, Absent
<1>3. findings' = findings /\ edges' = edges /\ edges = {}
  BY <1>1 DEF AdmitRoot, IInv, Tidy, TypeOK
<1>4. Absent.state = "absent" /\ Absent.reason = "none"
  BY DEF Absent
<1>5. \A k \in Kind, m \in Node : findings[<<k, m>>] = 0
  BY <1>1 DEF Accounted, NothingFiledEarly
<1>6. "pattern" \in Kind /\ "vasp" \in Kind
  BY DEF Kind
<1>7. RootAlone' /\ EndsForAReason' /\ ReachesAll'
  BY <1>2, <1>4, RootIsNode DEF RootAlone, EndsForAReason, ReachesAll, Present
<1>8. NothingFiledEarly' /\ PatternsAreExpansions'
  BY <1>3, <1>5, <1>6 DEF NothingFiledEarly, PatternsAreExpansions
<1>9. FiledOnce'
  BY <1>3 DEF Accounted, FiledOnce, Sibling
<1>10. BranchesEndAtVasp'
  BY <1>2, <1>3, <1>4, <1>5, <1>6 DEF BranchesEndAtVasp
<1>11. QED BY <1>7, <1>8, <1>9, <1>10 DEF Accounted

\* Accounted speaks of the record and of the ledger, and not of the labels, so a
\* label that lands or goes later falsifies nothing that was filed.
LEMMA IdleAccounted == Accounted /\ UNCHANGED <<ledger, nodes, edges, findings>> => Accounted'
BY DEF Accounted, RootAlone, NothingFiledEarly, PatternsAreExpansions, EndsForAReason,
       ReachesAll, FiledOnce, BranchesEndAtVasp, Present, Frontier, Sibling, Counterparties,
       Moved, Pursues, Destination

LEMMA StepAccounted == IInv /\ Accounted /\ [TraceNext]_traceVars => Accounted'
<1> SUFFICES ASSUME IInv, Accounted, [TraceNext]_traceVars PROVE Accounted'
  OBVIOUS
<1>1. CASE AdmitRoot
  BY <1>1, AdmitRootAccounted
<1>2. ASSUME NEW n \in Node, NEW depth \in Depths, ProcessNode(n, depth)
      PROVE  Accounted'
  <2>1. PICK row, reached, speculative, filed :
          /\ Claim(n, row, reached, speculative)
          /\ Files(n, row, reached, filed) /\ Ends(n, row, reached) /\ File(filed)
    BY <1>2, FilingShape DEF IInv
  <2>2. UNCHANGED ledger
    BY <1>2, StepShape DEF IInv
  <2>3. Filing(n, row, reached, speculative, filed)
    BY <2>1, <2>2 DEF Filing
  <2>4. QED
    BY <2>3, FilingKeepsRootAlone, FilingKeepsNothingEarly, FilingKeepsFiledOnce,
       FilingKeepsBranches, FilingKeepsReachesAll DEF Accounted
<1>3. CASE \E claim \in Volatile : RefreshLabels(claim[1], claim[2])
  BY <1>3, IdleAccounted DEF RefreshLabels
<1>4. CASE UNCHANGED traceVars
  BY <1>4, IdleAccounted DEF traceVars
<1>5. QED BY <1>1, <1>2, <1>3, <1>4 DEF TraceNext

\* What is filed follows what is claimed, for every ledger and label history.
THEOREM RecordAccounted == TraceSpec => [](IInv /\ Accounted)
<1>1. TraceInit => IInv /\ Accounted
  BY InitInvariant, InitAccounted
<1>2. IInv /\ Accounted /\ [TraceNext]_traceVars => (IInv /\ Accounted)'
  BY StepInvariant, StepAccounted
<1>3. QED BY <1>1, <1>2, PTL DEF TraceSpec

-----------------------------------------------------------------------------
(* What follows from it.                                                   *)

\* No claim is filed twice against a node, nor a movement pattern once per
\* direction of its address, though the table has no constraint against it.
THEOREM NothingFiledTwice == TraceSpec => []FiledOnce
<1>1. IInv /\ Accounted => FiledOnce
  BY DEF Accounted
<1>2. QED BY <1>1, RecordAccounted, PTL

\* An exchange is on record exactly where a branch ended at one, and the trace
\* never continued past it.
THEOREM ExchangesEndBranches == TraceSpec => []BranchesEndAtVasp
<1>1. IInv /\ Accounted => BranchesEndAtVasp
  BY DEF Accounted
<1>2. QED BY <1>1, RecordAccounted, PTL

\* A record that nothing cut short reached every counterparty of an expanded
\* address, and a node it reached is either expanded too or closed at an
\* exchange: any other end counts against completeness.
LEMMA CompleteIsTrue == IInv /\ Accounted => CoverageTrue
<1> SUFFICES ASSUME IInv, Accounted, CoverageComplete,
                    NEW n \in Node, nodes[n].state = "expanded", NEW m \in Counterparties(n)
             PROVE  \/ nodes[Destination(m)].state = "expanded"
                    \/ nodes[Destination(m)].reason = "vasp"
  BY DEF CoverageTrue
<1>1. Destination(m) \in Node
  BY RootIsNode DEF Counterparties, Destination
<1>2. Present(Destination(m))
  BY DEF CoverageComplete, Accounted, ReachesAll
<1>3. /\ nodes[Destination(m)].state \in State
      /\ nodes[Destination(m)].reason \in Reason
  BY <1>1, RowFields DEF IInv, TypeOK
<1>4. /\ nodes[Destination(m)].state # "frontier"
      /\ nodes[Destination(m)].reason \notin {"depth_horizon", "mixer", "mixer_crossed"}
  BY <1>1 DEF CoverageComplete
<1>5. nodes[Destination(m)].state = "terminal" => nodes[Destination(m)].reason # "none"
  BY <1>1 DEF Accounted, EndsForAReason
<1>6. QED BY <1>2, <1>3, <1>4, <1>5 DEF Present, State, Reason

\* When the report says every address reached was explored, no counterparty of
\* an expanded address is missing from it, whatever the ledger is.
THEOREM CoverageIsHonest == TraceSpec => []CoverageTrue
<1>1. QED BY CompleteIsTrue, RecordAccounted, PTL

=============================================================================
