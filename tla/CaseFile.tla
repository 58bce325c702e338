------------------------------ MODULE CaseFile ------------------------------
(***************************************************************************)
(* What is read out of the trace and filed with it: the transactions that  *)
(* link the subject to an exchange, searched for at the moment the claim   *)
(* is filed, and the answers each objective gets from the findings.        *)
(* Composes with TraceGraph: every step is a step of the trace.            *)
(***************************************************************************)
EXTENDS TraceGraph, Sequences, SequencesExt

VARIABLE routes   \* routes[n]: the positions the evidence filed at n leads over

caseVars == <<traceVars, routes>>

---------------------------------------------------------------------------
\* path_tx_hashes: a breadth-first search over the edges, either way along.  A
\* guessed node may end a path and not carry one on.  An edge of a crossing has
\* a movement like any other.
Joined(p, q, drawn) == <<p, q>> \in drawn \/ <<q, p>> \in drawn

CarriesAnyone(n) == TRUE

Carries(n) == ~nodes'[n].speculative

\* The routes one position longer: the search leaves a node it may pass.
Longer(some, drawn) ==
  UNION {LET last == route[Len(route)]
             next == {n \in Node \ ToSet(route) : Joined(last, n, drawn)}
         IN  {Append(route, n) : n \in IF last = RootNode \/ Carries(last) THEN next ELSE {}}
           : route \in some}

EndingAt(some, n) == {route \in some : route[Len(route)] = n}

\* Routes grow until some of them end at n.
Deeper(some, n, drawn) == IF EndingAt(some, n) # {} THEN some ELSE Longer(some, drawn)

\* No shortest route visits a position twice.
Searched(n, drawn) ==
  LET After[k \in 0..Cardinality(Node)] ==
        IF k = 0 THEN {<<RootNode>>} ELSE Deeper(After[k - 1], n, drawn)
  IN  After[Cardinality(Node)]

\* Any shortest route may be the one found, for the rows come in no order; the
\* empty one says that there is none, or that n is the subject itself.
ShortestTo(n, drawn) ==
  LET found == EndingAt(Searched(n, drawn), n)
  IN  IF n = RootNode \/ found = {} THEN {<<>>} ELSE found

\* An exchange claim is filed while its node's edges are being drawn: the search
\* sees what was drawn before the step, the edge into the node, and any others
\* of the step that happened to come first.
Findable(n) ==
  UNION {ShortestTo(n, edges \cup drawn) :
           drawn \in {d \in SUBSET (edges' \ edges) :
                        {e \in edges' \ edges : e[2] = n} \subseteq d}}

NewlyNamed == {n \in Node : findings'[<<"vasp", n>>] > findings[<<"vasp", n>>]}

FileRoutes ==
  \E filed \in [NewlyNamed -> UNION {Findable(n) : n \in NewlyNamed}] :
    /\ \A n \in NewlyNamed : filed[n] \in Findable(n)
    /\ routes' = [n \in Node |-> IF n \in NewlyNamed THEN filed[n] ELSE routes[n]]

---------------------------------------------------------------------------
\* vasp_findings_with_hops: an endpoint finding with its node's hop and whether
\* its branch is a guess.  The root's own findings answer no direction.
Endpoints(d) ==
  {e \in {"vasp", "service"} \X {n \in Node : n[2] = d} : findings[e] > 0}

Hop(e) == nodes[e[2]].hop

Named(e) == e[1] = "vasp"

TracedEndpoints(d) == {e \in Endpoints(d) : ~nodes[e[2]].speculative}

\* _closest: the nearest, and of equally near ones the unnamed, for the named
\* slot beside it shows the other.
Closest(some) ==
  {e \in some : \A f \in some : \/ Hop(e) < Hop(f)
                                \/ Hop(e) = Hop(f) /\ (~Named(e) \/ Named(f))}

\* _best_lead: there is one slot, so of equally near ones the named.
BestLead(some) ==
  {e \in some : \A f \in some : \/ Hop(e) < Hop(f)
                                \/ Hop(e) = Hop(f) /\ (Named(e) \/ ~Named(f))}

\* select_answers, for one objective; confidence picks within a slot.
Answer(d) ==
  LET traced == TracedEndpoints(d)
  IN  [nearest |-> Closest(traced),
       nearestNamed |-> Closest({e \in traced : Named(e)}),
       bestEffort |-> IF traced # {} THEN {} ELSE BestLead(Endpoints(d))]

---------------------------------------------------------------------------
CaseInit == TraceInit /\ routes = [n \in Node |-> <<>>]

CaseNext == TraceNext /\ FileRoutes

CaseSpec == CaseInit /\ [][CaseNext]_caseVars

---------------------------------------------------------------------------
\* The links of a route are on record, and none of them passes through a guess:
\* no list of transactions spans a pool, whatever was drawn when it was filed.
RoutesHoldUp ==
  \A n \in Node : \A i \in 1..Len(routes[n]) :
    /\ i > 1 => Joined(routes[n][i - 1], routes[n][i], edges)
    /\ i < Len(routes[n]) => ~nodes[routes[n][i]].speculative

\* An exchange reached by value has a route to show for it.
TracedExchangesAreShown ==
  \A n \in Node \ {RootNode} :
    nodes[n].reason = "vasp" /\ ~nodes[n].speculative => routes[n] # <<>>

EvidenceHolds == RoutesHoldUp /\ TracedExchangesAreShown

\* As a run goes on, and is resumed, what it answers only gets nearer: a nearest
\* endpoint is never lost to a farther one, a named one never disappears, and a
\* lead that an answer has displaced does not come back.
AnswersImprove ==
  \A d \in Objectives :
    /\ \A e \in Answer(d).nearest : Answer(d).nearest' # {} /\ \A f \in Answer(d).nearest' :
         nodes'[f[2]].hop <= Hop(e)
    /\ \A e \in Answer(d).nearestNamed : \E f \in Answer(d).nearestNamed' :
         nodes'[f[2]].hop <= Hop(e)
    /\ Answer(d).nearest # {} => Answer(d).bestEffort' = {}

AnswersOnlyImprove == [][AnswersImprove]_caseVars
=============================================================================
