----------------------------- MODULE TraceGraph -----------------------------
(***************************************************************************)
(* The graph one investigation builds: nodes (which are also its           *)
(* checkpointed frontier), edges and findings, and the steps that claim a  *)
(* frontier node and decide what it is.  Translated from                   *)
(* investigation/engine.py (_process_node, _attribute_on_discovery,        *)
(* _cross_mixer, _enqueue_mixer_candidates) and the graph half of          *)
(* storage/repositories.py.                                                *)
(*                                                                         *)
(* One iteration of the engine's loop is one database transaction, so one  *)
(* claimed node is one step.  Budgets, runs, resumes and crashes are layered *)
(* on top by module Investigation; here a step only knows the horizon      *)
(* (max_depth) it runs under.                                              *)
(*                                                                         *)
(* Abstracted: amounts (the ranking is any order), transaction hashes,     *)
(* wording, and the bridge findings, which change nothing else.            *)
(***************************************************************************)
EXTENDS Integers, FiniteSets

CONSTANTS
  Address,            \* the addresses of the chain under investigation
  Root,               \* the subject: the address the operator supplied
  Objectives,         \* the directions asked for, a subset of Direction
  Ledgers,            \* the possible ledgers: each a set of <<payer, payee>>
  InitialLabels,      \* what the label index says of an address at the start
  Volatile,           \* <<address, category>> claims that land or retire meanwhile
  Busy,               \* addresses whose history a provider cannot serve whole
  Custodial,          \* addresses that behave like custodial infrastructure
  SupernodeThreshold, \* counterparties beyond which an expansion is capped
  SupernodeFollow,    \* how many a capped expansion still follows
  MaxFollow,          \* the exit candidates one mixer crossing may follow
  Depths              \* the horizons (max_depth) an operator may set

Direction == {"backward", "forward"}
Undirected == "none"          \* direction NULL: only the root's node has it
Category == {"vasp", "mixer", "sanctioned", "infrastructure"}

ASSUME AddressAssumption == IsFiniteSet(Address)
ASSUME RootAssumption == Root \in Address
ASSUME ObjectivesAssumption == Objectives \subseteq Direction /\ Objectives # {}
ASSUME LedgersAssumption == Ledgers \subseteq SUBSET (Address \X Address)
ASSUME LabelsAssumption == /\ InitialLabels \in [Address -> SUBSET Category]
                           /\ Volatile \subseteq Address \X Category
ASSUME DepthsAssumption == Depths \subseteq Nat \ {0}
ASSUME SupernodeAssumption == /\ SupernodeFollow \in Nat /\ SupernodeThreshold \in Nat
                              /\ SupernodeFollow <= SupernodeThreshold + 1

Node == Address \X (Objectives \cup {Undirected})
RootNode == <<Root, Undirected>>

State == {"absent", "frontier", "expanded", "terminal"}
Reason == {"none", "vasp", "depth_horizon", "mixer", "mixer_crossed"}
NodeRow == [state : State, reason : Reason, hop : Nat, speculative : BOOLEAN,
            truncated : BOOLEAN, capped : BOOLEAN]
Absent == [state |-> "absent", reason |-> "none", hop |-> 0, speculative |-> FALSE,
           truncated |-> FALSE, capped |-> FALSE]

\* "vasp" is an endpoint named by a sourced label, "service" one inferred from
\* behaviour, "mixer" the contact with a pool, "crossing" what became of the
\* branch there, "pattern" a pass of the behavioural detectors.
Kind == {"vasp", "service", "mixer", "crossing", "sanctioned", "pattern", "supernode"}
Finding == Kind \X Node

VARIABLES
  ledger,    \* the movements that really happened on the chain
  labels,    \* the attributor's in-memory index: what it answers for an address
  nodes,     \* the nodes table
  edges,     \* the edges table
  findings   \* how many findings of a kind are filed against a node

graph == <<nodes, edges, findings>>
traceVars == <<ledger, labels, nodes, edges, findings>>

-----------------------------------------------------------------------------
(* Reading the record.                                                     *)

Present(n) == nodes[n].state # "absent"
Frontier == {n \in Node : nodes[n].state = "frontier"}

Labelled(n, category) == category \in labels[n[1]]

\* A mixer label and an exchange label on one address contradict each other, and
\* the mixer reading is the cautious one.
NamedEndpoint(n) == Labelled(n, "vasp") /\ ~Labelled(n, "mixer")

\* The two orders the claim is not: by hop alone (speculation not an order key),
\* and by speculation alone (value ranking across hop levels).
PrecedesByHop(m, n) == nodes[m].hop < nodes[n].hop
PrecedesBySpeculation(m, n) == ~nodes[m].speculative /\ nodes[n].speculative

\* claim_frontier orders by speculative, then hop; value and id, the remaining
\* keys, rank siblings in an order no property depends on.
Precedes(m, n) ==
  \/ ~nodes[m].speculative /\ nodes[n].speculative
  \/ nodes[m].speculative = nodes[n].speculative /\ nodes[m].hop < nodes[n].hop

Claimable(n) == n \in Frontier /\ \A m \in Frontier : ~Precedes(m, n)

\* The directions a node is expanded in: its own, or every objective's for the root.
Pursues(n) == IF n[2] = Undirected THEN Objectives ELSE {n[2]}

Moved(n, counterparty, direction) ==
  IF direction = "backward" THEN <<counterparty, n[1]>> \in ledger
                            ELSE <<n[1], counterparty>> \in ledger

\* The trace positions one hop out of n; an address is never its own counterparty.
Counterparties(n) ==
  {m \in Node : m[1] # n[1] /\ m[2] \in Pursues(n) /\ Moved(n, m[1], m[2])}

\* What a provider lets the engine see of them: all, unless the history is cut.
Readable(n) ==
  {seen \in SUBSET Counterparties(n) : n[1] \in Busy \/ seen = Counterparties(n)}

Along(positions, direction) == {m \in positions : m[2] = direction}

Overflowing(n, seen) ==
  {d \in Pursues(n) : nodes[n].hop > 0 /\ Cardinality(Along(seen, d)) > SupernodeThreshold}

\* The counterparties an expansion follows: the head of the ranking where a
\* direction overflows the supernode guard, and everything where it does not.
Followable(n, seen) ==
  {kept \in SUBSET seen : \A d \in Pursues(n) :
     IF d \in Overflowing(n, seen)
       THEN Cardinality(Along(kept, d)) = SupernodeFollow
       ELSE Along(kept, d) = Along(seen, d)}

\* No cycle guard: the subject re-admitted one hop further out.
DestinationAsReached(m) == m

\* A counterparty that is the subject leads back to the root's one node.
Destination(m) == IF m[1] = Root THEN RootNode ELSE m

Sibling(m, n) == m # n /\ m[1] = n[1]
HasProcessedSibling(n) ==
  \E m \in Node : Sibling(m, n) /\ nodes[m].state \in {"expanded", "terminal"}

-----------------------------------------------------------------------------
(* Writing it.                                                             *)

\* Speculation forgotten at insert.
DiscoveredAsTraced(n, m, speculative) ==
  [Absent EXCEPT !.state = IF NamedEndpoint(m) THEN "terminal" ELSE "frontier",
                 !.reason = IF NamedEndpoint(m) THEN "vasp" ELSE "none",
                 !.hop = nodes[n].hop + 1]

\* The row add_address_node inserts for a position first reached out of n, as
\* discovery-time attribution leaves it: a named endpoint is closed at once.
Discovered(n, m, speculative) ==
  [Absent EXCEPT !.state = IF NamedEndpoint(m) THEN "terminal" ELSE "frontier",
                 !.reason = IF NamedEndpoint(m) THEN "vasp" ELSE "none",
                 !.hop = nodes[n].hop + 1,
                 !.speculative = speculative]

New(positions) == {m \in positions : ~Present(m)}

\* The insert that overwrites on conflict.
SettleUpsert(n, row, reached, speculative) ==
  /\ nodes' = [m \in Node |-> IF m = n THEN row
                              ELSE IF m \in reached THEN Discovered(n, m, speculative)
                              ELSE nodes[m]]
  /\ edges' = edges \cup ({n} \X reached)

\* n gets its final row and the positions first reached out of it get theirs;
\* a row that exists already is left as it stands (on conflict do nothing).
Settle(n, row, reached, speculative) ==
  /\ nodes' = [m \in Node |-> IF m = n THEN row
                              ELSE IF m \in New(reached) THEN Discovered(n, m, speculative)
                              ELSE nodes[m]]
  /\ edges' = edges \cup ({n} \X reached)

Closed(n, why) == [nodes[n] EXCEPT !.state = "terminal", !.reason = why]

DiscoveryFindings(new) ==
  {<<"mixer", m>> : m \in {x \in new : Labelled(x, "mixer")}}
    \cup {<<"vasp", m>> : m \in {x \in new : NamedEndpoint(x)}}

\* The mixer contact filed again at the claim.
ClaimFindingsUnguarded(n) ==
  {f \in {"sanctioned", "mixer", "vasp"} \X {n} :
     \/ f[1] = "sanctioned" /\ Labelled(n, "sanctioned")
     \/ f[1] = "mixer" /\ Labelled(n, "mixer")
     \/ f[1] = "vasp" /\ NamedEndpoint(n)}

\* What a claimed node's labels file before anything is fetched.  The root is
\* the one node discovery-time attribution never sees.
ClaimFindings(n) ==
  {f \in {"sanctioned", "mixer", "vasp"} \X {n} :
     \/ f[1] = "sanctioned" /\ Labelled(n, "sanctioned")
     \/ f[1] = "mixer" /\ Labelled(n, "mixer") /\ nodes[n].hop = 0
     \/ f[1] = "vasp" /\ NamedEndpoint(n)}

ExpansionFindings(n, seen) ==
  {f \in {"pattern", "service", "supernode"} \X {n} :
     \/ f[1] = "pattern" /\ ~HasProcessedSibling(n)
     \/ /\ f[1] = "service"
        /\ n[1] \in Custodial /\ nodes[n].hop > 0 /\ ~Labelled(n, "infrastructure")
     \/ f[1] = "supernode" /\ Overflowing(n, seen) # {}}

File(filed) ==
  findings' = [f \in Finding |-> IF f \in filed THEN findings[f] + 1 ELSE findings[f]]

-----------------------------------------------------------------------------
(* The steps.                                                              *)

TraceInit ==
  /\ ledger \in Ledgers
  /\ labels = InitialLabels
  /\ nodes = [n \in Node |-> Absent]
  /\ edges = {}
  /\ findings = [f \in Finding |-> 0]

\* start(): the subject's node is on the frontier when the row is committed.
AdmitRoot ==
  /\ ~Present(RootNode)
  /\ nodes' = [nodes EXCEPT ![RootNode] = [Absent EXCEPT !.state = "frontier"]]
  /\ UNCHANGED <<ledger, labels, edges, findings>>

\* The root guard one hop too far out.
EndsAtVaspBeyondFirstHop(n) == NamedEndpoint(n) /\ nodes[n].hop > 1

\* A labelled exchange ends the branch; the root is recorded and goes on.
EndsAtVasp(n) == NamedEndpoint(n) /\ nodes[n].hop > 0

CloseAtVasp(n) ==
  /\ EndsAtVasp(n)
  /\ Settle(n, Closed(n, "vasp"), {}, FALSE)
  /\ File(ClaimFindings(n))
  /\ UNCHANGED <<ledger, labels>>

CloseAtHorizon(n, depth) ==
  /\ ~EndsAtVasp(n)
  /\ nodes[n].hop >= depth
  /\ Settle(n, Closed(n, "depth_horizon"), {}, FALSE)
  /\ File(ClaimFindings(n))
  /\ UNCHANGED <<ledger, labels>>

\* A history page is fetched and stored only for what gets past both closings.
Reads(n, depth) == ~EndsAtVasp(n) /\ nodes[n].hop < depth

\* The far side of a pool: a guess never lands on the subject, nor on a
\* position a traced path already reached.
ExitCandidates(n) ==
  {m \in Counterparties(n) : m[1] # Root /\ (Present(m) => nodes[m].speculative)}

\* The exit ladder may propose any of the pool's counterparties or none; the
\* root has no arriving movement to anchor it, so nothing leaves the root.
CrossMixer(n, depth, followed) ==
  /\ Reads(n, depth)
  /\ Labelled(n, "mixer")
  /\ Cardinality(followed) <= MaxFollow
  /\ n = RootNode => followed = {}
  /\ Settle(n, [Closed(n, IF followed = {} THEN "mixer" ELSE "mixer_crossed")
                  EXCEPT !.truncated = n[1] \in Busy], followed, TRUE)
  /\ File(ClaimFindings(n) \cup {<<"crossing", n>>} \cup DiscoveryFindings(New(followed)))
  /\ UNCHANGED <<ledger, labels>>

Expand(n, depth, seen, followed) ==
  /\ Reads(n, depth)
  /\ ~Labelled(n, "mixer")
  /\ LET reached == {Destination(m) : m \in followed}
     IN /\ Settle(n, [nodes[n] EXCEPT !.state = "expanded",
                                      !.truncated = n[1] \in Busy,
                                      !.capped = Overflowing(n, seen) # {}],
                  reached, nodes[n].speculative)
        /\ File(ClaimFindings(n) \cup ExpansionFindings(n, seen)
                  \cup DiscoveryFindings(New(reached)))
  /\ UNCHANGED <<ledger, labels>>

\* A harvest cycle lands or retires a claim and the attributor's index, reloaded
\* between two lookups of a run, follows it.
RefreshLabels(a, category) ==
  /\ <<a, category>> \in Volatile
  /\ labels' = [labels EXCEPT ![a] = IF category \in @ THEN @ \ {category}
                                                       ELSE @ \cup {category}]
  /\ UNCHANGED <<ledger, nodes, edges, findings>>

\* The loop claims one node, and the claimed node meets exactly one of these.
ProcessNode(n, depth) ==
  /\ Claimable(n)
  /\ \/ CloseAtVasp(n)
     \/ CloseAtHorizon(n, depth)
     \/ \E followed \in SUBSET ExitCandidates(n) : CrossMixer(n, depth, followed)
     \/ \E seen \in Readable(n) : \E followed \in Followable(n, seen) :
          Expand(n, depth, seen, followed)

TraceNext ==
  \/ AdmitRoot
  \/ \E n \in Node, depth \in Depths : ProcessNode(n, depth)
  \/ \E claim \in Volatile : RefreshLabels(claim[1], claim[2])

TraceSpec == TraceInit /\ [][TraceNext]_traceVars

-----------------------------------------------------------------------------
(* What the record says of its own coverage.                               *)

\* The coverage statement before capped expansions counted against it.
CoverageCompleteUncapped ==
  \A n \in Node : /\ nodes[n].state # "frontier"
                  /\ ~nodes[n].truncated
                  /\ nodes[n].reason \notin {"depth_horizon", "mixer", "mixer_crossed"}

\* _coverage: "every address the trace reached was explored within budget".
CoverageComplete ==
  \A n \in Node : /\ nodes[n].state # "frontier"
                  /\ ~nodes[n].truncated
                  /\ ~nodes[n].capped
                  /\ nodes[n].reason \notin {"depth_horizon", "mixer", "mixer_crossed"}

-----------------------------------------------------------------------------
(* Properties.                                                             *)

\* Every table keeps its shape: the subject occupies one node, any other address
\* at most one per objective.
TypeOK ==
  /\ ledger \in Ledgers
  /\ labels \in [Address -> SUBSET Category]
  /\ nodes \in [Node -> NodeRow]
  /\ edges \subseteq Node \X Node
  /\ findings \in [Finding -> Nat]
  /\ \A n \in Node : Present(n) /\ n # RootNode => n[1] # Root /\ n[2] \in Objectives

\* p is where the trace reached m by following value.
TracedFrom(p, m) ==
  /\ <<p, m>> \in edges
  /\ nodes[p].state = "expanded"
  /\ ~nodes[p].speculative
  /\ nodes[m].hop = nodes[p].hop + 1
  /\ p[2] = m[2] \/ p = RootNode

Traced(m) == Present(m) /\ ~nodes[m].speculative

\* A node drawn as traced was reached by value from a traced node one hop
\* nearer, so by induction along a traced path from the subject as long as its
\* hop says: no number of clean hops launders a mixer-exit guess.
NoLaundering ==
  \A m \in Node \ {RootNode} : Traced(m) => \E p \in Node : TracedFrom(p, m)

\* No mixer-exit edge is hung onto a traced node, where a path search could
\* route that node's evidence through the pool.
NoGuessIntoTraced ==
  \A e \in edges : nodes[e[1]].reason = "mixer_crossed" => nodes[e[2]].speculative

\* Every guessed node hangs off the crossing or the guessed node that proposed
\* it, so a report can always name the guess a branch rests on.
GuessHasParent ==
  \A m \in Node : nodes[m].speculative =>
    \E p \in Node : /\ <<p, m>> \in edges
                    /\ nodes[p].speculative \/ nodes[p].reason = "mixer_crossed"
                    /\ nodes[m].hop = nodes[p].hop + 1

Provenance == NoLaundering /\ NoGuessIntoTraced /\ GuessHasParent

\* A guess was claimed: it left the frontier for anything but an exchange found
\* at discovery.
GuessClaimed(n) ==
  /\ nodes[n].speculative
  /\ nodes[n].state = "expanded"
     \/ nodes[n].reason \in {"depth_horizon", "mixer", "mixer_crossed"}

\* No budget is ever spent on a guess while a traced address waits: once one
\* guess has been claimed, no traced node is on the frontier, then or later.
CleanFirst ==
  (\E g \in Node : GuessClaimed(g)) => \A m \in Frontier : nodes[m].speculative

\* Along traced edges a node's hop is its distance from the subject: no edge
\* found later shows a nearer way to a node already counted further out.
NearestFirst ==
  \A e \in edges : Traced(e[1]) /\ Traced(e[2]) => nodes[e[2]].hop <= nodes[e[1]].hop + 1

\* findings has no uniqueness constraint, yet no claim is filed twice against a
\* node, nor one address's movement pattern once per direction.
FiledOnce ==
  /\ \A f \in Finding : findings[f] <= 1
  /\ \A m, n \in Node : Sibling(m, n) =>
       findings[<<"pattern", m>>] = 0 \/ findings[<<"pattern", n>>] = 0

\* Beyond the root, an exchange is on record exactly where a branch was closed
\* at one, and nothing was ever followed out of it.
BranchesEndAtVasp ==
  \A n \in Node \ {RootNode} :
    /\ (findings[<<"vasp", n>>] > 0) <=> (nodes[n].reason = "vasp")
    /\ nodes[n].reason = "vasp" => \A e \in edges : e[1] # n

\* When the record claims complete coverage, the ledger agrees: whoever moved
\* value with an expanded address was itself explored or named.
CoverageTrue ==
  CoverageComplete =>
    \A n \in Node : nodes[n].state = "expanded" =>
      \A m \in Counterparties(n) :
        \/ nodes[Destination(m)].state = "expanded"
        \/ nodes[Destination(m)].reason = "vasp"

\* A node that left the frontier never comes back or changes, and no row's hop
\* or speculation is ever rewritten: a resumed run cannot reopen an account
\* somebody has read.
RowsStand ==
  \A n \in Node : Present(n) =>
    /\ nodes'[n].hop = nodes[n].hop
    /\ nodes'[n].speculative = nodes[n].speculative
    /\ nodes[n].state # "frontier" => nodes'[n] = nodes[n]

SettledNodesStand == [][RowsStand]_traceVars

\* An address designated by a sanctions list has that on record once the trace
\* is done with it.
SanctionRecorded ==
  \A n \in Node :
    Present(n) /\ n \notin Frontier /\ Labelled(n, "sanctioned")
      => findings[<<"sanctioned", n>>] > 0

\* The behavioural detectors ran once over every address that was expanded.
ExpandedIsScreened ==
  \A n \in Node : nodes[n].state = "expanded" =>
    \E m \in Node : m[1] = n[1] /\ findings[<<"pattern", m>>] > 0
=============================================================================
