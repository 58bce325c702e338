------------------------------ MODULE Cospend -------------------------------
(***************************************************************************)
(* Co-spend clusters.  Transactions are taken one after the other; one     *)
(* that spends from several addresses joins them in a disjoint-set forest, *)
(* unless its shape or one of its inputs says that strangers built it.     *)
(* The active labels inside a cluster then name its other members.         *)
(***************************************************************************)
EXTENDS Naturals, FiniteSets, FiniteSetsExt

CONSTANTS
    Spends,         \* Spends[tx]: its inputs, a set, and outputs, amount :> how many
    MixerInputs,    \* the addresses a label calls a mixer
    MinInputs,      \* DEFAULT_MIN_COINJOIN_INPUTS
    MinEqual,       \* DEFAULT_MIN_EQUAL_OUTPUTS
    Seeds           \* Seeds[a]: the entity of an active label, on some addresses

\* Labels are rows, finitely many.
ASSUME SeedsAssumption == IsFiniteSet(DOMAIN Seeds)

\* So are the inputs of a transaction.
ASSUME SpendsAssumption == \A tx \in DOMAIN Spends : IsFiniteSet(Spends[tx].inputs)

VARIABLES
    parent,         \* _UnionFind._parent
    taken,          \* the transactions taken so far
    refused         \* coinjoins_skipped and mixer_transactions_skipped

clusterVars == <<parent, taken, refused>>

Inputs(tx) == Spends[tx].inputs

---------------------------------------------------------------------------
\* find: up to the address that is its own parent.  An address is entered in
\* the forest when it is first asked about.
Parent(a) == IF a \in DOMAIN parent THEN parent[a] ELSE a

Root(a) ==
    LET Up[b \in DOMAIN parent \cup {a}] == IF Parent(b) = b THEN b ELSE Up[Parent(b)]
    IN  Up[a]

\* groups: the addresses of one root, when there are several.
Groups ==
    {g \in {{a \in DOMAIN parent : Root(a) = r} : r \in DOMAIN parent} : Cardinality(g) > 1}

\* looks_like_coinjoin: many inputs, and equal amounts paid out.
LooksLikeCoinjoin(tx) ==
    /\ Cardinality(Inputs(tx)) >= MinInputs
    /\ \E amount \in DOMAIN Spends[tx].outputs : Spends[tx].outputs[amount] >= MinEqual

TouchesMixer(tx) == Inputs(tx) \cap MixerInputs # {}

Lone(tx) == Cardinality(Inputs(tx)) < 2

Joins(tx) == ~Lone(tx) /\ ~TouchesMixer(tx) /\ ~LooksLikeCoinjoin(tx)

---------------------------------------------------------------------------
ClusterInit == parent = <<>> /\ taken = {} /\ refused = [coinjoin |-> 0, mixer |-> 0]

\* union of the least input with each other one: the other's root is hung under
\* the first's.  Joining them in turn joins all their roots.
UnionShallow(tx) ==
    LET first == CHOOSE a \in Inputs(tx) : TRUE
    IN  [a \in DOMAIN parent \cup Inputs(tx) |->
           IF a \in Inputs(tx) THEN Root(first) ELSE Parent(a)]

Union(tx) ==
    LET first == CHOOSE a \in Inputs(tx) : TRUE
        roots == {Root(a) : a \in Inputs(tx)}
    IN  [a \in DOMAIN parent \cup Inputs(tx) |->
           IF a \in roots THEN Root(first) ELSE Parent(a)]

Take(tx) ==
    /\ tx \notin taken
    /\ taken' = taken \cup {tx}
    /\ parent' = IF Joins(tx) THEN Union(tx) ELSE parent
    /\ refused' = [coinjoin |-> refused.coinjoin +
                     IF ~Lone(tx) /\ ~TouchesMixer(tx) /\ LooksLikeCoinjoin(tx) THEN 1 ELSE 0,
                   mixer |-> refused.mixer + IF ~Lone(tx) /\ TouchesMixer(tx) THEN 1 ELSE 0]

ClusterNext == \E tx \in DOMAIN Spends : Take(tx)

ClusterSpec == ClusterInit /\ [][ClusterNext]_clusterVars

---------------------------------------------------------------------------
\* propose_cluster_labels: one entity for the unlabelled rest of a cluster; two
\* entities in it prove the cluster wrong, and it is refused whole.
Entities(group) == {Seeds[a] : a \in group \cap DOMAIN Seeds}

Conflicts == {g \in Groups : Cardinality(Entities(g)) > 1}

Proposals ==
    {[entity |-> CHOOSE e \in Entities(g) : TRUE, named |-> g \ DOMAIN Seeds] :
       g \in {h \in Groups : Cardinality(Entities(h)) = 1 /\ h \ DOMAIN Seeds # {}}}

\* A set that no transaction anybody may join leads out of, and one that holds
\* together: no part of it is such a set already.
Closed(some) ==
    \A tx \in taken : Joins(tx) /\ Inputs(tx) \cap some # {} => Inputs(tx) \subseteq some

Connected(group) == Closed(group) /\ \A some \in (SUBSET group) \ {{}, group} : ~Closed(some)

\* Whatever the order of the transactions, the clusters are the connected parts
\* of what was safely co-spent, no more and no less; and an address is named
\* only after an entity that everything labelled it is connected with agrees on.
ClustersAreConnected ==
    /\ \A g \in Groups : Connected(g)
    /\ \A tx \in taken : Joins(tx) => \E g \in Groups : Inputs(tx) \subseteq g
    /\ \A p \in Proposals : \A a \in p.named : \A g \in Groups :
         a \in g => \A b \in g \cap DOMAIN Seeds : Seeds[b] = p.entity
=============================================================================
