----------------------------- MODULE Behaviour ------------------------------
(***************************************************************************)
(* What an address's transfers say of its behaviour.  A log of transfers   *)
(* grows as the trace stores them, in whatever order it meets them; the    *)
(* detectors read a recent window of it, the forged assets left out, and   *)
(* conclude: a peel chain, a distribution, a consolidation, a relay, a     *)
(* sweep, an unnamed service.  Beside them, the co-spend clusters, which   *)
(* grow transaction by transaction.                                        *)
(***************************************************************************)
EXTENDS Naturals, Sequences, SequencesExt, FiniteSets, FiniteSetsExt

CONSTANTS
    Movements,      \* [tx, place, from, to, asset, amount, at]
    Focus,          \* the address that is judged
    Verified,       \* the assets of the policy: the native one and the pack's
    Sentinels,      \* all-zero addresses, which nobody operates
    QueryLimit,     \* _MOVEMENT_QUERY_LIMIT
    PeelWindow, HopWindow, SweepDelay,
    FanMin,         \* FAN_MIN_COUNTERPARTIES
    EqualMin,       \* EQUAL_SPLIT_MIN_COUNT
    HopMin,         \* RAPID_HOP_MIN_HOPS
    ServiceMin,     \* MIN_SENDERS and MIN_RECIPIENTS
    ServiceTotal    \* MIN_TOTAL_COUNTERPARTIES

ASSUME BehaviourAssumption ==
    /\ HopWindow \in Nat
    /\ \A r \in Movements : r.at \in Nat /\ r.tx \in Nat /\ r.place \in Nat

VARIABLE log        \* the transfers stored, in the order of their insertion

Unknown == "unknown"   \* an end a half-movement does not name

---------------------------------------------------------------------------
\* Ties in time break on chain data: the transaction, then the place in it.
ByChain(r, s) == r.tx < s.tx \/ (r.tx = s.tx /\ r.place < s.place)

NewestFirst(r, s) == r.at > s.at \/ (r.at = s.at /\ ByChain(r, s))
OldestFirst(r, s) == r.at < s.at \/ (r.at = s.at /\ ByChain(r, s))

\* movements_around_address, then _evidence_grade: the newest transfers of a
\* side, and of those the ones in an asset that cannot be forged.
Recent(rows) ==
    {r \in rows : Cardinality({s \in rows : NewestFirst(s, r)}) < QueryLimit}

Evidence(rows) == {r \in Recent(rows) : r.asset \in Verified}

Received(stored) == Evidence({r \in stored : r.to = Focus})
Sent(stored)     == Evidence({r \in stored : r.from = Focus})

\* Transfers in time order, and the two ends of that order, whichever of equals.
InTime(rows) == SetToSortSeq(rows, OldestFirst)

OldestOf(rows) == CHOOSE r \in rows : \A s \in rows : ~OldestFirst(s, r)
NewestOf(rows) == CHOOSE r \in rows : \A s \in rows : ~OldestFirst(r, s)

Within(received, sent, delay) ==
    sent.asset = received.asset /\ sent.at >= received.at /\ sent.at - received.at <= delay

\* _distinct
Senders(rows)    == {r.from : r \in rows} \ {Unknown}
Recipients(rows) == {r.to : r \in rows} \ {Unknown}

---------------------------------------------------------------------------
\* detect_peel_chain: a receipt most of which goes on while a slice is shed.
\* The bulk is the largest transfer out of the window, the slice the smallest,
\* and the first of equals when either is not alone.
Bulk(onward)  == CHOOSE b \in onward : \A o \in onward \ {b} :
                   o.amount < b.amount \/ (o.amount = b.amount /\ NewestFirst(b, o))
Slice(onward) == CHOOSE s \in onward : \A o \in onward \ {s} :
                   o.amount > s.amount \/ (o.amount = s.amount /\ NewestFirst(s, o))

Peels(ins, outs) ==
    \E received \in ins :
      LET onward == {o \in outs : Within(received, o, PeelWindow)}
      IN  /\ received.amount > 0
          /\ Cardinality(onward) >= 2
          /\ Bulk(onward) # Slice(onward)
          /\ 100 * Bulk(onward).amount >= 70 * received.amount
          /\ Bulk(onward).amount <= received.amount
          /\ Slice(onward).amount > 0
          /\ 100 * Slice(onward).amount <= 30 * received.amount

\* _largest_equal_group: identical amounts of one asset, when there are enough.
EqualGroup(outs) ==
    LET groups == {Cardinality({s \in outs : s.asset = r.asset /\ s.amount = r.amount}) :
                     r \in {o \in outs : o.amount > 0}}
        large  == {n \in groups : n >= EqualMin}
    IN  IF large = {} THEN 0 ELSE Max(large)

\* detect_distribution: one finding for the axis, its headline by the shape.
Distribution(outs) ==
    LET reached == Cardinality(Recipients(outs))
        equal   == EqualGroup(outs)
        fanned  == reached >= FanMin
    IN  CASE fanned /\ equal > 0 /\ 10 * equal >= 8 * reached -> "batch distribution"
          [] fanned /\ (equal = 0 \/ 10 * equal < 8 * reached) -> "splitter"
          [] ~fanned /\ equal > 0                              -> "equal split"
          [] OTHER                                             -> "none"

\* detect_fan_in
Consolidates(ins) == Cardinality(Senders(ins)) >= FanMin

\* detect_rapid_hop: each receipt, in time order, takes the first transfer out
\* of its window that no earlier receipt took.
TakesLatest(free) == IF free = {} THEN {} ELSE {NewestOf(free)}
Takes(free)       == IF free = {} THEN {} ELSE {OldestOf(free)}

Relayed(ins, outs) ==
    LET Used[some \in SUBSET ins] ==
          IF some = {} THEN {}
          ELSE LET received == NewestOf(some)
                   before   == Used[some \ {received}]
               IN  before \cup Takes({s \in outs \ before : Within(received, s, HopWindow)})
    IN  Used[ins]

Relays(ins, outs) == Cardinality(Relayed(ins, outs)) >= HopMin

\* find_sweep_matches: a receipt and the earliest transfer, of another
\* transaction, that sends nearly all of it on.  Equal times break on the id.
Forwards(received, s) ==
    /\ s.tx # received.tx
    /\ Within(received, s, SweepDelay)
    /\ 100 * s.amount >= 95 * received.amount
    /\ s.amount <= received.amount

\* A row's id is its place in the order of insertion.
EarlierForward(inserted, r, s) ==
    \/ r.at < s.at
    \/ r.at = s.at /\ \E i, j \in DOMAIN inserted : i < j /\ inserted[i] = r /\ inserted[j] = s

Sweeps(inserted) ==
    LET outs == Sent(ToSet(inserted))
        Pair(pairs, received) ==
          LET free == {s \in outs : Forwards(received, s) /\ \A p \in pairs : p[2] # s}
          IN  IF received.amount = 0 \/ free = {} THEN pairs
              ELSE pairs \cup {<<received, CHOOSE s \in free :
                                  \A t \in free \ {s} : EarlierForward(inserted, s, t)>>}
    IN  FoldLeft(Pair, {}, InTime(Received(ToSet(inserted))))

\* detect_service_endpoint: busy on both sides, and somebody's.
MeetsServiceThresholds(senders, recipients) ==
    senders >= ServiceMin /\ recipients >= ServiceMin /\ senders + recipients >= ServiceTotal

ServesMany(ins, outs) ==
    /\ Focus \notin Sentinels
    /\ MeetsServiceThresholds(Cardinality(Senders(ins)), Cardinality(Recipients(outs)))

\* _run_detectors and _assess_service: what is concluded from what is stored.
Conclusions(inserted) ==
    LET ins  == Received(ToSet(inserted))
        outs == Sent(ToSet(inserted))
    IN  [peel |-> Peels(ins, outs), spread |-> Distribution(outs),
         collected |-> Consolidates(ins), relay |-> Relays(ins, outs),
         cycles |-> Cardinality(Sweeps(inserted)), service |-> ServesMany(ins, outs)]

BehaviourInit == log = <<>>

\* store_movements: a new row gets the next id, a known one changes nothing.
StoreMovement(r) == log' = IF Contains(log, r) THEN log ELSE Append(log, r)

BehaviourNext == \E r \in Movements : StoreMovement(r)

BehaviourSpec == BehaviourInit /\ [][BehaviourNext]_log

---------------------------------------------------------------------------
\* Every receipt that could be part of a relay cycle and every transfer out that
\* could close one are used as far as possible: the detector counts a largest
\* set of disjoint cycles, though it looks at one receipt at a time.
CyclesAreMaximal ==
    LET ins  == Received(ToSet(log))
        outs == Sent(ToSet(log))
        Reached(some) == {s \in outs : \E r \in some : Within(r, s, HopWindow)}
    IN  Cardinality(Relayed(ins, outs)) =
          Min({Cardinality(ins \ some) + Cardinality(Reached(some)) : some \in SUBSET ins})

\* The same transfers lead to the same conclusions in whatever order the trace
\* came to store them: ties between transfers break on chain data alone.
Reproducible ==
    Conclusions(log) = Conclusions(InTime(ToSet(log)))
=============================================================================
