----------------------------- MODULE MixerExits -----------------------------
(***************************************************************************)
(* Crossing a mixer.  From the transfers stored around one mixer the       *)
(* engine builds its deposits and withdrawals, one per party and           *)
(* transaction, and the ladder proposes events on the far side of a pool   *)
(* for an event on the near side: identifying rungs first, the strongest   *)
(* that fires wins, the crowd only when none does.  Tracing backward from  *)
(* a withdrawal and forward from a deposit run the same ladder.            *)
(***************************************************************************)
EXTENDS Naturals, FiniteSets, FiniteSetsExt

CONSTANTS
    Transfers,  \* [tx, place, from, to, asset, amount, at, price]
    Mixer,      \* the mixer's address
    Subject,    \* the investigated address
    Window,     \* MIXER_WINDOW: how far from the anchor the crowd reaches
    MaxFollow,  \* MAX_FOLLOW: how much of a crowd is followed
    ReadLimit   \* _MOVEMENT_QUERY_LIMIT: newest transfers read of an address, each side

\* Movements are rows of a database: their order in a transaction tells them apart.
ASSUME TransfersAssumption ==
    /\ IsFiniteSet(Transfers)
    /\ \A r \in Transfers : {r.place, r.amount, r.at} \subseteq Nat
    /\ \A r, s \in Transfers : r.tx = s.tx /\ r.place = s.place => r = s

VARIABLE around  \* the transfers stored so far

Backward == "backward"
Forward  == "forward"
NoPrice  == 0     \* a missing or non-positive gas price

AddressMatch   == 1
LinkedAddress  == 2
UniqueGasPrice == 3
SharedShape    == 4
Crowd          == 5
NoRung         == 6

---------------------------------------------------------------------------
\* movements_around_address: both sides newest first, the same recent period.
ReadBefore(s, r) ==
    \/ s.at > r.at
    \/ s.at = r.at /\ (s.tx < r.tx \/ (s.tx = r.tx /\ s.place < r.place))

Newest(rows) == {r \in rows : Cardinality({s \in rows : ReadBefore(s, r)}) < ReadLimit}

Incoming(stored) == Newest({r \in stored : r.to = Mixer})
Outgoing(stored) == Newest({r \in stored : r.from = Mixer})

NearSide(stored, direction) == IF direction = Backward THEN Outgoing(stored) ELSE Incoming(stored)

\* The party across the mixer's edge.
Across(r) == IF r.to = Mixer THEN r.from ELSE r.to

\* One transaction may move several assets for one party: its largest stands.
Superseded(r, s) == s.amount > r.amount \/ (s.amount = r.amount /\ s.place < r.place)

\* _mixer_facts, one side of it: the rows that stand for their party in their
\* transaction, seen as events of a pool.  A pool is the mixer and an asset.
Standing(rows) ==
    {r \in rows : /\ Across(r) # Mixer
                  /\ \A s \in rows \ {r} : s.tx = r.tx /\ Across(s) = Across(r)
                                             => ~Superseded(r, s)}

Event(r) == [tx |-> r.tx, party |-> Across(r), pool |-> r.asset, amount |-> r.amount,
             at |-> r.at, price |-> r.price]

Deposits(stored)    == {Event(r) : r \in Standing(Incoming(stored))}
Withdrawals(stored) == {Event(r) : r \in Standing(Outgoing(stored))}

OwnSide(stored, direction) ==
    IF direction = Backward THEN Withdrawals(stored) ELSE Deposits(stored)

FarSide(stored, direction) ==
    IF direction = Backward THEN Deposits(stored) ELSE Withdrawals(stored)

\* movement_id: the stored transfer an edge to a candidate is drawn with, kept
\* per (transaction, party) in step with the events.
DrawnWithFirst(stored, direction, event) ==
    CHOOSE r \in IF direction = Backward THEN Incoming(stored) ELSE Outgoing(stored) :
      /\ r.tx = event.tx /\ Across(r) = event.party
      /\ \A s \in stored : s.tx = r.tx /\ Across(s) = Across(r) => s.place >= r.place

DrawnWith(stored, direction, event) ==
    CHOOSE r \in Standing(IF direction = Backward THEN Incoming(stored) ELSE Outgoing(stored)) :
      r.tx = event.tx /\ Across(r) = event.party

\* Direct payments of the anchor's party with another, the mixer's own left out.
\* They are looked for among the anchor party's own newest transfers, each side.
ReadAround(stored, party) ==
    Newest({r \in stored : r.to = party}) \cup Newest({r \in stored : r.from = party})

Linked(stored, anchor, party) ==
    \E r \in ReadAround(stored, anchor.party) :
      Mixer \notin {r.from, r.to} /\ {r.from, r.to} = {anchor.party, party}

---------------------------------------------------------------------------
\* The ladder.  Rank orders events of one anchor: value, nearness, transaction.
Apart(a, b) == IF a > b THEN a - b ELSE b - a

Outranks(anchor, e, f) ==
    LET de == Apart(e.at, anchor.at)
        df == Apart(f.at, anchor.at)
    IN  \/ e.amount > f.amount
        \/ e.amount = f.amount /\ de < df
        \/ e.amount = f.amount /\ de = df /\ e.tx < f.tx

Top(anchor, events, n) ==
    {e \in events : Cardinality({f \in events : Outranks(anchor, f, e)}) < n}

\* Strictly before or strictly after the anchor: one instant is in neither.
InDirection(anchor, direction, e) ==
    IF direction = Backward THEN e.at < anchor.at ELSE e.at > anchor.at

Directional(stored, direction, anchor) ==
    {e \in FarSide(stored, direction) : InDirection(anchor, direction, e)}

FarPool(stored, direction, anchor) ==
    {e \in Directional(stored, direction, anchor) : e.pool = anchor.pool}

MatchAddress(stored, direction, anchor) ==
    {e \in FarPool(stored, direction, anchor) : e.party = anchor.party}

MatchLinked(stored, direction, anchor) ==
    {e \in FarPool(stored, direction, anchor) : Linked(stored, anchor, e.party)}

MatchPriceUnchecked(stored, direction, anchor) ==
    LET sharers == {e \in FarSide(stored, direction) : e.price = anchor.price}
    IN  IF anchor.price # NoPrice /\ Cardinality(sharers) = 1
          THEN sharers \cap FarPool(stored, direction, anchor)
          ELSE {}

\* One price, once on each side of the whole mixer, and there in this pool.
MatchPrice(stored, direction, anchor) ==
    LET far == {e \in FarSide(stored, direction) : e.price = anchor.price}
        own == {e \in OwnSide(stored, direction) : e.price = anchor.price /\ e.tx # anchor.tx}
    IN  IF anchor.price # NoPrice /\ Cardinality(far) = 1 /\ own = {}
          THEN far \cap FarPool(stored, direction, anchor)
          ELSE {}

\* How often a party's events use each pool.
Shape(events) ==
    [pool \in {e.pool : e \in events} |-> Cardinality({e \in events : e.pool = pool})]

OwnEvents(stored, direction, anchor) ==
    {anchor} \cup {e \in OwnSide(stored, direction) : e.party = anchor.party /\ e.tx # anchor.tx}

EventsOf(events, party) == {e \in events : e.party = party}

\* A shape over two pools or more that exactly one far party has.
MatchShape(stored, direction, anchor) ==
    LET shape == Shape(OwnEvents(stored, direction, anchor))
        far   == Directional(stored, direction, anchor)
        alike == {p \in {e.party : e \in far} : Shape(EventsOf(far, p)) = shape}
    IN  IF Cardinality(DOMAIN shape) >= 2 /\ Cardinality(alike) = 1
          THEN Top(anchor, UNION {EventsOf(FarPool(stored, direction, anchor), p) : p \in alike}, 1)
          ELSE {}

Matches(stored, direction, anchor) ==
    <<MatchAddress(stored, direction, anchor), MatchLinked(stored, direction, anchor),
      MatchPrice(stored, direction, anchor), MatchShape(stored, direction, anchor)>>

\* The contemporaneous far events of the pool: the window is theirs alone.
Contemporaries(stored, direction, anchor) ==
    {e \in FarPool(stored, direction, anchor) : Apart(e.at, anchor.at) <= Window}

\* _resolve.  Confidence is a rung's base, or at most one half, over "among".
Resolve(stored, direction, anchor) ==
    LET matches == Matches(stored, direction, anchor)
        fired   == {r \in DOMAIN matches : matches[r] # {}}
        crowd   == Contemporaries(stored, direction, anchor)
        Answer(rung, events, among) ==
          [rung |-> rung, candidates |-> events, among |-> among,
           anonymitySet |-> Cardinality(crowd)]
    IN  IF fired # {}
          THEN LET first == Min(fired)
               IN  Answer(first, matches[first], Cardinality({e.party : e \in matches[first]}))
        ELSE IF crowd # {}
          THEN Answer(Crowd, Top(anchor, crowd, MaxFollow), Cardinality(crowd))
        ELSE Answer(NoRung, {}, 0)

---------------------------------------------------------------------------
\* _mixer_anchor: of the transfers the trace arrived by, the largest.
Anchor(arriving) ==
    CHOOSE r \in arriving :
      \A s \in arriving \ {r} : s.amount < r.amount \/ (s.amount = r.amount /\ s.tx <= r.tx)

\* _enqueue_mixer_candidates: never the subject, never past the cap.  What the
\* record already holds and the node budget are the trace's business.
Proposed(stored, direction, anchor) ==
    {e \in Top(anchor, Resolve(stored, direction, anchor).candidates, MaxFollow) :
       e.party # Subject}

ExitsInit == around = {}

\* A history page read elsewhere in the trace stores a transfer, new or known.
StoreTransfer(r) == around' = around \cup {r}

ExitsNext == \E r \in Transfers : StoreTransfer(r)

ExitsSpec == ExitsInit /\ [][ExitsNext]_around

---------------------------------------------------------------------------
\* Is e the only event of its transaction on its side?
Alone(events, e) == \A f \in events : f.tx = e.tx => f = e

\* Was every stored transfer of the party within what is read of it?
ReadInFull(stored, party) ==
    {r \in stored : party \in {r.from, r.to}} \subseteq ReadAround(stored, party)

\* The ladder singles f out for e: by an address; by a payment, f's party being not
\* too busy for it to be seen from there; by a gas price, no second party sharing e's
\* transaction and with it the price.
Singles(stored, direction, e, f) ==
    LET there == Resolve(stored, direction, e)
    IN  /\ f \in there.candidates
        /\ \/ there.rung = AddressMatch
           \/ there.rung = LinkedAddress /\ ReadInFull(stored, f.party)
           \/ there.rung = UniqueGasPrice /\ Alone(OwnSide(stored, direction), e)

\* Tracing forward from a deposit and backward from a withdrawal never contradict
\* each other: a withdrawal that an address, a payment or a gas price singles out for
\* a deposit is traced back to that deposit, unless stronger evidence on the way back
\* names somebody else.  Two links go one way only, and are excepted.  A payment is
\* read from the anchor's end: to a party with more recent transfers than are read it is
\* found from the quiet end alone.  A gas price that two parties of one transaction
\* share counts as one on the near side and as two on the far side.
SameLinkBothWays ==
    \A d \in Deposits(around), w \in Withdrawals(around) :
      LET there == Resolve(around, Forward, d)
          back  == Resolve(around, Backward, w)
      IN  /\ Singles(around, Forward, d, w) =>
               back.rung < there.rung \/ (back.rung = there.rung /\ d \in back.candidates)
          /\ Singles(around, Backward, w, d) =>
               there.rung < back.rung \/ (there.rung = back.rung /\ w \in there.candidates)

\* Whichever transfers the trace arrived by, every crossing it makes is drawn with
\* the transfer that was proposed: its value, the anchor's pool, and the side of
\* the anchor in time that the direction asks for.
DrawnAsProposed ==
    \A direction \in {Backward, Forward} :
      \A arriving \in (SUBSET NearSide(around, direction)) \ {{}} :
        LET anchor == Event(Anchor(arriving))
        IN  \A e \in Proposed(around, direction, anchor) :
              LET r == DrawnWith(around, direction, e)
              IN  /\ r.amount = e.amount /\ r.asset = anchor.pool
                  /\ InDirection(anchor, direction, r)
=============================================================================
