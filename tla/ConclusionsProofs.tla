------------------------- MODULE ConclusionsProofs -------------------------
(***************************************************************************)
(* Proofs about what is made of the transactions read: one row per         *)
(* transfer in the store, the counterparties two readers take from it, the *)
(* links drawn across a mixer, the clusters of co-spent addresses, and the *)
(* cycles a relay is told by, for any ledger, addresses, thresholds and    *)
(* order of reading.                                                       *)
(***************************************************************************)
EXTENDS Movements, MixerExits, Cospend, Behaviour, FiniteSetTheorems, WellFoundedInduction, TLAPS

LEMMA SmallestPlace ==
  ASSUME NEW S, S \subseteq Nat, S # {}
  PROVE  \E m \in S : \A k \in S : m <= k
<1> DEFINE T == {1..k : k \in S}
           F == FiniteSubsetsOf(Nat)
           R == StrictSubsetOrdering(Nat)
<1>1. IsWellFoundedOn(R, F)
  BY FS_StrictSubsetOrderingWellFounded
<1>2. T \subseteq F
  <2>1. ASSUME NEW k \in S
        PROVE  1..k \in F
    <3>1. IsFiniteSet(1..k) /\ 1..k \in SUBSET Nat
      BY FS_Interval
    <3>2. QED BY <3>1 DEF FiniteSubsetsOf
  <2>2. QED BY <2>1
<1>3. T # {}
  OBVIOUS
<1> HIDE DEF T, F, R
<1>4. PICK x \in T : \A y \in T : ~ (<<y, x>> \in R)
  BY <1>1, <1>2, <1>3, WFMin
<1>5. PICK m \in S : x = 1..m
  BY DEF T
<1>6. ASSUME NEW k \in S, k < m
      PROVE  FALSE
  <2>1. 1..k \in T
    BY DEF T
  <2>2. 1..k \subseteq 1..m /\ 1..k # 1..m
    <3>1. m \in 1..m /\ m \notin 1..k
      BY <1>6
    <3>2. 1..k \subseteq 1..m
      BY <1>6
    <3>3. QED BY <3>1, <3>2
  <2>3. 1..k \in SUBSET Nat /\ 1..m \in SUBSET Nat
    OBVIOUS
  <2>4. <<1..k, 1..m>> \in R
    BY <2>2, <2>3 DEF R, StrictSubsetOrdering
  <2>5. QED BY <1>4, <1>5, <2>1, <2>4
<1>7. QED BY <1>6

-----------------------------------------------------------------------------
(* One row per transfer.                                                    *)

\* The names, section by section.
LEMMA Names ==
  ASSUME NEW v, NEW tx, NEW x, NEW n
  PROVE  /\ x.section \in {"in", "out"} => DedupKey(v, tx, x, n) = <<x.section, x.place>>
         /\ x.section = "native" /\ Ledger[tx].chain = TronTx =>
              DedupKey(v, tx, x, n) = <<"trx", x.place>>
         /\ x.section = "native" /\ Ledger[tx].chain # TronTx =>
              DedupKey(v, tx, x, n) = <<"native">>
         /\ x.section = "internal" =>
              \/ DedupKey(v, tx, x, n) = <<"trace", x.place>>
              \/ DedupKey(v, tx, x, n) = <<"call", x.from, x.to, x.amount>>
         /\ x.section = "token" /\ Ledger[tx].chain = TronTx =>
              DedupKey(v, tx, x, n) = <<"trc20", x.from, x.to, x.asset, x.amount>>
         /\ x.section = "token" /\ Ledger[tx].chain # TronTx =>
              DedupKey(v, tx, x, n) = <<"token", x.from, x.to, x.asset>>
<1>1. ASSUME x.section \in {"in", "out"}
      PROVE  DedupKey(v, tx, x, n) = <<x.section, x.place>>
  BY <1>1 DEF DedupKey
<1>2. ASSUME x.section = "native", Ledger[tx].chain = TronTx
      PROVE  DedupKey(v, tx, x, n) = <<"trx", x.place>>
  BY <1>2 DEF DedupKey
<1>3. ASSUME x.section = "native", Ledger[tx].chain # TronTx
      PROVE  DedupKey(v, tx, x, n) = <<"native">>
  BY <1>3 DEF DedupKey
<1>4. ASSUME x.section = "internal"
      PROVE  \/ DedupKey(v, tx, x, n) = <<"trace", x.place>>
             \/ DedupKey(v, tx, x, n) = <<"call", x.from, x.to, x.amount>>
  BY <1>4 DEF DedupKey
<1>5. ASSUME x.section = "token", Ledger[tx].chain = TronTx
      PROVE  DedupKey(v, tx, x, n) = <<"trc20", x.from, x.to, x.asset, x.amount>>
  BY <1>5 DEF DedupKey
<1>6. ASSUME x.section = "token", Ledger[tx].chain # TronTx
      PROVE  DedupKey(v, tx, x, n) = <<"token", x.from, x.to, x.asset>>
  BY <1>6 DEF DedupKey
<1>7. QED BY <1>1, <1>2, <1>3, <1>4, <1>5, <1>6

\* What two acquisitions call by one name is one transfer, or two that no key can
\* tell apart; either way value of one kind between the same ends.
LEMMA SameName ==
  ASSUME NEW tx \in DOMAIN Ledger, NEW i \in DOMAIN Parts(tx), NEW j \in DOMAIN Parts(tx),
         NEW v, NEW w, NEW n, NEW m,
         DedupKey(v, tx, Parts(tx)[i], n) = DedupKey(w, tx, Parts(tx)[j], m)
  PROVE  LET x == Parts(tx)[i]
             y == Parts(tx)[j]
         IN  /\ x.section = y.section
             /\ i # j => /\ x.from = y.from /\ x.to = y.to
                         /\ \/ x.section = "token" /\ x.asset = y.asset
                               /\ Ledger[tx].chain = TronTx => x.amount = y.amount
                            \/ x.section = "internal" /\ x.amount = y.amount
<1> DEFINE x == Parts(tx)[i]
           y == Parts(tx)[j]
           chain == Ledger[tx].chain
           k == DedupKey(v, tx, x, n)
           l == DedupKey(w, tx, y, m)
<1>1. /\ x.section \in Sections(chain) /\ y.section \in Sections(chain)
      /\ x.section = y.section /\ x.place = y.place => i = j
      /\ chain = EvmTx /\ x.section = "native" /\ y.section = "native" => i = j
  BY LedgerAssumption
<1>2. k = l
  OBVIOUS
<1>3. /\ chain = EvmTx => Sections(chain) = {"native", "token", "internal"} /\ chain # TronTx
      /\ chain = TronTx => Sections(chain) = {"native", "token"}
      /\ chain \notin {EvmTx, TronTx} => Sections(chain) = {"in", "out"}
  BY DEF Sections, EvmTx, TronTx
<1>4. /\ x.section \in {"in", "out"} => k = <<x.section, x.place>>
      /\ x.section = "native" /\ chain = TronTx => k = <<"trx", x.place>>
      /\ x.section = "native" /\ chain # TronTx => k = <<"native">>
      /\ x.section = "internal" =>
           k = <<"trace", x.place>> \/ k = <<"call", x.from, x.to, x.amount>>
      /\ x.section = "token" /\ chain = TronTx =>
           k = <<"trc20", x.from, x.to, x.asset, x.amount>>
      /\ x.section = "token" /\ chain # TronTx => k = <<"token", x.from, x.to, x.asset>>
  BY Names
<1>5. /\ y.section \in {"in", "out"} => l = <<y.section, y.place>>
      /\ y.section = "native" /\ chain = TronTx => l = <<"trx", y.place>>
      /\ y.section = "native" /\ chain # TronTx => l = <<"native">>
      /\ y.section = "internal" =>
           l = <<"trace", y.place>> \/ l = <<"call", y.from, y.to, y.amount>>
      /\ y.section = "token" /\ chain = TronTx =>
           l = <<"trc20", y.from, y.to, y.asset, y.amount>>
      /\ y.section = "token" /\ chain # TronTx => l = <<"token", y.from, y.to, y.asset>>
  BY Names
<1> HIDE DEF x, y, chain, k, l
<1>6. CASE chain = EvmTx
  <2>1. x.section \in {"native", "token", "internal"} /\ y.section \in {"native", "token", "internal"}
    BY <1>1, <1>3, <1>6
  <2>2. x.section = y.section
    BY <1>2, <1>3, <1>4, <1>5, <1>6, <2>1
  <2>3. CASE x.section = "native"
    BY <1>1, <1>6, <2>2, <2>3 DEF x, y, chain
  <2>4. CASE x.section = "token"
    BY <1>2, <1>3, <1>4, <1>5, <1>6, <2>2, <2>4 DEF x, y, chain
  <2>5. CASE x.section = "internal"
    <3>1. CASE k = <<"trace", x.place>>
      <4>1. x.place = y.place
        BY <1>2, <1>5, <2>2, <2>5, <3>1
      <4>2. QED BY <1>1, <2>2, <4>1 DEF x, y
    <3>2. CASE k = <<"call", x.from, x.to, x.amount>>
      <4>1. x.from = y.from /\ x.to = y.to /\ x.amount = y.amount
        BY <1>2, <1>5, <2>2, <2>5, <3>2
      <4>2. QED BY <2>2, <2>5, <4>1 DEF x, y
    <3>3. QED BY <1>4, <2>5, <3>1, <3>2
  <2>6. QED BY <2>1, <2>3, <2>4, <2>5
<1>7. CASE chain = TronTx
  <2>1. x.section \in {"native", "token"} /\ y.section \in {"native", "token"}
    BY <1>1, <1>3, <1>7
  <2>2. x.section = y.section
    BY <1>2, <1>4, <1>5, <1>7, <2>1
  <2>3. CASE x.section = "native"
    <3>1. x.place = y.place
      BY <1>2, <1>4, <1>5, <1>7, <2>2, <2>3
    <3>2. QED BY <1>1, <2>2, <3>1 DEF x, y
  <2>4. CASE x.section = "token"
    <3>1. x.from = y.from /\ x.to = y.to /\ x.asset = y.asset /\ x.amount = y.amount
      BY <1>2, <1>4, <1>5, <1>7, <2>2, <2>4
    <3>2. QED BY <2>2, <2>4, <3>1 DEF x, y
  <2>5. QED BY <2>1, <2>3, <2>4
<1>8. CASE chain \notin {EvmTx, TronTx}
  <2>1. x.section \in {"in", "out"} /\ y.section \in {"in", "out"}
    BY <1>1, <1>3, <1>8
  <2>2. x.section = y.section /\ x.place = y.place
    BY <1>2, <1>4, <1>5, <2>1
  <2>3. QED BY <1>1, <2>2 DEF x, y
<1>9. QED BY <1>6, <1>7, <1>8

\* Only an internal call is named otherwise from one acquisition to another.
LEMMA OtherwiseNamed ==
  ASSUME NEW tx, NEW x, NEW v, NEW w, NEW n, NEW m, x.section # "internal"
  PROVE  DedupKey(v, tx, x, n) = DedupKey(w, tx, x, m)
BY DEF DedupKey

\* A row of an acquisition: what it says of a transfer but for its name is the
\* ledger's.
Read(r) ==
  /\ r.tx \in DOMAIN Ledger /\ r.of \in DOMAIN Parts(r.tx)
  /\ r.section = Part(r).section /\ Addressed(Part(r))
  /\ r.from = Ends(Part(r)).from /\ r.to = Ends(Part(r)).to
  /\ \E view, n : r.key = DedupKey(view, r.tx, Part(r), n)
  /\ r = [tx |-> r.tx, of |-> r.of, key |-> r.key, section |-> r.section,
          from |-> r.from, to |-> r.to]

LEMMA RowsAreRead ==
  ASSUME NEW tx \in DOMAIN Ledger, NEW view, NEW r \in Normalised(view, tx)
  PROVE  Read(r) /\ r.tx = tx
<1>1. PICK i \in DOMAIN Parts(tx) : r = Row(view, tx, i) /\ Addressed(Parts(tx)[i])
  BY DEF Normalised, Emitted, Normalises
<1>2. /\ r.tx = tx /\ r.of = i /\ r.section = Parts(tx)[i].section
      /\ r.from = Ends(Parts(tx)[i]).from /\ r.to = Ends(Parts(tx)[i]).to
      /\ r.key = DedupKey(view, tx, Parts(tx)[i], Position(view, tx, i))
      /\ r = [tx |-> r.tx, of |-> r.of, key |-> r.key, section |-> r.section,
              from |-> r.from, to |-> r.to]
  BY <1>1 DEF Row
<1>3. Part(r) = Parts(tx)[i]
  BY <1>2 DEF Part
<1>4. QED BY <1>1, <1>2, <1>3 DEF Read

\* Rows that clash say the same of the money.
LEMMA ClashingRows ==
  ASSUME NEW r, NEW s, Read(r), Read(s), Clashes(r, s)
  PROVE  /\ r.section = s.section /\ r.from = s.from /\ r.to = s.to
         /\ r.of = s.of => r = s
         /\ r.of = s.of \/ Indistinct(r, s)
<1>1. PICK v, n : r.key = DedupKey(v, r.tx, Part(r), n)
  BY DEF Read
<1>2. PICK w, m : s.key = DedupKey(w, s.tx, Part(s), m)
  BY DEF Read
<1>3. r.tx = s.tx /\ r.key = s.key
  BY DEF Clashes
<1> DEFINE x == Part(r)
           y == Part(s)
<1>4. /\ x.section = y.section
      /\ r.of # s.of => /\ x.from = y.from /\ x.to = y.to
                        /\ \/ x.section = "token" /\ x.asset = y.asset
                              /\ Ledger[r.tx].chain = TronTx => x.amount = y.amount
                           \/ x.section = "internal" /\ x.amount = y.amount
  BY <1>1, <1>2, <1>3, SameName DEF Part, Read
<1>5. r.section = s.section /\ r.section = x.section
  BY <1>4 DEF Read
<1>6. r.of = s.of => r = s
  BY <1>3 DEF Read, Part
<1>7. r.from = s.from /\ r.to = s.to
  BY <1>4, <1>6 DEF Read, Ends
<1>8. r.of = s.of \/ Indistinct(r, s)
  BY <1>4, <1>5, <1>7 DEF Indistinct
<1>9. QED BY <1>5, <1>6, <1>7, <1>8

\* The store holds rows that were acquired, one of each name, and each name.
MovementsInv ==
  /\ stored \subseteq acquired
  /\ \A r \in acquired : Read(r)
  /\ \A r \in acquired : \E s \in stored : Clashes(r, s)
  /\ \A r, s \in stored : Clashes(r, s) => r = s

LEMMA AcquireKeeps ==
  ASSUME MovementsInv, NEW tx \in DOMAIN Ledger, NEW view, Acquire(Normalised(view, tx))
  PROVE  MovementsInv'
<1> DEFINE batch == Normalised(view, tx)
           New(r) == /\ \A s \in stored : ~Clashes(r, s)
                     /\ \A s \in batch : Clashes(r, s) => r.of <= s.of
<1>1. stored' = stored \cup {r \in batch : New(r)} /\ acquired' = acquired \cup batch
  BY DEF Acquire, Stores
<1>2. \A r \in batch : Read(r) /\ r.tx = tx /\ r.of \in Nat
  <2>1. ASSUME NEW r \in batch
        PROVE  Read(r) /\ r.tx = tx /\ r.of \in Nat
    <3>1. Read(r) /\ r.tx = tx
      BY RowsAreRead
    <3>2. QED BY <3>1, LedgerAssumption DEF Read
  <2>2. QED BY <2>1
<1> HIDE DEF batch
<1>3. ASSUME NEW r \in batch, \A s \in stored : ~Clashes(r, s)
      PROVE  \E s \in batch : New(s) /\ Clashes(r, s)
  <2> DEFINE places == {s.of : s \in {t \in batch : Clashes(r, t)}}
  <2>1. places \subseteq Nat /\ places # {}
    BY <1>2 DEF Clashes
  <2> HIDE DEF places
  <2>2. PICK m \in places : \A k \in places : m <= k
    BY <2>1, SmallestPlace
  <2>3. PICK s \in batch : Clashes(r, s) /\ m = s.of
    BY DEF places
  <2>4. ASSUME NEW t \in batch, Clashes(s, t)
        PROVE  s.of <= t.of
    <3>1. t.of \in places
      BY <2>3, <2>4 DEF places, Clashes
    <3>2. QED BY <2>2, <2>3, <3>1
  <2>5. \A t \in stored : ~Clashes(s, t)
    BY <1>3, <2>3 DEF Clashes
  <2>6. QED BY <2>3, <2>4, <2>5
<1>4. \A r \in acquired' : Read(r)
  BY <1>1, <1>2 DEF MovementsInv
<1>5. ASSUME NEW r \in acquired'
      PROVE  \E s \in stored' : Clashes(r, s)
  <2>1. CASE r \in acquired
    BY <1>1, <2>1 DEF MovementsInv
  <2>2. CASE r \in batch
    BY <1>1, <1>3, <2>2
  <2>3. QED BY <1>1, <2>1, <2>2
<1>6. ASSUME NEW r \in stored', NEW s \in stored', Clashes(r, s)
      PROVE  r = s
  <2>1. CASE r \in stored /\ s \in stored
    BY <1>6, <2>1 DEF MovementsInv
  <2>2. CASE r \notin stored /\ s \notin stored
    <3>1. r \in batch /\ s \in batch /\ New(r) /\ New(s) /\ Clashes(s, r)
      BY <1>1, <1>6, <2>2 DEF Clashes
    <3>2. r.of <= s.of /\ s.of <= r.of
      BY <1>6, <3>1
    <3>3. QED BY <1>2, <1>6, <3>1, <3>2, ClashingRows
  <2>3. CASE ~(r \in stored <=> s \in stored)
    <3>1. Clashes(s, r)
      BY <1>6 DEF Clashes
    <3>2. QED BY <1>1, <1>6, <2>3, <3>1
  <2>4. QED BY <2>1, <2>2, <2>3
<1>7. stored' \subseteq acquired'
  BY <1>1 DEF MovementsInv
<1>8. QED BY <1>4, <1>5, <1>6, <1>7 DEF MovementsInv, Clashes

LEMMA MovementsInductive ==
  /\ MovementsInit => MovementsInv
  /\ MovementsInv /\ [MovementsNext]_<<stored, acquired>> => MovementsInv'
<1>1. MovementsInit => MovementsInv
  BY DEF MovementsInit, MovementsInv
<1>2. ASSUME MovementsInv, MovementsNext
      PROVE  MovementsInv'
  <2>1. PICK tx \in DOMAIN Ledger : \E view \in Views(tx) : Acquire(Normalised(view, tx))
    BY <1>2 DEF MovementsNext, Batches
  <2>2. QED BY <1>2, <2>1, AcquireKeeps
<1>3. ASSUME MovementsInv, UNCHANGED <<stored, acquired>>
      PROVE  MovementsInv'
  BY <1>3 DEF MovementsInv, Clashes, Read, Part
<1>4. QED BY <1>1, <1>2, <1>3

\* In every ledger, in whatever order and from whatever vantages it is read, no
\* transfer is stored twice under one name, and none is lost to another it can be
\* told from (store_movements).
THEOREM StoredOnce == MovementsSpec => []OneRowPerTransfer
<1>1. ASSUME MovementsInv
      PROVE  OneRowPerTransfer
  <2>1. ASSUME NEW r \in stored, NEW s \in stored, r.tx = s.tx, r.of = s.of
        PROVE  r = s \/ Renamed(r, s)
    <3>1. Read(r) /\ Read(s)
      BY <1>1 DEF MovementsInv
    <3>2. CASE r.key = s.key
      BY <1>1, <2>1, <3>2 DEF MovementsInv, Clashes
    <3>3. CASE r.key # s.key
      <4>1. r.section = "internal"
        BY <2>1, <3>1, <3>3, OtherwiseNamed DEF Read, Part
      <4>2. QED BY <3>3, <4>1 DEF Renamed
    <3>4. QED BY <3>2, <3>3
  <2>2. ASSUME NEW r \in acquired
        PROVE  \E s \in stored : s.tx = r.tx /\ (s.of = r.of \/ Indistinct(r, s))
    <3>1. PICK s \in stored : Clashes(r, s)
      BY <1>1 DEF MovementsInv
    <3>2. Read(r) /\ Read(s)
      BY <1>1 DEF MovementsInv
    <3>3. QED BY <3>1, <3>2, ClashingRows DEF Clashes
  <2>3. QED BY <2>1, <2>2 DEF OneRowPerTransfer
<1>2. QED BY <1>1, MovementsInductive, PTL DEF MovementsSpec


\* What is stored and what was acquired hold the same sections, ends and transactions.
LEMMA StoreSaysTheSame ==
  ASSUME MovementsInv, NEW r \in acquired
  PROVE  \E s \in stored : /\ s.tx = r.tx /\ s.section = r.section
                           /\ s.from = r.from /\ s.to = r.to
<1>1. PICK s \in stored : Clashes(r, s)
  BY DEF MovementsInv
<1>2. Read(r) /\ Read(s)
  BY DEF MovementsInv
<1>3. QED BY <1>1, <1>2, ClashingRows DEF Clashes

\* A half has one end, every other row has two.
LEMMA EndsOfRows ==
  ASSUME NEW r, Read(r)
  PROVE  /\ r.section = "in" => r.from # Nobody /\ r.to = Nobody
         /\ r.section = "out" => r.from = Nobody /\ r.to # Nobody
         /\ ~Half(r) => r.from # Nobody /\ r.to # Nobody
<1>1. CASE Part(r).section = "in"
  BY <1>1 DEF Read, Ends, Addressed, Half
<1>2. CASE Part(r).section = "out"
  BY <1>2 DEF Read, Ends, Addressed, Half
<1>3. CASE Part(r).section \notin {"in", "out"}
  BY <1>3 DEF Read, Ends, Addressed, Half
<1>4. QED BY <1>1, <1>2, <1>3

\* The trace and the manual explorer find the same counterparties of every address in
\* the same transactions, the halves of UTXO transactions joined (derive_counterparties,
\* one_hop_transfers).
THEOREM SameCounterparties == MovementsSpec => []ReadersAgree
<1>1. ASSUME MovementsInv, NEW a \in Person
      PROVE  ExploredSenders(acquired, a) = TracedSenders(stored, a)
  <2>1. a # Nobody
    BY LedgerAssumption
  <2>2. ASSUME NEW p \in ExploredSenders(acquired, a)
        PROVE  p \in TracedSenders(stored, a)
    <3>1. CASE \E r \in acquired : ~Half(r) /\ r.to = a /\ r.from # a /\ p = r.from
      <4>1. PICK r \in acquired : ~Half(r) /\ r.to = a /\ r.from # a /\ p = r.from
        BY <3>1
      <4>2. PICK s \in stored : s.from = r.from /\ s.to = r.to
        BY <1>1, StoreSaysTheSame
      <4>3. r.from # Nobody
        BY <1>1, <4>1, EndsOfRows DEF MovementsInv
      <4>4. QED BY <4>1, <4>2, <4>3 DEF TracedSenders, Towards
    <3>2. CASE \E h, r \in acquired : /\ h.section = "in" /\ h.from # a /\ p = h.from
                                      /\ r.tx = h.tx /\ r.section = "out" /\ r.to = a
      <4>1. PICK h \in acquired, r \in acquired :
              /\ h.section = "in" /\ h.from # a /\ p = h.from
              /\ r.tx = h.tx /\ r.section = "out" /\ r.to = a
        BY <3>2
      <4>2. PICK g \in stored : g.tx = h.tx /\ g.section = "in" /\ g.from = h.from
        BY <1>1, <4>1, StoreSaysTheSame
      <4>3. PICK s \in stored : s.tx = r.tx /\ s.to = a /\ s.from = r.from
        BY <1>1, <4>1, StoreSaysTheSame
      <4>4. h.from # Nobody /\ r.from = Nobody
        BY <1>1, <4>1, EndsOfRows DEF MovementsInv
      <4>5. QED BY <4>1, <4>2, <4>3, <4>4 DEF TracedSenders, Towards
    <3>3. QED BY <2>2, <3>1, <3>2 DEF ExploredSenders
  <2>3. ASSUME NEW p \in TracedSenders(stored, a)
        PROVE  p \in ExploredSenders(acquired, a)
    <3>1. stored \subseteq acquired /\ \A r \in stored : Read(r)
      BY <1>1 DEF MovementsInv
    <3>2. p # a /\ p # Nobody
      BY <2>3 DEF TracedSenders
    <3>3. CASE \E r \in stored : r.to = a /\ r.from # Nobody /\ p = r.from
      <4>1. PICK r \in stored : r.to = a /\ r.from # Nobody /\ p = r.from
        BY <3>3
      <4>2. ~Half(r)
        BY <2>1, <3>1, <4>1, EndsOfRows DEF Half
      <4>3. QED BY <3>1, <3>2, <4>1, <4>2 DEF ExploredSenders
    <3>4. CASE \E h, r \in stored : /\ h.section = "in" /\ p = h.from
                                    /\ r.tx = h.tx /\ r.to = a /\ r.from = Nobody
      <4>1. PICK h \in stored, r \in stored : /\ h.section = "in" /\ p = h.from
                                              /\ r.tx = h.tx /\ r.to = a /\ r.from = Nobody
        BY <3>4
      <4>2. r.section = "out"
        BY <2>1, <3>1, <4>1, EndsOfRows DEF Half
      <4>3. QED BY <3>1, <3>2, <4>1, <4>2 DEF ExploredSenders
    <3>5. QED BY <2>3, <3>3, <3>4 DEF TracedSenders, Towards
  <2>4. QED BY <2>2, <2>3
<1>2. ASSUME MovementsInv, NEW a \in Person
      PROVE  ExploredRecipients(acquired, a) = TracedRecipients(stored, a)
  <2>1. a # Nobody
    BY LedgerAssumption
  <2>2. ASSUME NEW p \in ExploredRecipients(acquired, a)
        PROVE  p \in TracedRecipients(stored, a)
    <3>1. CASE \E r \in acquired : ~Half(r) /\ r.from = a /\ r.to # a /\ p = r.to
      <4>1. PICK r \in acquired : ~Half(r) /\ r.from = a /\ r.to # a /\ p = r.to
        BY <3>1
      <4>2. PICK s \in stored : s.from = r.from /\ s.to = r.to
        BY <1>2, StoreSaysTheSame
      <4>3. r.to # Nobody
        BY <1>2, <4>1, EndsOfRows DEF MovementsInv
      <4>4. QED BY <4>1, <4>2, <4>3 DEF TracedRecipients, From
    <3>2. CASE \E h, r \in acquired : /\ h.section = "out" /\ h.to # a /\ p = h.to
                                      /\ r.tx = h.tx /\ r.section = "in" /\ r.from = a
      <4>1. PICK h \in acquired, r \in acquired :
              /\ h.section = "out" /\ h.to # a /\ p = h.to
              /\ r.tx = h.tx /\ r.section = "in" /\ r.from = a
        BY <3>2
      <4>2. PICK g \in stored : g.tx = h.tx /\ g.section = "out" /\ g.to = h.to
        BY <1>2, <4>1, StoreSaysTheSame
      <4>3. PICK s \in stored : s.tx = r.tx /\ s.from = a /\ s.to = r.to
        BY <1>2, <4>1, StoreSaysTheSame
      <4>4. h.to # Nobody /\ r.to = Nobody
        BY <1>2, <4>1, EndsOfRows DEF MovementsInv
      <4>5. QED BY <4>1, <4>2, <4>3, <4>4 DEF TracedRecipients, From
    <3>3. QED BY <2>2, <3>1, <3>2 DEF ExploredRecipients
  <2>3. ASSUME NEW p \in TracedRecipients(stored, a)
        PROVE  p \in ExploredRecipients(acquired, a)
    <3>1. stored \subseteq acquired /\ \A r \in stored : Read(r)
      BY <1>2 DEF MovementsInv
    <3>2. p # a /\ p # Nobody
      BY <2>3 DEF TracedRecipients
    <3>3. CASE \E r \in stored : r.from = a /\ r.to # Nobody /\ p = r.to
      <4>1. PICK r \in stored : r.from = a /\ r.to # Nobody /\ p = r.to
        BY <3>3
      <4>2. ~Half(r)
        BY <2>1, <3>1, <4>1, EndsOfRows DEF Half
      <4>3. QED BY <3>1, <3>2, <4>1, <4>2 DEF ExploredRecipients
    <3>4. CASE \E h, r \in stored : /\ h.section = "out" /\ p = h.to
                                    /\ r.tx = h.tx /\ r.from = a /\ r.to = Nobody
      <4>1. PICK h \in stored, r \in stored : /\ h.section = "out" /\ p = h.to
                                              /\ r.tx = h.tx /\ r.from = a /\ r.to = Nobody
        BY <3>4
      <4>2. r.section = "in"
        BY <2>1, <3>1, <4>1, EndsOfRows DEF Half
      <4>3. QED BY <3>1, <3>2, <4>1, <4>2 DEF ExploredRecipients
    <3>5. QED BY <2>3, <3>3, <3>4 DEF TracedRecipients, From
  <2>4. QED BY <2>2, <2>3
<1>3. MovementsInv => ReadersAgree
  BY <1>1, <1>2 DEF ReadersAgree
<1>4. QED BY <1>3, MovementsInductive, PTL DEF MovementsSpec


-----------------------------------------------------------------------------
(* Crossing a mixer.                                                        *)

LEMMA RowsOfASide ==
  ASSUME NEW held, held \subseteq Transfers
  PROVE  /\ Incoming(held) \subseteq Transfers /\ Outgoing(held) \subseteq Transfers
         /\ IsFiniteSet(Incoming(held)) /\ IsFiniteSet(Outgoing(held))
<1>1. Incoming(held) \subseteq Transfers /\ Outgoing(held) \subseteq Transfers
  BY DEF Incoming, Outgoing, Newest
<1>2. QED BY <1>1, FS_Subset, TransfersAssumption

\* Of the rows of one party in one transaction only one stands.
LEMMA OneStands ==
  ASSUME NEW rows, rows \subseteq Transfers,
         NEW r \in Standing(rows), NEW s \in Standing(rows),
         r.tx = s.tx, Across(r) = Across(s)
  PROVE  r = s
<1> SUFFICES ASSUME r # s
             PROVE  FALSE
  OBVIOUS
<1>1. ~Superseded(r, s) /\ ~Superseded(s, r)
  BY DEF Standing
<1>2. r \in Transfers /\ s \in Transfers
  BY DEF Standing
<1>3. {r.place, r.amount} \subseteq Nat /\ {s.place, s.amount} \subseteq Nat
  BY <1>2, TransfersAssumption
<1>4. r.amount = s.amount /\ r.place = s.place
  BY <1>1, <1>3 DEF Superseded
<1>5. QED BY <1>2, <1>4, TransfersAssumption

\* The rows the events of a side come from.
SideRows(held, direction) == IF direction = Backward THEN Incoming(held) ELSE Outgoing(held)

LEMMA FarEvents ==
  ASSUME NEW held, NEW direction
  PROVE  FarSide(held, direction) = {Event(r) : r \in Standing(SideRows(held, direction))}
BY DEF FarSide, Deposits, Withdrawals, SideRows

\* The answer of the ladder: the first rung that fired, whole, or the crowd.
LEMMA LadderAnswers ==
  ASSUME NEW held, NEW direction, NEW anchor
  PROVE  LET m == Matches(held, direction, anchor)
             answer == Resolve(held, direction, anchor)
         IN  \/ /\ answer.rung \in 1..4 /\ answer.candidates = m[answer.rung]
                /\ answer.candidates # {}
                /\ \A k \in 1..4 : m[k] # {} => answer.rung <= k
             \/ /\ answer.rung \in {Crowd, NoRung} /\ \A k \in 1..4 : m[k] = {}
                /\ answer.candidates \subseteq FarPool(held, direction, anchor)
<1> DEFINE m == Matches(held, direction, anchor)
           answer == Resolve(held, direction, anchor)
           fired == {r \in DOMAIN m : m[r] # {}}
           crowd == Contemporaries(held, direction, anchor)
<1>1. DOMAIN m = 1..4
  BY DEF Matches
<1>2. CASE fired # {}
  <2>1. \E x \in fired : \A y \in fired : x <= y
    <3>1. fired \subseteq {1, 2, 3, 4}
      BY <1>1
    <3> HIDE DEF fired
    <3>2. CASE 1 \in fired
      BY <3>1, <3>2
    <3>3. CASE 1 \notin fired /\ 2 \in fired
      BY <3>1, <3>3
    <3>4. CASE 1 \notin fired /\ 2 \notin fired /\ 3 \in fired
      BY <3>1, <3>4
    <3>5. CASE 1 \notin fired /\ 2 \notin fired /\ 3 \notin fired
      <4>1. PICK x : x \in fired
        BY <1>2
      <4>2. \A y \in fired : y = 4
        BY <3>1, <3>5
      <4>3. QED BY <4>1, <4>2
    <3>6. QED BY <3>2, <3>3, <3>4, <3>5
  <2>2. Min(fired) \in fired /\ \A y \in fired : Min(fired) <= y
    BY <2>1 DEF Min
  <2>3. answer.rung = Min(fired) /\ answer.candidates = m[Min(fired)]
    BY <1>2 DEF Resolve
  <2> HIDE DEF answer
  <2>4. QED BY <1>1, <2>2, <2>3 DEF answer
<1>3. CASE fired = {}
  <2>1. \A k \in 1..4 : m[k] = {}
    BY <1>1, <1>3
  <2>2. answer.rung \in {Crowd, NoRung} /\ answer.candidates \in {{}, Top(anchor, crowd, MaxFollow)}
    BY <1>3 DEF Resolve
  <2>3. Top(anchor, crowd, MaxFollow) \subseteq FarPool(held, direction, anchor)
    BY DEF Top, Contemporaries
  <2>4. answer.candidates \subseteq FarPool(held, direction, anchor)
    BY <2>2, <2>3
  <2>5. QED BY <2>1, <2>2, <2>4
<1>4. QED BY <1>2, <1>3

LEMMA CandidatesAreOfThePool ==
  ASSUME NEW held, NEW direction, NEW anchor
  PROVE  Resolve(held, direction, anchor).candidates \subseteq FarPool(held, direction, anchor)
<1> DEFINE m == Matches(held, direction, anchor)
           P == FarPool(held, direction, anchor)
<1>1. /\ m[1] = MatchAddress(held, direction, anchor)
      /\ m[2] = MatchLinked(held, direction, anchor)
      /\ m[3] = MatchPrice(held, direction, anchor)
      /\ m[4] = MatchShape(held, direction, anchor)
  BY DEF Matches
<1>2. MatchAddress(held, direction, anchor) \subseteq P /\ MatchLinked(held, direction, anchor) \subseteq P
  BY DEF MatchAddress, MatchLinked
<1>3. MatchPrice(held, direction, anchor) \subseteq P
  BY DEF MatchPrice
<1>4. MatchShape(held, direction, anchor) \subseteq P
  BY DEF MatchShape, Top, EventsOf
<1> HIDE DEF m, P
<1>5. \A k \in 1..4 : m[k] \subseteq P
  <2>1. ASSUME NEW k \in 1..4
        PROVE  m[k] \subseteq P
    <3>1. k = 1 \/ k = 2 \/ k = 3 \/ k = 4
      OBVIOUS
    <3>2. QED BY <1>1, <1>2, <1>3, <1>4, <3>1
  <2>2. QED BY <2>1
<1>6. QED BY <1>5, LadderAnswers DEF m, P

\* Every crossing is drawn with the transfer that was proposed, whichever transfers
\* the trace arrived by (_mixer_facts keeps events and held rows in step).
THEOREM CrossingsAreDrawnAsProposed == ExitsSpec => []DrawnAsProposed
<1> DEFINE Inv == around \subseteq Transfers
<1>1. ExitsInit => Inv
  BY DEF ExitsInit
<1>2. Inv /\ [ExitsNext]_around => Inv'
  BY DEF ExitsNext, StoreTransfer
<1>3. ASSUME Inv, NEW direction, NEW anchor, NEW e \in Proposed(around, direction, anchor)
      PROVE  LET r == DrawnWith(around, direction, e)
             IN  /\ r.amount = e.amount /\ r.asset = anchor.pool
                 /\ InDirection(anchor, direction, r)
  <2> DEFINE rows == SideRows(around, direction)
             r == DrawnWith(around, direction, e)
  <2>1. e \in FarPool(around, direction, anchor)
    BY CandidatesAreOfThePool DEF Proposed, Top
  <2>2. /\ e \in FarSide(around, direction) /\ e.pool = anchor.pool
        /\ InDirection(anchor, direction, e)
    BY <2>1 DEF FarPool, Directional
  <2>3. PICK s \in Standing(rows) : e = Event(s)
    BY <2>2, FarEvents
  <2>4. s.tx = e.tx /\ Across(s) = e.party /\ s.amount = e.amount /\ s.asset = e.pool /\ s.at = e.at
    BY <2>3 DEF Event
  <2>5. r \in Standing(rows) /\ r.tx = e.tx /\ Across(r) = e.party
    BY <2>4 DEF DrawnWith, SideRows
  <2>6. rows \subseteq Transfers
    BY <1>3, RowsOfASide DEF SideRows
  <2> HIDE DEF rows, r
  <2>7. r = s
    BY <2>4, <2>5, <2>6, OneStands
  <2>8. InDirection(anchor, direction, r)
    BY <2>2, <2>4, <2>7 DEF InDirection
  <2>9. QED BY <2>2, <2>4, <2>7, <2>8 DEF r
<1>4. Inv => DrawnAsProposed
  BY <1>3 DEF DrawnAsProposed
<1>5. QED BY <1>1, <1>2, <1>4, PTL DEF ExitsSpec


\* Seen from the event on the other side.
Opposite(direction) == IF direction = Backward THEN Forward ELSE Backward

LEMMA SidesAreSwapped ==
  ASSUME NEW held, NEW direction \in {Backward, Forward}
  PROVE  /\ Opposite(direction) \in {Backward, Forward}
         /\ FarSide(held, Opposite(direction)) = OwnSide(held, direction)
         /\ OwnSide(held, Opposite(direction)) = FarSide(held, direction)
BY DEF Opposite, FarSide, OwnSide, Backward, Forward

LEMMA EventsAreTimed ==
  ASSUME NEW held, held \subseteq Transfers, NEW direction, NEW e \in FarSide(held, direction)
  PROVE  e.at \in Nat
<1>1. PICK r \in Standing(SideRows(held, direction)) : e = Event(r)
  BY FarEvents
<1>2. r \in Transfers
  BY <1>1, RowsOfASide DEF Standing, SideRows
<1>3. QED BY <1>1, <1>2, TransfersAssumption DEF Event

\* One event lies in the other's half of the pool when the other lies in its own.
LEMMA PoolsMirror ==
  ASSUME NEW held, held \subseteq Transfers, NEW direction \in {Backward, Forward},
         NEW e \in OwnSide(held, direction), NEW f \in FarPool(held, direction, e)
  PROVE  e \in FarPool(held, Opposite(direction), f)
<1>1. f \in FarSide(held, direction) /\ f.pool = e.pool /\ InDirection(e, direction, f)
  BY DEF FarPool, Directional
<1>2. e \in FarSide(held, Opposite(direction))
  BY SidesAreSwapped
<1>3. e.at \in Nat /\ f.at \in Nat
  BY <1>1, <1>2, EventsAreTimed
<1>4. InDirection(f, Opposite(direction), e)
  BY <1>1, <1>3 DEF InDirection, Opposite, Backward, Forward
<1>5. QED BY <1>1, <1>2, <1>4 DEF FarPool, Directional

LEMMA PriceMirrors ==
  ASSUME NEW held, held \subseteq Transfers, NEW direction \in {Backward, Forward},
         NEW e \in OwnSide(held, direction), NEW f \in MatchPrice(held, direction, e),
         Alone(OwnSide(held, direction), e)
  PROVE  e \in MatchPrice(held, Opposite(direction), f)
<1> DEFINE O == OwnSide(held, direction)
           F == FarSide(held, direction)
           sharers == {x \in F : x.price = e.price}
           others == {x \in O : x.price = f.price}
<1>1. /\ e.price # NoPrice /\ Cardinality(sharers) = 1 /\ f \in sharers
      /\ {x \in O : x.price = e.price /\ x.tx # e.tx} = {}
      /\ f \in FarPool(held, direction, e)
  BY DEF MatchPrice
<1>2. f.price = e.price
  BY <1>1
<1>3. IsFiniteSet(sharers)
  <2>1. IsFiniteSet(F)
    <3> DEFINE S == Standing(SideRows(held, direction))
    <3>1. IsFiniteSet(S)
      BY RowsOfASide, FS_Subset DEF SideRows, Standing
    <3>2. F = {Event(r) : r \in S}
      BY FarEvents
    <3>3. [r \in S |-> Event(r)] \in Surjection(S, F)
      BY <3>2 DEF Surjection
    <3> HIDE DEF S, F
    <3>4. QED BY <3>1, <3>3, FS_Surjection
  <2>2. QED BY <2>1, FS_Subset
<1>4. sharers = {f}
  <2>1. PICK g : sharers = {g}
    BY <1>1, <1>3, FS_Singleton
  <2>2. QED BY <1>1, <2>1
<1>5. others = {e}
  BY <1>1, <1>2 DEF Alone
<1>6. Cardinality(others) = 1
  BY <1>5, FS_Singleton
<1>7. {x \in F : x.price = f.price /\ x.tx # f.tx} = {}
  BY <1>2, <1>4
<1>8. e \in FarPool(held, Opposite(direction), f)
  BY <1>1, PoolsMirror
<1>9. QED BY <1>1, <1>2, <1>5, <1>6, <1>7, <1>8, SidesAreSwapped DEF MatchPrice

\* A payment found from one end is found from an end that is read in full.
LEMMA PaymentSeenBack ==
  ASSUME NEW held, NEW e, NEW f, Linked(held, e, f.party), ReadInFull(held, f.party)
  PROVE  Linked(held, f, e.party)
<1>1. PICK r \in ReadAround(held, e.party) :
        Mixer \notin {r.from, r.to} /\ {r.from, r.to} = {e.party, f.party}
  BY DEF Linked
<1>2. r \in held /\ f.party \in {r.from, r.to}
  BY <1>1 DEF ReadAround, Newest
<1>3. r \in ReadAround(held, f.party)
  BY <1>2 DEF ReadInFull
<1>4. {r.from, r.to} = {f.party, e.party}
  BY <1>1
<1>5. QED BY <1>1, <1>3, <1>4 DEF Linked

\* What singles f out for e on the way there singles e out for f on the way back.
LEMMA RungsMirror ==
  ASSUME NEW held, held \subseteq Transfers, NEW direction \in {Backward, Forward},
         NEW e \in OwnSide(held, direction),
         NEW k \in 1..3, NEW f \in Matches(held, direction, e)[k],
         k = 2 => ReadInFull(held, f.party),
         k = 3 => Alone(OwnSide(held, direction), e)
  PROVE  e \in Matches(held, Opposite(direction), f)[k]
<1>1. CASE k = 1
  <2>1. f \in FarPool(held, direction, e) /\ f.party = e.party
    BY <1>1 DEF Matches, MatchAddress
  <2>2. e \in MatchAddress(held, Opposite(direction), f)
    BY <2>1, PoolsMirror DEF MatchAddress
  <2>3. QED BY <1>1, <2>2 DEF Matches
<1>2. CASE k = 2
  <2>1. f \in FarPool(held, direction, e) /\ Linked(held, e, f.party)
    BY <1>2 DEF Matches, MatchLinked
  <2>2. Linked(held, f, e.party)
    BY <1>2, <2>1, PaymentSeenBack
  <2>3. e \in MatchLinked(held, Opposite(direction), f)
    BY <2>1, <2>2, PoolsMirror DEF MatchLinked
  <2>4. QED BY <1>2, <2>3 DEF Matches
<1>3. CASE k = 3
  <2>1. f \in MatchPrice(held, direction, e)
    BY <1>3 DEF Matches
  <2>2. e \in MatchPrice(held, Opposite(direction), f)
    BY <1>3, <2>1, PriceMirrors
  <2>3. QED BY <1>3, <2>2 DEF Matches
<1>4. QED BY <1>1, <1>2, <1>3

\* The answer for the way back is stronger, or names the event it came from.
LEMMA WayBack ==
  ASSUME NEW held, held \subseteq Transfers, NEW direction \in {Backward, Forward},
         NEW e \in OwnSide(held, direction),
         NEW f, Singles(held, direction, e, f)
  PROVE  LET there == Resolve(held, direction, e)
             back  == Resolve(held, Opposite(direction), f)
         IN  back.rung < there.rung \/ (back.rung = there.rung /\ e \in back.candidates)
<1> DEFINE there == Resolve(held, direction, e)
           back == Resolve(held, Opposite(direction), f)
           m == Matches(held, Opposite(direction), f)
<1>1. there.rung \in 1..3 /\ f \in Matches(held, direction, e)[there.rung]
  BY LadderAnswers DEF Crowd, NoRung, AddressMatch, LinkedAddress, UniqueGasPrice, Singles
<1>2. /\ there.rung = 2 => ReadInFull(held, f.party)
      /\ there.rung = 3 => Alone(OwnSide(held, direction), e)
  BY DEF Singles, AddressMatch, LinkedAddress, UniqueGasPrice
<1>3. e \in m[there.rung]
  BY <1>1, <1>2, RungsMirror
<1>4. back.rung \in 1..4 /\ back.candidates = m[back.rung] /\ back.rung <= there.rung
  BY <1>1, <1>3, LadderAnswers
<1> HIDE DEF there, back, m
<1>5. QED BY <1>1, <1>3, <1>4 DEF there, back

\* A link that an address or a gas price singles out is found from both of its ends,
\* and one of a payment too where the transfers of the far party were read in full,
\* unless stronger evidence names somebody else (_mixer_facts, _resolve, match_exits).
THEOREM LinksAreFoundFromBothEnds == ExitsSpec => []SameLinkBothWays
<1>1. ExitsInit => around \subseteq Transfers
  BY DEF ExitsInit
<1>2. around \subseteq Transfers /\ [ExitsNext]_around => (around \subseteq Transfers)'
  BY DEF ExitsNext, StoreTransfer
<1>3. around \subseteq Transfers => SameLinkBothWays
  <2> SUFFICES ASSUME around \subseteq Transfers,
                      NEW d \in Deposits(around), NEW w \in Withdrawals(around)
               PROVE  LET there == Resolve(around, Forward, d)
                          back  == Resolve(around, Backward, w)
                      IN  /\ Singles(around, Forward, d, w) =>
                               back.rung < there.rung \/ (back.rung = there.rung /\ d \in back.candidates)
                          /\ Singles(around, Backward, w, d) =>
                               there.rung < back.rung \/ (there.rung = back.rung /\ w \in there.candidates)
    BY DEF SameLinkBothWays
  <2>1. /\ OwnSide(around, Forward) = Deposits(around) /\ Opposite(Forward) = Backward
        /\ OwnSide(around, Backward) = Withdrawals(around) /\ Opposite(Backward) = Forward
    BY DEF OwnSide, Opposite, Forward, Backward
  <2>2. QED BY <2>1, WayBack
<1>4. QED BY <1>1, <1>2, <1>3, PTL DEF ExitsSpec



-----------------------------------------------------------------------------
(* Co-spend clusters.  R gives every address of the forest its root.         *)

Apex(R, a) == IF a \in DOMAIN R THEN R[a] ELSE a

\* p is a forest: every set that p does not lead out of holds a root.
Forest(p) ==
    /\ p \in [DOMAIN p -> DOMAIN p]
    /\ \A some \in SUBSET DOMAIN p :
         some # {} /\ (\A b \in some : p[b] \in some) => \E b \in some : p[b] = b

Rooted(p, R) ==
    /\ R \in [DOMAIN p -> DOMAIN p]
    /\ \A b \in DOMAIN p : /\ R[b] = IF p[b] = b THEN b ELSE R[p[b]]
                           /\ p[R[b]] = R[b]

\* The inputs of a joined transaction share a root.
Tied(done, R) ==
    \A tx \in done : Joins(tx) => /\ Inputs(tx) \subseteq DOMAIN R
                                  /\ \A a, b \in Inputs(tx) : R[a] = R[b]

ClosedFor(done, some) ==
    \A tx \in done : Joins(tx) /\ Inputs(tx) \cap some # {} => Inputs(tx) \subseteq some

\* Addresses of one root cannot be told apart by what the transactions join.
Sealed(done, R) ==
    \A some : ClosedFor(done, some) =>
      \A a, b \in DOMAIN R : R[a] = R[b] /\ a \in some => b \in some

ClusterInv ==
    /\ taken \subseteq DOMAIN Spends
    /\ IsFiniteSet(DOMAIN parent)
    /\ Forest(parent)
    /\ \E R : Rooted(parent, R) /\ Tied(taken, R) /\ Sealed(taken, R)

\* find reaches the root.
LEMMA FindReachesTheRoot ==
  ASSUME Forest(parent), NEW R, Rooted(parent, R), NEW a
  PROVE  Root(a) = Apex(R, a)
<1> DEFINE D == DOMAIN parent
           S == D \cup {a}
           Climbs(f) == f = [b \in S |-> IF Parent(b) = b THEN b ELSE f[Parent(b)]]
           top == [b \in S |-> Apex(R, b)]
<1>1. \A b \in S : Parent(b) \in S /\ (b \notin D => Parent(b) = b)
  BY DEF Parent, Forest
<1>2. Climbs(top)
  <2>1. ASSUME NEW b \in S
        PROVE  Apex(R, b) = IF Parent(b) = b THEN b ELSE top[Parent(b)]
    <3>1. CASE b \in D
      <4>1. Parent(b) = parent[b] /\ parent[b] \in D
        BY <3>1 DEF Parent, Forest
      <4>2. R[b] = IF parent[b] = b THEN b ELSE R[parent[b]]
        BY <3>1 DEF Rooted
      <4>3. Apex(R, b) = R[b] /\ Apex(R, parent[b]) = R[parent[b]]
        BY <3>1, <4>1 DEF Apex, Rooted
      <4>4. QED BY <4>1, <4>2, <4>3
    <3>2. CASE b \notin D
      BY <3>2, <1>1 DEF Apex, Rooted
    <3>3. QED BY <3>1, <3>2
  <2>2. QED BY <2>1
<1>3. ASSUME NEW f, Climbs(f)
      PROVE  f = top
  <2> DEFINE differ == {b \in S : f[b] # top[b]}
  <2>1. \A b \in S : f[b] = IF Parent(b) = b THEN b ELSE f[Parent(b)]
    BY <1>3
  <2>2. \A b \in S : top[b] = IF Parent(b) = b THEN b ELSE top[Parent(b)]
    BY <1>2
  <2> HIDE DEF top
  <2>3. \A b \in differ : Parent(b) # b /\ Parent(b) \in differ
    BY <1>1, <2>1, <2>2
  <2>4. differ \subseteq D
    BY <1>1, <2>3
  <2>5. \A b \in differ : parent[b] # b /\ parent[b] \in differ
    BY <2>3, <2>4 DEF Parent
  <2>6. differ = {}
    BY <2>4, <2>5 DEF Forest
  <2>7. \A b \in S : f[b] = top[b]
    BY <2>6
  <2>8. f = [b \in S |-> f[b]] /\ top = [b \in S |-> top[b]]
    BY <1>3 DEF top
  <2>9. QED BY <2>7, <2>8
<1>4. Root(a) = (CHOOSE f : Climbs(f))[a]
  BY DEF Root
<1>5. (CHOOSE f : Climbs(f)) = top
  <2> HIDE DEF Climbs, top
  <2>1. QED BY <1>2, <1>3
<1>6. QED BY <1>4, <1>5


\* The roots of a forest are their own roots, and lie in it.
LEMMA RootsStay ==
  ASSUME NEW p, Forest(p), NEW R, Rooted(p, R), NEW b \in DOMAIN p
  PROVE  R[b] \in DOMAIN p /\ R[R[b]] = R[b] /\ (R[b] = b <=> p[b] = b)
BY DEF Forest, Rooted

\* The forest after a union, and its roots.
Hung(p, R, new, first) ==
    [a \in DOMAIN p \cup new |-> IF a \in {Apex(R, i) : i \in new} THEN Apex(R, first)
                                 ELSE IF a \in DOMAIN p THEN p[a] ELSE a]

Raised(R, new, first) ==
    [a \in DOMAIN R \cup new |-> IF Apex(R, a) \in {Apex(R, i) : i \in new} THEN Apex(R, first)
                                 ELSE Apex(R, a)]

\* Hanging the roots of several addresses under one of them leaves a forest.
LEMMA UnionKeepsTheForest ==
  ASSUME NEW p, Forest(p), NEW R, Rooted(p, R), NEW new, NEW first \in new
  PROVE  Forest(Hung(p, R, new, first)) /\ Rooted(Hung(p, R, new, first), Raised(R, new, first))
<1> DEFINE D == DOMAIN p
           E == D \cup new
           roots == {Apex(R, i) : i \in new}
           top == Apex(R, first)
           q == Hung(p, R, new, first)
           Q == Raised(R, new, first)
<1>1. DOMAIN R = D /\ DOMAIN q = E /\ DOMAIN Q = E
  BY DEF Rooted, Hung, Raised
<1>2. \A a \in E : /\ Apex(R, a) \in E /\ Apex(R, Apex(R, a)) = Apex(R, a)
                   /\ (a \in D => Apex(R, a) \in D)
  BY <1>1, RootsStay DEF Apex
<1>3. roots \subseteq E /\ top \in roots
  BY <1>2
<1>4. \A a \in E : a \notin D => a \in roots
  BY <1>1 DEF Apex
<1>5. \A a \in E : q[a] = IF a \in roots THEN top ELSE IF a \in D THEN p[a] ELSE a
  BY DEF Hung
<1>6. \A a \in E : Q[a] = IF Apex(R, a) \in roots THEN top ELSE Apex(R, a)
  BY <1>1 DEF Raised
<1>7. \A a \in E : q[a] \in E /\ Q[a] \in E
  BY <1>2, <1>3, <1>5, <1>6 DEF Forest
<1>8. q = [a \in E |-> q[a]] /\ Q = [a \in E |-> Q[a]]
  BY <1>1 DEF Hung, Raised
<1> HIDE DEF q, Q
<1>9. q \in [E -> E] /\ Q \in [E -> E]
  BY <1>7, <1>8
<1> HIDE DEF roots, top
<1>10. ASSUME NEW some \in SUBSET E, some # {}, \A b \in some : q[b] \in some
       PROVE  \E b \in some : q[b] = b
  <2>1. CASE some \cap roots # {}
    <3>1. PICK b \in some : b \in roots
      BY <2>1
    <3>2. top \in some /\ q[top] = top
      BY <1>3, <1>5, <1>10, <3>1
    <3>3. QED BY <3>2
  <2>2. CASE some \cap roots = {}
    <3>1. some \subseteq D /\ \A b \in some : q[b] = p[b]
      BY <1>4, <1>5, <2>2
    <3>2. PICK b \in some : p[b] = b
      BY <1>10, <3>1 DEF Forest
    <3>3. QED BY <3>1, <3>2
  <2>3. QED BY <2>1, <2>2
<1>11. Forest(q)
  BY <1>1, <1>9, <1>10 DEF Forest
<1>12. ASSUME NEW b \in E
       PROVE  q[Q[b]] = Q[b] /\ Q[b] = IF q[b] = b THEN b ELSE Q[q[b]]
  <2>1. top \in E /\ q[top] = top /\ Q[top] = top
    <3>1. top \in E /\ Apex(R, top) = top
      BY <1>2, <1>3 DEF top
    <3>2. QED BY <1>3, <1>5, <1>6, <3>1
  <2>2. CASE b \in roots
    <3>1. Apex(R, b) = b
      BY <1>2, <2>2 DEF roots
    <3>2. q[b] = top /\ Q[b] = top
      BY <1>5, <1>6, <2>2, <3>1
    <3>3. QED BY <2>1, <3>2
  <2>3. CASE b \notin roots /\ Apex(R, b) \in roots
    <3>1. b \in D /\ q[b] = p[b] /\ p[b] \in D /\ Apex(R, b) = R[b]
      BY <1>1, <1>4, <1>5, <2>3 DEF Forest, Apex
    <3>2. p[b] # b
      BY <2>3, <3>1, RootsStay
    <3>3. Apex(R, p[b]) = Apex(R, b)
      BY <1>1, <3>1, <3>2 DEF Rooted, Apex
    <3>4. Q[b] = top /\ Q[p[b]] = top
      BY <1>6, <2>3, <3>1, <3>3
    <3>5. QED BY <2>1, <3>1, <3>2, <3>4
  <2>4. CASE Apex(R, b) \notin roots
    <3>1. b \notin roots
      BY <1>2, <2>4 DEF roots
    <3>2. b \in D /\ q[b] = p[b] /\ p[b] \in D /\ Apex(R, b) = R[b] /\ R[b] \in D
      BY <1>1, <1>2, <1>4, <1>5, <3>1 DEF Forest, Apex
    <3>3. Q[b] = R[b] /\ q[R[b]] = p[R[b]] /\ p[R[b]] = R[b]
      BY <1>5, <1>6, <2>4, <3>2 DEF Rooted
    <3>4. CASE p[b] = b
      BY <3>2, <3>3, <3>4, RootsStay
    <3>5. CASE p[b] # b
      <4>1. Apex(R, p[b]) = R[b]
        BY <1>1, <3>2, <3>5 DEF Rooted, Apex
      <4>2. Q[p[b]] = R[b]
        BY <1>6, <2>4, <3>2, <4>1
      <4>3. QED BY <3>2, <3>3, <3>5, <4>2
    <3>6. QED BY <3>4, <3>5
  <2>5. QED BY <2>2, <2>3, <2>4
<1>13. Rooted(q, Q)
  BY <1>1, <1>9, <1>12 DEF Rooted
<1>14. QED BY <1>11, <1>13 DEF q, Q

\* What a joining transaction ties stays tied, and what it does not stays apart.
LEMMA UnionTies ==
  ASSUME NEW done, NEW R, R \in [DOMAIN R -> DOMAIN R], Tied(done, R), Sealed(done, R),
         NEW tx, Joins(tx), NEW first \in Inputs(tx)
  PROVE  LET Q == Raised(R, Inputs(tx), first)
         IN  Tied(done \cup {tx}, Q) /\ Sealed(done \cup {tx}, Q)
<1> DEFINE new == Inputs(tx)
           D == DOMAIN R
           E == D \cup new
           roots == {Apex(R, i) : i \in new}
           top == Apex(R, first)
           Q == Raised(R, new, first)
<1>1. DOMAIN Q = E /\ \A a \in E : Q[a] = IF Apex(R, a) \in roots THEN top ELSE Apex(R, a)
  BY DEF Raised
<1>2. top \in roots
  OBVIOUS
<1>3. \A i \in new : Apex(R, i) \in roots
  OBVIOUS
<1>4. \A x \in roots : \E i \in new : x = Apex(R, i)
  OBVIOUS
<1> HIDE DEF Q, roots, top, new
<1>5. ASSUME NEW t \in done \cup {tx}, Joins(t)
      PROVE  Inputs(t) \subseteq E /\ \A a, b \in Inputs(t) : Q[a] = Q[b]
  <2>1. CASE t = tx
    BY <1>1, <1>3, <2>1 DEF new
  <2>2. CASE t \in done
    <3>1. Inputs(t) \subseteq D /\ \A a, b \in Inputs(t) : R[a] = R[b]
      BY <1>5, <2>2 DEF Tied
    <3>2. \A a, b \in Inputs(t) : Apex(R, a) = Apex(R, b)
      BY <3>1 DEF Apex
    <3>3. QED BY <1>1, <3>1, <3>2
  <2>3. QED BY <2>1, <2>2
<1>6. ASSUME NEW some, ClosedFor(done \cup {tx}, some), NEW a \in E, NEW b \in E,
             Q[a] = Q[b], a \in some
      PROVE  b \in some
  <2>1. ClosedFor(done, some)
    BY <1>6 DEF ClosedFor
  <2>2. ASSUME NEW x \in E, NEW y \in E, Apex(R, x) = Apex(R, y), x \in some
        PROVE  y \in some
    <3>1. CASE x \in D /\ y \in D
      BY <2>1, <2>2, <3>1 DEF Sealed, Apex
    <3>2. CASE x = y
      BY <2>2, <3>2
    <3>3. CASE x \notin D \/ y \notin D
      BY <2>2, <3>3 DEF Apex
    <3>4. QED BY <3>1, <3>2, <3>3
  <2>3. new \cap some # {} => new \subseteq some
    BY <1>6 DEF ClosedFor, new
  <2>4. CASE Apex(R, a) \in roots
    <3>1. PICK i \in new : Apex(R, i) = Apex(R, a)
      BY <1>4, <2>4
    <3>2. new \subseteq some
      BY <1>6, <2>2, <2>3, <3>1
    <3>3. Apex(R, b) \in roots
      BY <1>1, <1>2, <1>6, <2>4
    <3>4. PICK j \in new : Apex(R, j) = Apex(R, b)
      BY <1>4, <3>3
    <3>5. QED BY <2>2, <3>2, <3>4
  <2>5. CASE Apex(R, a) \notin roots
    <3>1. Apex(R, b) = Apex(R, a)
      BY <1>1, <1>2, <1>6, <2>5
    <3>2. QED BY <1>6, <2>2, <3>1
  <2>6. QED BY <2>4, <2>5
<1>7. Tied(done \cup {tx}, Q)
  BY <1>1, <1>5 DEF Tied
<1>8. Sealed(done \cup {tx}, Q)
  BY <1>1, <1>6 DEF Sealed
<1>9. QED BY <1>7, <1>8 DEF Q, new


LEMMA ClustersInductive == ClusterSpec => []ClusterInv
<1>1. ASSUME ClusterInit
      PROVE  ClusterInv
  <2>1. parent = <<>> /\ DOMAIN parent = {} /\ taken = {}
    BY <1>1 DEF ClusterInit
  <2>2. Forest(parent) /\ Rooted(parent, parent)
    BY <2>1 DEF Forest, Rooted
  <2>3. Tied(taken, parent) /\ Sealed(taken, parent)
    BY <2>1 DEF Tied, Sealed
  <2>4. IsFiniteSet(DOMAIN parent)
    BY <2>1, FS_EmptySet
  <2>5. QED BY <2>1, <2>2, <2>3, <2>4 DEF ClusterInv
<1>2. ASSUME ClusterInv, NEW tx \in DOMAIN Spends, Take(tx)
      PROVE  ClusterInv'
  <2> PICK R : Rooted(parent, R) /\ Tied(taken, R) /\ Sealed(taken, R)
    BY <1>2 DEF ClusterInv
  <2> USE DEF ClusterInv
  <2>1. Forest(parent) /\ IsFiniteSet(DOMAIN parent) /\ taken' = taken \cup {tx}
        /\ taken' \subseteq DOMAIN Spends
    BY <1>2 DEF Take
  <2>2. CASE ~Joins(tx)
    <3>1. parent' = parent
      BY <1>2, <2>2 DEF Take
    <3>2. Tied(taken', R)
      BY <2>1, <2>2 DEF Tied
    <3>3. \A some : ClosedFor(taken', some) => ClosedFor(taken, some)
      BY <2>1 DEF ClosedFor
    <3>4. Sealed(taken', R)
      BY <3>3 DEF Sealed
    <3>5. QED BY <2>1, <3>1, <3>2, <3>4
  <2>3. CASE Joins(tx)
    <3> DEFINE new == Inputs(tx)
               first == CHOOSE a \in new : TRUE
               q == Hung(parent, R, new, first)
               Q == Raised(R, new, first)
    <3>1. first \in new /\ IsFiniteSet(new)
      <4>1. IsFiniteSet(new)
        BY SpendsAssumption DEF Inputs
      <4>2. new # {}
        BY <2>3, FS_EmptySet DEF Joins, Lone
      <4>3. QED BY <4>1, <4>2
    <3>2. parent' = q
      <4>1. \A a : Root(a) = Apex(R, a)
        BY <2>1, FindReachesTheRoot
      <4>2. Union(tx) = q
        BY <4>1 DEF Union, Hung, Parent
      <4>3. QED BY <1>2, <2>3, <4>2 DEF Take
    <3>3. Forest(q) /\ Rooted(q, Q)
      BY <2>1, <3>1, UnionKeepsTheForest
    <3>4. Tied(taken', Q) /\ Sealed(taken', Q)
      <4>1. R \in [DOMAIN R -> DOMAIN R]
        BY DEF Rooted
      <4>2. QED BY <2>1, <2>3, <3>1, <4>1, UnionTies
    <3>5. IsFiniteSet(DOMAIN q)
      <4>1. DOMAIN q = DOMAIN parent \cup new
        BY DEF Hung
      <4>2. QED BY <2>1, <3>1, <4>1, FS_Union
    <3> HIDE DEF q, Q
    <3>6. QED BY <2>1, <3>2, <3>3, <3>4, <3>5
  <2>4. QED BY <2>2, <2>3
<1>3. ASSUME ClusterInv, UNCHANGED clusterVars
      PROVE  ClusterInv'
  <2>1. parent' = parent /\ taken' = taken
    BY <1>3 DEF clusterVars
  <2>2. QED BY <1>3, <2>1 DEF ClusterInv
<1>4. ClusterInv /\ [ClusterNext]_clusterVars => ClusterInv'
  BY <1>2, <1>3 DEF ClusterNext
<1>5. QED BY <1>1, <1>4, PTL DEF ClusterSpec

LEMMA ClusterInvShowsParts == ClusterInv => ClustersAreConnected
<1> SUFFICES ASSUME ClusterInv
             PROVE  ClustersAreConnected
  OBVIOUS
<1> DEFINE D == DOMAIN parent
<1> PICK R : Rooted(parent, R) /\ Tied(taken, R) /\ Sealed(taken, R)
  BY DEF ClusterInv
<1>1. DOMAIN R = D /\ \A a \in D : Root(a) = R[a] /\ R[a] \in D
  BY FindReachesTheRoot, RootsStay DEF ClusterInv, Rooted, Apex
<1>2. ASSUME NEW g \in Groups
      PROVE  g \subseteq D
  BY <1>1 DEF Groups
<1>3. \A g \in Groups : \A a \in g, b \in D : R[a] = R[b] <=> b \in g
  BY <1>1 DEF Groups
<1>4. ASSUME NEW g \in Groups
      PROVE  Connected(g)
  <2>1. \A tx \in taken : Joins(tx) /\ Inputs(tx) \cap g # {} => Inputs(tx) \subseteq g
    BY <1>1, <1>3 DEF Tied
  <2>2. ASSUME NEW some \in SUBSET g, some # {}, Closed(some)
        PROVE  some = g
    <3>1. PICK a \in some : TRUE
      BY <2>2
    <3>2. ClosedFor(taken, some)
      BY <2>2 DEF Closed, ClosedFor
    <3>3. \A b \in g : b \in some
      BY <1>1, <1>2, <1>3, <3>1, <3>2 DEF Sealed
    <3>4. QED BY <3>3
  <2>3. QED BY <2>1, <2>2 DEF Connected, Closed
<1>5. ASSUME NEW tx \in taken, Joins(tx)
      PROVE  \E g \in Groups : Inputs(tx) \subseteq g
  <2>1. IsFiniteSet(Inputs(tx)) /\ Cardinality(Inputs(tx)) \in Nat /\ Cardinality(Inputs(tx)) > 1
    <3>1. IsFiniteSet(Inputs(tx))
      BY <1>5, SpendsAssumption DEF ClusterInv, Inputs
    <3>2. Cardinality(Inputs(tx)) \in Nat
      BY <3>1, FS_CardinalityType
    <3>3. QED BY <1>5, <3>1, <3>2 DEF Joins, Lone
  <2>2. PICK i \in Inputs(tx) : TRUE
    BY <2>1, FS_EmptySet
  <2> DEFINE group == {a \in D : Root(a) = R[i]}
  <2>3. Inputs(tx) \subseteq D /\ \A a \in Inputs(tx) : R[a] = R[i]
    BY <1>1, <1>5 DEF Tied
  <2>4. Inputs(tx) \subseteq group
    BY <1>1, <2>3
  <2>5. IsFiniteSet(group) /\ Cardinality(Inputs(tx)) <= Cardinality(group)
        /\ Cardinality(group) \in Nat
    <3>1. IsFiniteSet(D) /\ group \subseteq D
      BY DEF ClusterInv
    <3> HIDE DEF group
    <3>2. IsFiniteSet(group)
      BY <3>1, FS_Subset
    <3>3. QED BY <2>4, <3>2, FS_Subset, FS_CardinalityType
  <2>6. group \in Groups
    <3>1. R[i] \in D
      BY <1>1, <2>2, <2>3
    <3>2. Cardinality(group) > 1
      BY <2>1, <2>5
    <3>3. QED BY <3>1, <3>2 DEF Groups
  <2>7. QED BY <2>4, <2>6
<1>6. ASSUME NEW p \in Proposals, NEW a \in p.named, NEW g \in Groups, a \in g,
             NEW b \in g \cap DOMAIN Seeds
      PROVE  Seeds[b] = p.entity
  <2>1. PICK h \in Groups : /\ Cardinality(Entities(h)) = 1
                            /\ p.entity = CHOOSE e \in Entities(h) : TRUE
                            /\ p.named = h \ DOMAIN Seeds
    BY <1>6 DEF Proposals
  <2>2. g = h
    <3>1. a \in g /\ a \in h /\ g \subseteq D /\ h \subseteq D
      BY <1>2, <1>6, <2>1
    <3>2. \A c \in D : (c \in g <=> R[a] = R[c]) /\ (c \in h <=> R[a] = R[c])
      BY <1>3, <2>1, <3>1
    <3>3. QED BY <3>1, <3>2
  <2>3. Seeds[b] \in Entities(h)
    BY <2>2 DEF Entities
  <2>4. IsFiniteSet(Entities(h))
    <3> DEFINE S == h \cap DOMAIN Seeds
    <3>1. IsFiniteSet(S)
      BY SeedsAssumption, FS_Subset
    <3>2. [x \in S |-> Seeds[x]] \in Surjection(S, Entities(h))
      BY DEF Surjection, Entities
    <3> HIDE DEF S
    <3>3. QED BY <3>1, <3>2, FS_Surjection
  <2>5. PICK e : Entities(h) = {e}
    BY <2>1, <2>4, FS_Singleton
  <2>6. QED BY <2>1, <2>3, <2>5
<1>7. QED BY <1>4, <1>5, <1>6 DEF ClustersAreConnected

\* In whatever order the transactions come, the clusters are the connected parts of
\* what may be joined, and a proposed name is one its whole cluster agrees on
\* (_UnionFind, cluster_addresses, propose_cluster_labels).
THEOREM ClustersAreTheConnectedParts == ClusterSpec => []ClustersAreConnected
BY ClustersInductive, ClusterInvShowsParts, PTL

-----------------------------------------------------------------------------
(* The largest set of relay cycles.                                         *)

\* A finite set has a member nothing comes before.
LEMMA Foremost ==
  ASSUME NEW S, IsFiniteSet(S), S # {}, NEW R,
         \A r \in S : <<r, r>> \notin R,
         \A r, s, t \in S : <<r, s>> \in R /\ <<s, t>> \in R => <<r, t>> \in R
  PROVE  \E m \in S : \A s \in S : <<s, m>> \notin R
<1> DEFINE Ahead(m) == {s \in S : <<s, m>> \in R}
           T == {Ahead(m) : m \in S}
           F == FiniteSubsetsOf(S)
           O == StrictSubsetOrdering(S)
<1>1. IsWellFoundedOn(O, F)
  BY FS_StrictSubsetOrderingWellFounded
<1>2. T \subseteq F
  <2>1. ASSUME NEW m \in S
        PROVE  Ahead(m) \in F
    <3>1. Ahead(m) \in SUBSET S
      OBVIOUS
    <3>2. IsFiniteSet(Ahead(m))
      BY <3>1, FS_Subset
    <3>3. QED BY <3>1, <3>2 DEF FiniteSubsetsOf
  <2>2. QED BY <2>1
<1>3. T # {}
  <2>1. PICK a \in S : TRUE
    OBVIOUS
  <2>2. Ahead(a) \in T
    OBVIOUS
  <2>3. QED BY <2>2
<1> HIDE DEF T, F, O
<1>4. PICK x \in T : \A y \in T : ~ (<<y, x>> \in O)
  BY <1>1, <1>2, <1>3, WFMin
<1>5. PICK m \in S : x = Ahead(m)
  BY DEF T
<1>6. ASSUME NEW s \in S, <<s, m>> \in R
      PROVE  FALSE
  <2>1. Ahead(s) \subseteq Ahead(m)
    BY <1>6
  <2>2. s \in Ahead(m) /\ s \notin Ahead(s)
    BY <1>6
  <2>3. Ahead(s) \in T /\ Ahead(s) \in SUBSET S /\ Ahead(m) \in SUBSET S
    BY DEF T
  <2> HIDE DEF Ahead
  <2>4. <<Ahead(s), Ahead(m)>> \in O
    BY <2>1, <2>2, <2>3 DEF O, StrictSubsetOrdering
  <2>5. QED BY <1>4, <1>5, <2>3, <2>4
<1>7. QED BY <1>6

\* The order of time, made of numbers.
Timed(r) == r.at \in Nat /\ r.tx \in Nat /\ r.place \in Nat

LEMMA TimeOrders ==
  ASSUME NEW S, \A r \in S : Timed(r)
  PROVE  /\ \A r \in S : ~OldestFirst(r, r)
         /\ \A r, s, t \in S : OldestFirst(r, s) /\ OldestFirst(s, t) => OldestFirst(r, t)
BY DEF Timed, OldestFirst, ByChain

LEMMA FirstAndLast ==
  ASSUME NEW S, IsFiniteSet(S), S # {}, \A r \in S : Timed(r)
  PROVE  /\ OldestOf(S) \in S /\ \A s \in S : OldestOf(S).at <= s.at
         /\ NewestOf(S) \in S /\ \A s \in S : s.at <= NewestOf(S).at
<1>1. /\ \A r \in S : ~OldestFirst(r, r)
      /\ \A r, s, t \in S : OldestFirst(r, s) /\ OldestFirst(s, t) => OldestFirst(r, t)
  BY TimeOrders
<1>2. \E m \in S : \A s \in S : ~OldestFirst(s, m)
  <2> DEFINE R == {p \in S \X S : OldestFirst(p[1], p[2])}
  <2>1. \A r, s \in S : <<r, s>> \in R <=> OldestFirst(r, s)
    OBVIOUS
  <2> HIDE DEF R
  <2>2. \E m \in S : \A s \in S : <<s, m>> \notin R
    BY <1>1, <2>1, Foremost
  <2>3. QED BY <2>1, <2>2
<1>3. \E m \in S : \A s \in S : ~OldestFirst(m, s)
  <2> DEFINE R == {p \in S \X S : OldestFirst(p[2], p[1])}
  <2>1. \A r, s \in S : <<r, s>> \in R <=> OldestFirst(s, r)
    OBVIOUS
  <2> HIDE DEF R
  <2>2. \E m \in S : \A s \in S : <<s, m>> \notin R
    BY <1>1, <2>1, Foremost
  <2>3. QED BY <2>1, <2>2
<1>4. OldestOf(S) \in S /\ \A s \in S : ~OldestFirst(s, OldestOf(S))
  BY <1>2 DEF OldestOf
<1>5. NewestOf(S) \in S /\ \A s \in S : ~OldestFirst(NewestOf(S), s)
  BY <1>3 DEF NewestOf
<1>6. ASSUME NEW r \in S, NEW s \in S, ~OldestFirst(s, r)
      PROVE  r.at <= s.at
  BY <1>6 DEF OldestFirst, Timed
<1>7. QED BY <1>4, <1>5, <1>6

-----------------------------------------------------------------------------
\* What is defined of a set by what is left of it without one member.
Unwinds(f, T, last, base, G) ==
    f[T] = IF T = {} THEN base ELSE G[T][f[T \ {last[T]}]]

LEMMA UnwoundExists ==
  ASSUME NEW ins, IsFiniteSet(ins), NEW X, NEW base \in X,
         NEW last, \A T \in SUBSET ins : T # {} => last[T] \in T,
         NEW G, \A T \in SUBSET ins : G[T] \in [X -> X]
  PROVE  \E f \in [SUBSET ins -> X] : \A T \in SUBSET ins : Unwinds(f, T, last, base, G)
<1> DEFINE Upto(f, n) == \A T \in SUBSET ins : Cardinality(T) <= n => Unwinds(f, T, last, base, G)
           Bad == {n \in Nat : \A f \in [SUBSET ins -> X] : ~Upto(f, n)}
<1>1. \A T \in SUBSET ins : IsFiniteSet(T) /\ Cardinality(T) \in Nat
  BY FS_Subset, FS_CardinalityType
<1>2. ASSUME NEW m \in Bad, \A k \in Bad : m <= k
      PROVE  FALSE
  <2>1. CASE m = 0
    <3> DEFINE f == [T \in SUBSET ins |-> base]
    <3>1. f \in [SUBSET ins -> X]
      OBVIOUS
    <3>2. ASSUME NEW T \in SUBSET ins, Cardinality(T) <= 0
          PROVE  T = {}
      <4>1. Cardinality(T) = 0
        BY <1>1, <3>2
      <4>2. QED BY <1>1, <4>1, FS_EmptySet
    <3>3. \A T \in SUBSET ins : f[T] = base
      OBVIOUS
    <3> HIDE DEF f
    <3>4. Upto(f, 0)
      BY <3>2, <3>3 DEF Unwinds
    <3>5. QED BY <2>1, <3>1, <3>4
  <2>2. CASE m # 0
    <3>1. m - 1 \in Nat /\ m - 1 \notin Bad
      <4>1. m \in Nat
        OBVIOUS
      <4> HIDE DEF Bad
      <4>2. QED BY <1>2, <2>2, <4>1
    <3>2. PICK g \in [SUBSET ins -> X] : Upto(g, m - 1)
      BY <3>1
    <3> DEFINE Rest(T) == T \ {last[T]}
               f == [T \in SUBSET ins |-> IF T = {} THEN base ELSE G[T][g[Rest(T)]]]
    <3>3. \A T \in SUBSET ins : Rest(T) \in SUBSET ins
      OBVIOUS
    <3>4. \A T \in SUBSET ins : f[T] = IF T = {} THEN base ELSE G[T][g[Rest(T)]]
      OBVIOUS
    <3>5. f \in [SUBSET ins -> X]
      <4>1. \A T \in SUBSET ins : f[T] \in X
        BY <3>3, <3>4
      <4>2. f = [T \in SUBSET ins |-> f[T]]
        OBVIOUS
      <4> HIDE DEF f
      <4>3. QED BY <4>1, <4>2
    <3> HIDE DEF f
    <3>6. ASSUME NEW T \in SUBSET ins, Cardinality(T) <= m - 1
          PROVE  f[T] = g[T]
      <4>1. Unwinds(g, T, last, base, G)
        BY <3>2, <3>6
      <4>2. QED BY <3>4, <4>1 DEF Unwinds
    <3>7. ASSUME NEW T \in SUBSET ins, Cardinality(T) <= m
          PROVE  Unwinds(f, T, last, base, G)
      <4>1. CASE T = {}
        BY <3>4, <4>1 DEF Unwinds
      <4>2. CASE T # {}
        <5>1. Cardinality(Rest(T)) = Cardinality(T) - 1
          BY <1>1, <4>2, FS_RemoveElement
        <5>2. Rest(T) \in SUBSET ins /\ Cardinality(Rest(T)) <= m - 1
          BY <1>1, <3>1, <3>3, <3>7, <5>1
        <5>3. f[Rest(T)] = g[Rest(T)]
          BY <3>6, <5>2
        <5>4. QED BY <3>4, <4>2, <5>3 DEF Unwinds
      <4>3. QED BY <4>1, <4>2
    <3>8. QED BY <3>5, <3>7
  <2>3. QED BY <2>1, <2>2
<1>3. Bad = {}
  <2>1. Bad \subseteq Nat
    OBVIOUS
  <2> HIDE DEF Bad
  <2>2. QED BY <1>2, <2>1, SmallestPlace
<1> DEFINE N == Cardinality(ins)
<1>4. N \in Nat /\ \A T \in SUBSET ins : Cardinality(T) <= N
  BY FS_CardinalityType, FS_Subset
<1>5. PICK f \in [SUBSET ins -> X] : Upto(f, N)
  BY <1>3, <1>4
<1>6. \A T \in SUBSET ins : Unwinds(f, T, last, base, G)
  BY <1>4, <1>5
<1>7. QED BY <1>6

-----------------------------------------------------------------------------
\* The transfers used are those the receipts of D took, one each, out of their windows.
Pairs(some, outs, used, D, pick) ==
    /\ D \subseteq some /\ pick \in [D -> outs] /\ used = {pick[p] : p \in D}
    /\ \A p, q \in D : pick[p] = pick[q] => p = q
    /\ \A p \in D : Within(p, pick[p], HopWindow)

\* A receipt that took a transfer found every earlier one of its window taken.
Prompt(outs, used, D, pick) ==
    \A p \in D : \A s \in outs : Within(p, s, HopWindow) /\ s.at < pick[p].at => s \in used

\* A receipt that took none found all of them taken, by receipts before it.
Starved(some, outs, D, pick) ==
    \A u \in some \ D : \A s \in outs :
      Within(u, s, HopWindow) => \E p \in D : pick[p] = s /\ p.at <= u.at

Greedy(some, outs, used, D, pick) ==
    /\ Pairs(some, outs, used, D, pick)
    /\ Prompt(outs, used, D, pick)
    /\ Starved(some, outs, D, pick)

LEMMA TakesGreedily ==
  ASSUME NEW some, NEW outs, IsFiniteSet(outs), \A s \in outs : Timed(s),
         NEW used, NEW D, NEW pick, Greedy(some, outs, used, D, pick),
         NEW r, r \notin some, \A t \in some : t.at <= r.at
  PROVE  LET free == {s \in outs \ used : Within(r, s, HopWindow)}
         IN  \E E, take : Greedy(some \cup {r}, outs, used \cup Takes(free), E, take)
<1> DEFINE free == {s \in outs \ used : Within(r, s, HopWindow)}
           more == some \cup {r}
<1>1. /\ D \subseteq some /\ pick \in [D -> outs] /\ used = {pick[p] : p \in D}
      /\ \A p, q \in D : pick[p] = pick[q] => p = q
      /\ \A p \in D : Within(p, pick[p], HopWindow)
      /\ Prompt(outs, used, D, pick) /\ Starved(some, outs, D, pick)
  BY DEF Greedy, Pairs
<1>2. CASE free = {}
  <2>1. Takes(free) = {}
    BY <1>2 DEF Takes
  <2>2. Pairs(more, outs, used, D, pick)
    BY <1>1 DEF Pairs
  <2>3. Starved(more, outs, D, pick)
    <3>1. ASSUME NEW s \in outs, Within(r, s, HopWindow)
          PROVE  \E p \in D : pick[p] = s /\ p.at <= r.at
      <4>1. s \in used
        BY <1>2, <3>1
      <4>2. QED BY <1>1, <4>1
    <3>2. QED BY <1>1, <3>1 DEF Starved
  <2>4. Greedy(more, outs, used \cup Takes(free), D, pick)
    BY <1>1, <2>1, <2>2, <2>3 DEF Greedy
  <2>5. QED BY <2>4
<1>3. CASE free # {}
  <2> DEFINE o == OldestOf(free)
             E == D \cup {r}
             take == [p \in E |-> IF p = r THEN o ELSE pick[p]]
  <2>1. o \in free /\ \A s \in free : o.at <= s.at
    <3>1. free \subseteq outs
      OBVIOUS
    <3>2. IsFiniteSet(free) /\ \A s \in free : Timed(s)
      BY <3>1, FS_Subset
    <3> HIDE DEF free
    <3>3. QED BY <1>3, <3>2, FirstAndLast
  <2>2. Takes(free) = {o}
    BY <1>3 DEF Takes
  <2>3. o \in outs /\ o \notin used /\ Within(r, o, HopWindow)
    BY <2>1
  <2>4. \A s \in outs \ used : Within(r, s, HopWindow) => o.at <= s.at
    BY <2>1
  <2> HIDE DEF o, free
  <2>5. r \notin D
    BY <1>1
  <2>6. /\ take[r] = o /\ \A p \in D : take[p] = pick[p] /\ pick[p] \in outs /\ p # r
    BY <1>1, <2>5
  <2>7. take \in [E -> outs]
    BY <2>3, <2>6
  <2> HIDE DEF take
  <2>8. used \cup {o} = {take[p] : p \in E}
    BY <1>1, <2>6
  <2>9. \A p, q \in E : take[p] = take[q] => p = q
    <3>1. \A p \in D : pick[p] # o
      BY <1>1, <2>3
    <3>2. QED BY <1>1, <2>6, <3>1
  <2>10. \A p \in E : Within(p, take[p], HopWindow)
    BY <1>1, <2>3, <2>6
  <2>11. Pairs(more, outs, used \cup {o}, E, take)
    <3>1. E \subseteq more
      BY <1>1
    <3>2. QED BY <2>7, <2>8, <2>9, <2>10, <3>1 DEF Pairs
  <2>12. Prompt(outs, used \cup {o}, E, take)
    <3>1. ASSUME NEW p \in D, NEW s \in outs, Within(p, s, HopWindow), s.at < take[p].at
          PROVE  s \in used
      BY <1>1, <2>6, <3>1 DEF Prompt
    <3>2. ASSUME NEW s \in outs, Within(r, s, HopWindow), s.at < o.at
          PROVE  s \in used
      <4>1. s.at \in Nat /\ o.at \in Nat
        BY <2>3 DEF Timed
      <4>2. QED BY <2>4, <3>2, <4>1
    <3>3. QED BY <2>6, <3>1, <3>2 DEF Prompt
  <2>13. Starved(more, outs, E, take)
    <3>1. more \ E = some \ D
      BY <1>1
    <3>2. ASSUME NEW u \in some \ D, NEW s \in outs, Within(u, s, HopWindow)
          PROVE  \E p \in E : take[p] = s /\ p.at <= u.at
      <4>1. PICK p \in D : pick[p] = s /\ p.at <= u.at
        BY <1>1, <3>2 DEF Starved
      <4>2. QED BY <2>6, <4>1
    <3>3. QED BY <3>1, <3>2 DEF Starved
  <2>14. Greedy(more, outs, used \cup Takes(free), E, take)
    BY <2>2, <2>11, <2>12, <2>13 DEF Greedy
  <2>15. QED BY <2>14 DEF free
<1>4. QED BY <1>2, <1>3

\* What is used after the last of some receipts had its turn.
After(T, before, outs) ==
    before \cup Takes({s \in outs \ before : Within(NewestOf(T), s, HopWindow)})

Unfolds(f, ins, outs) ==
    /\ f[ins] = Relayed(ins, outs) /\ f[{}] = {}
    /\ \A T \in SUBSET ins : T # {} => f[T] = After(T, f[T \ {NewestOf(T)}], outs)

LEMMA RelayedUnfolds ==
  ASSUME NEW ins, IsFiniteSet(ins), \A r \in ins : Timed(r), NEW outs,
         IsFiniteSet(outs), \A s \in outs : Timed(s)
  PROVE  \E f : Unfolds(f, ins, outs)
<1> DEFINE X == SUBSET outs
           last == [T \in SUBSET ins |-> NewestOf(T)]
           Next(T, before) == After(T, before, outs)
           G == [T \in SUBSET ins |-> [before \in X |-> Next(T, before)]]
           Meant(f) == f = [some \in SUBSET ins |->
                              IF some = {} THEN {} ELSE Next(some, f[some \ {NewestOf(some)}])]
<1>1. \A T \in SUBSET ins : T # {} => NewestOf(T) \in T
  BY FS_Subset, FirstAndLast
<1>2. \A T \in SUBSET ins : last[T] = NewestOf(T)
  OBVIOUS
<1>3. \A T \in SUBSET ins : \A before \in X : Next(T, before) \in X
  <2>1. ASSUME NEW T \in SUBSET ins, NEW before \in X
        PROVE  Next(T, before) \in X
    <3> DEFINE free == {s \in outs \ before : Within(NewestOf(T), s, HopWindow)}
    <3>1. free \subseteq outs
      OBVIOUS
    <3>2. IsFiniteSet(free) /\ \A s \in free : Timed(s)
      BY <3>1, FS_Subset
    <3> HIDE DEF free
    <3>3. Takes(free) \subseteq outs
      BY <3>1, <3>2, FirstAndLast DEF Takes
    <3>4. QED BY <3>3 DEF After, free
  <2>2. QED BY <2>1
<1> HIDE DEF Next
<1>4. \A T \in SUBSET ins : G[T] \in [X -> X] /\ \A before \in X : G[T][before] = Next(T, before)
  BY <1>3
<1> HIDE DEF G, last
<1>5. PICK h \in [SUBSET ins -> X] : \A T \in SUBSET ins : Unwinds(h, T, last, {}, G)
  <2>1. {} \in X
    OBVIOUS
  <2> HIDE DEF X
  <2>2. \A T \in SUBSET ins : T # {} => last[T] \in T
    BY <1>1, <1>2
  <2>3. \A T \in SUBSET ins : G[T] \in [X -> X]
    BY <1>4
  <2>4. QED BY <2>1, <2>2, <2>3, UnwoundExists
<1>6. Meant(h)
  <2>1. ASSUME NEW T \in SUBSET ins
        PROVE  h[T] = IF T = {} THEN {} ELSE Next(T, h[T \ {NewestOf(T)}])
    <3>1. T \ {NewestOf(T)} \in SUBSET ins
      OBVIOUS
    <3>2. h[T \ {NewestOf(T)}] \in X
      BY <3>1
    <3>3. Unwinds(h, T, last, {}, G)
      BY <1>5
    <3>4. last[T] = NewestOf(T)
      BY <1>2
    <3>5. h[T] = IF T = {} THEN {} ELSE G[T][h[T \ {NewestOf(T)}]]
      BY <3>3, <3>4 DEF Unwinds
    <3>6. QED BY <1>4, <3>2, <3>5
  <2>2. h = [T \in SUBSET ins |-> h[T]]
    OBVIOUS
  <2>3. QED BY <2>1, <2>2
<1> DEFINE g == CHOOSE f : Meant(f)
<1>7. Meant(g)
  BY <1>6
<1>8. Relayed(ins, outs) = g[ins]
  BY DEF Relayed, Next, After
<1> HIDE DEF g
<1>9. \A T \in SUBSET ins : g[T] = IF T = {} THEN {} ELSE Next(T, g[T \ {NewestOf(T)}])
  BY <1>7
<1>10. g[{}] = {}
  BY <1>9
<1>11. \A T \in SUBSET ins : T # {} => g[T] = Next(T, g[T \ {NewestOf(T)}])
  BY <1>9
<1>12. QED BY <1>8, <1>10, <1>11 DEF Next, Unfolds

LEMMA RelaysGreedily ==
  ASSUME NEW ins, IsFiniteSet(ins), \A r \in ins : Timed(r), NEW outs,
         IsFiniteSet(outs), \A s \in outs : Timed(s)
  PROVE  \E D, pick : Greedy(ins, outs, Relayed(ins, outs), D, pick)
<1>1. PICK f : Unfolds(f, ins, outs)
  BY RelayedUnfolds
<1> DEFINE Good(T) == \E D, pick : Greedy(T, outs, f[T], D, pick)
           Bad == {T \in SUBSET ins : ~Good(T)}
           F == FiniteSubsetsOf(ins)
           O == StrictSubsetOrdering(ins)
<1>2. Good({})
  <2> DEFINE none == [p \in {} |-> p]
  <2>1. none \in [{} -> outs]
    OBVIOUS
  <2> HIDE DEF none
  <2>2. Greedy({}, outs, {}, {}, none)
    BY <2>1 DEF Greedy, Pairs, Prompt, Starved
  <2>3. QED BY <1>1, <2>2 DEF Unfolds
<1>3. ASSUME NEW T \in Bad, \A U \in Bad : ~ (<<U, T>> \in O)
      PROVE  FALSE
  <2> DEFINE r == NewestOf(T)
             rest == T \ {r}
  <2>1. T \in SUBSET ins /\ ~Good(T) /\ T # {}
    BY <1>2
  <2>2. r \in T /\ \A t \in T : t.at <= r.at
    BY <2>1, FS_Subset, FirstAndLast
  <2> HIDE DEF r, Good
  <2>3. rest \in SUBSET ins /\ rest \subseteq T /\ rest # T /\ r \notin rest /\ rest \cup {r} = T
    BY <2>1, <2>2
  <2>4. <<rest, T>> \in O
    BY <2>1, <2>3 DEF StrictSubsetOrdering
  <2>5. Good(rest)
    BY <1>3, <2>3, <2>4
  <2>6. PICK D, pick : Greedy(rest, outs, f[rest], D, pick)
    BY <2>5 DEF Good
  <2> DEFINE used == f[rest]
             free == {s \in outs \ used : Within(r, s, HopWindow)}
  <2>7. f[T] = used \cup Takes(free)
    BY <1>1, <2>1 DEF r, Unfolds, After
  <2>8. \A t \in rest : t.at <= r.at
    BY <2>2
  <2> HIDE DEF used, rest
  <2>9. \E E, take : Greedy(rest \cup {r}, outs, used \cup Takes(free), E, take)
    <3>1. Greedy(rest, outs, used, D, pick) /\ r \notin rest
      BY <2>3, <2>6 DEF used
    <3>2. QED BY <2>8, <3>1, TakesGreedily
  <2>10. Good(T)
    BY <2>3, <2>7, <2>9 DEF Good
  <2>11. QED BY <2>1, <2>10
<1>4. Bad = {}
  <2>1. Bad \subseteq F
    BY FS_Subset DEF FiniteSubsetsOf
  <2> HIDE DEF Bad
  <2>2. SUFFICES ASSUME Bad # {}
                 PROVE  FALSE
    OBVIOUS
  <2>3. PICK T \in Bad : \A U \in Bad : ~ (<<U, T>> \in O)
    BY <2>1, <2>2, FS_StrictSubsetOrderingWellFounded, WFMin
  <2>4. QED BY <1>3, <2>3
<1>5. Good(ins)
  BY <1>4
<1>6. QED BY <1>1, <1>5 DEF Unfolds

\* The transfers some receipts have open.
Reach(some, outs) == {s \in outs : \E r \in some : Within(r, s, HopWindow)}

\* Each receipt takes its own.
Own(D, pick) == \A p, q \in D : pick[p] = pick[q] => p = q

Picked(pick, C) == {pick[p] : p \in C}

\* What bounds the number of cycles, once some receipts are set apart.
Bound(some, ins, outs) == Cardinality(ins \ some) + Cardinality(Reach(some, outs))

LEMMA OneEach ==
  ASSUME NEW D, IsFiniteSet(D), NEW pick, Own(D, pick), NEW C, C \subseteq D
  PROVE  Cardinality(Picked(pick, C)) = Cardinality(C)
<1> DEFINE T == Picked(pick, C)
           f == [p \in C |-> pick[p]]
<1>1. IsFiniteSet(C)
  BY FS_Subset
<1>2. f \in Surjection(C, T) /\ f \in Injection(C, T)
  BY DEF Surjection, Injection, IsInjective, Own, Picked
<1> HIDE DEF f, T
<1>3. IsFiniteSet(T) /\ Cardinality(T) = Cardinality(C)
  BY <1>1, <1>2, FS_Surjection
<1>4. QED BY <1>3 DEF T

LEMMA Split ==
  ASSUME NEW D, IsFiniteSet(D), NEW some
  PROVE  /\ Cardinality(D) = Cardinality(D \ some) + Cardinality(D \cap some)
         /\ Cardinality(D \ some) \in Nat /\ Cardinality(D \cap some) \in Nat
<1> DEFINE A == D \ some
           B == D \cap some
<1>1. IsFiniteSet(A) /\ IsFiniteSet(B)
  BY FS_Subset
<1>2. A \cup B = D /\ A \cap B = {}
  OBVIOUS
<1>3. Cardinality({}) = 0
  BY FS_EmptySet
<1> HIDE DEF A, B
<1>4. Cardinality(A) \in Nat /\ Cardinality(B) \in Nat
  BY <1>1, FS_CardinalityType
<1>5. Cardinality(A \cup B) = Cardinality(A) + Cardinality(B) - Cardinality(A \cap B)
  BY <1>1, FS_Union
<1>6. Cardinality(A \cup B) = Cardinality(D) /\ Cardinality(A \cap B) = 0
  BY <1>2, <1>3
<1>7. Cardinality(D) = Cardinality(A) + Cardinality(B)
  BY <1>4, <1>5, <1>6
<1>8. QED BY <1>4, <1>7 DEF A, B

\* No more can be used than what some receipts reach and one for each of the others.
LEMMA NoMoreThan ==
  ASSUME NEW ins, IsFiniteSet(ins), NEW outs, IsFiniteSet(outs),
         NEW used, NEW D, NEW pick, Pairs(ins, outs, used, D, pick), NEW some
  PROVE  Cardinality(used) <= Bound(some, ins, outs)
<1> DEFINE both == Picked(pick, D \cap some)
           R == Reach(some, outs)
           rest == D \ some
           kept == D \cap some
           others == ins \ some
<1>1. /\ D \subseteq ins /\ pick \in [D -> outs] /\ used = Picked(pick, D)
      /\ Own(D, pick)
      /\ \A p \in D : Within(p, pick[p], HopWindow)
  BY DEF Pairs, Own, Picked
<1>2. IsFiniteSet(D)
  BY <1>1, FS_Subset
<1>3. Cardinality(used) = Cardinality(D)
  BY <1>1, <1>2, OneEach
<1>4. Cardinality(both) = Cardinality(kept)
  <2>1. kept \subseteq D
    OBVIOUS
  <2> HIDE DEF kept
  <2>2. Cardinality(Picked(pick, kept)) = Cardinality(kept)
    BY <1>1, <1>2, <2>1, OneEach
  <2>3. QED BY <2>2 DEF kept
<1>5. both \subseteq R
  BY <1>1 DEF Reach, Picked
<1>6. IsFiniteSet(R)
  <2>1. R \subseteq outs
    BY DEF Reach
  <2>2. QED BY <2>1, FS_Subset
<1>7. rest \subseteq others /\ IsFiniteSet(others)
  <2>1. rest \subseteq others /\ others \subseteq ins
    BY <1>1
  <2>2. QED BY <2>1, FS_Subset
<1>8. Cardinality(D) = Cardinality(rest) + Cardinality(kept)
      /\ Cardinality(rest) \in Nat /\ Cardinality(kept) \in Nat
  BY <1>2, Split
<1> HIDE DEF both, R, rest, kept, others
<1>9. Cardinality(both) <= Cardinality(R) /\ Cardinality(R) \in Nat
  BY <1>5, <1>6, FS_Subset, FS_CardinalityType
<1>10. Cardinality(rest) <= Cardinality(others) /\ Cardinality(others) \in Nat
  BY <1>7, FS_Subset, FS_CardinalityType
<1>11. Cardinality(used) <= Cardinality(others) + Cardinality(R)
  BY <1>3, <1>4, <1>8, <1>9, <1>10
<1>12. QED BY <1>11 DEF others, R, Bound

\* The receipts from which on, up to one that took none, everything is used.
Full(ins, outs, used, D) ==
    {q \in ins : \E u \in ins \ D :
       /\ u.asset = q.asset /\ q.at <= u.at
       /\ \A o \in outs : o.asset = q.asset /\ q.at <= o.at /\ o.at <= u.at + HopWindow => o \in used}

LEMMA FullReachesTheirs ==
  ASSUME NEW ins, \A r \in ins : Timed(r), NEW outs, \A s \in outs : Timed(s),
         HopWindow \in Nat,
         NEW used, NEW D, NEW pick, Greedy(ins, outs, used, D, pick)
  PROVE  /\ ins \ D \subseteq Full(ins, outs, used, D)
         /\ Reach(Full(ins, outs, used, D), outs) = {pick[p] : p \in D \cap Full(ins, outs, used, D)}
<1> DEFINE X == Full(ins, outs, used, D)
<1>1. /\ D \subseteq ins /\ pick \in [D -> outs] /\ used = {pick[p] : p \in D}
      /\ \A p, q \in D : pick[p] = pick[q] => p = q
      /\ \A p \in D : Within(p, pick[p], HopWindow)
      /\ Prompt(outs, used, D, pick) /\ Starved(ins, outs, D, pick)
  BY DEF Greedy, Pairs
<1>2. \A x \in ins \cup outs : x.at \in Nat
  BY DEF Timed
<1>3. ASSUME NEW u \in ins \ D
      PROVE  u \in X
  <2>1. ASSUME NEW o \in outs, o.asset = u.asset, u.at <= o.at, o.at <= u.at + HopWindow
        PROVE  o \in used
    <3>1. Within(u, o, HopWindow)
      BY <1>2, <2>1 DEF Within
    <3>2. PICK p \in D : pick[p] = o
      BY <1>1, <3>1 DEF Starved
    <3>3. QED BY <1>1, <3>2
  <2>2. u.at <= u.at
    BY <1>2
  <2>3. QED BY <2>1, <2>2 DEF Full
<1>4. ASSUME NEW q \in X, NEW o \in outs, Within(q, o, HopWindow)
      PROVE  \E p \in D \cap X : pick[p] = o
  <2>1. PICK u \in ins \ D :
          /\ u.asset = q.asset /\ q.at <= u.at
          /\ \A s \in outs : s.asset = q.asset /\ q.at <= s.at /\ s.at <= u.at + HopWindow => s \in used
    BY DEF Full
  <2>2. q \in ins /\ q.at \in Nat /\ u.at \in Nat /\ o.at \in Nat
    BY <1>2 DEF Full
  <2>3. o.asset = q.asset /\ q.at <= o.at /\ o.at <= q.at + HopWindow
    BY <1>4, <2>2 DEF Within
  <2>4. o \in used
    BY <2>1, <2>2, <2>3
  <2>5. PICK p \in D : pick[p] = o
    BY <1>1, <2>4
  <2>6. p \in ins /\ p.at \in Nat /\ Within(p, o, HopWindow)
    BY <1>1, <1>2, <2>5
  <2>7. p.asset = q.asset /\ p.at <= o.at /\ o.at <= p.at + HopWindow
    BY <2>2, <2>3, <2>6 DEF Within
  <2>8. p.at <= u.at
    <3>1. CASE o.at < u.at
      BY <2>2, <2>6, <2>7, <3>1
    <3>2. CASE ~(o.at < u.at)
      <4>1. Within(u, o, HopWindow)
        BY <2>1, <2>2, <2>3, <3>2 DEF Within
      <4>2. PICK p2 \in D : pick[p2] = o /\ p2.at <= u.at
        BY <1>1, <4>1 DEF Starved
      <4>3. p2 = p
        BY <1>1, <2>5, <4>2
      <4>4. QED BY <4>2, <4>3
    <3>3. QED BY <3>1, <3>2
  <2>9. ASSUME NEW s \in outs, s.asset = p.asset, p.at <= s.at, s.at <= u.at + HopWindow
        PROVE  s \in used
    <3>1. s.at \in Nat
      BY <1>2
    <3>2. CASE q.at <= s.at
      BY <2>1, <2>7, <2>9, <3>2
    <3>3. CASE ~(q.at <= s.at)
      <4>1. s.at < o.at
        BY <2>2, <2>3, <3>1, <3>3
      <4>2. Within(p, s, HopWindow)
        BY <2>2, <2>6, <2>7, <2>9, <3>1, <4>1 DEF Within
      <4>3. QED BY <1>1, <2>5, <4>1, <4>2 DEF Prompt
    <3>4. QED BY <3>2, <3>3
  <2>10. p \in X
    BY <2>1, <2>6, <2>7, <2>8, <2>9 DEF Full
  <2>11. QED BY <2>5, <2>10
<1> HIDE DEF X
<1>5. Reach(X, outs) \subseteq {pick[p] : p \in D \cap X}
  BY <1>4 DEF Reach
<1>6. {pick[p] : p \in D \cap X} \subseteq Reach(X, outs)
  BY <1>1 DEF Reach
<1>7. QED BY <1>3, <1>5, <1>6 DEF X

\* And that many are used.
LEMMA AsManyAs ==
  ASSUME NEW ins, IsFiniteSet(ins), \A r \in ins : Timed(r), NEW outs, \A s \in outs : Timed(s),
         HopWindow \in Nat,
         NEW used, NEW D, NEW pick, Greedy(ins, outs, used, D, pick)
  PROVE  \E some \in SUBSET ins :
           Cardinality(used) = Bound(some, ins, outs)
<1> DEFINE X == Full(ins, outs, used, D)
           kept == D \cap X
<1>1. /\ D \subseteq ins /\ used = Picked(pick, D)
      /\ Own(D, pick)
  BY DEF Greedy, Pairs, Own, Picked
<1>2. ins \ D \subseteq X /\ Reach(X, outs) = Picked(pick, kept)
  BY FullReachesTheirs DEF Picked
<1>3. X \in SUBSET ins
  BY DEF Full
<1> HIDE DEF X
<1>4. ins \ X = D \ X
  BY <1>1, <1>2
<1>5. IsFiniteSet(D)
  BY <1>1, FS_Subset
<1>6. Cardinality(used) = Cardinality(D)
  BY <1>1, <1>5, OneEach
<1>7. Cardinality(D) = Cardinality(D \ X) + Cardinality(kept)
  BY <1>5, Split
<1>8. kept \subseteq D
  OBVIOUS
<1> HIDE DEF kept
<1>9. Cardinality(Picked(pick, kept)) = Cardinality(kept)
  BY <1>1, <1>5, <1>8, OneEach
<1>10. Cardinality(used) = Bound(X, ins, outs)
  BY <1>2, <1>4, <1>6, <1>7, <1>9 DEF Bound
<1>11. QED BY <1>3, <1>10

LEMMA LeastOf ==
  ASSUME NEW S, S \subseteq Nat, NEW m \in S, \A n \in S : m <= n
  PROVE  Min(S) = m
<1> DEFINE k == Min(S)
<1>1. k \in S /\ \A n \in S : k <= n
  BY DEF Min
<1> HIDE DEF k
<1>2. k \in Nat /\ m \in Nat /\ k <= m /\ m <= k
  BY <1>1
<1>3. k = m
  BY <1>2
<1>4. QED BY <1>3 DEF k

\* The rows a log holds.
LEMMA LogIsFinite ==
  ASSUME NEW T, NEW s \in Seq(T)
  PROVE  IsFiniteSet(ToSet(s)) /\ ToSet(s) \subseteq T
<1>1. Len(s) \in Nat /\ DOMAIN s = 1..Len(s)
  OBVIOUS
<1>2. IsFiniteSet(1..Len(s))
  BY <1>1, FS_Interval
<1>3. s \in Surjection(1..Len(s), ToSet(s))
  <2>1. \A i \in 1..Len(s) : s[i] \in ToSet(s)
    BY <1>1 DEF ToSet
  <2>2. s \in [1..Len(s) -> ToSet(s)]
    BY <1>1, <2>1
  <2>3. QED BY <1>1, <2>2 DEF Surjection, ToSet
<1>4. IsFiniteSet(ToSet(s))
  BY <1>2, <1>3, FS_Surjection
<1>5. QED BY <1>4 DEF ToSet

\* Pairing one receipt after the other with the first transfer it has open, the detector
\* finds as many disjoint cycles as there are, for any transfers in any order (detect_rapid_hop).
THEOREM RelayCyclesAreMaximal == BehaviourSpec => []CyclesAreMaximal
<1> DEFINE Inv == log \in Seq(Movements)
<1>1. BehaviourInit => Inv
  BY DEF BehaviourInit
<1>2. Inv /\ [BehaviourNext]_log => Inv'
  <2>1. ASSUME Inv, NEW r \in Movements, StoreMovement(r)
        PROVE  Inv'
    BY <2>1 DEF StoreMovement
  <2>2. QED BY <2>1 DEF BehaviourNext
<1>3. Inv => CyclesAreMaximal
  <2> SUFFICES ASSUME Inv
               PROVE  CyclesAreMaximal
    OBVIOUS
  <2> DEFINE ins  == Received(ToSet(log))
             outs == Sent(ToSet(log))
             used == Relayed(ins, outs)
             S == {Bound(some, ins, outs) : some \in SUBSET ins}
  <2>1. ins \subseteq ToSet(log) /\ outs \subseteq ToSet(log)
    BY DEF Received, Sent, Evidence, Recent
  <2>2. IsFiniteSet(ins) /\ IsFiniteSet(outs)
    BY <2>1, LogIsFinite, FS_Subset
  <2>3. (\A r \in ins : Timed(r)) /\ (\A s \in outs : Timed(s)) /\ HopWindow \in Nat
    BY <2>1, LogIsFinite, BehaviourAssumption DEF Timed
  <2>4. CyclesAreMaximal <=> Cardinality(used) = Min(S)
    BY DEF CyclesAreMaximal, Reach, Bound
  <2> HIDE DEF ins, outs
  <2>5. PICK D, pick : Greedy(ins, outs, used, D, pick)
    BY <2>2, <2>3, RelaysGreedily
  <2> HIDE DEF used
  <2>6. Pairs(ins, outs, used, D, pick)
    BY <2>5 DEF Greedy
  <2>7. PICK best \in SUBSET ins : Cardinality(used) = Bound(best, ins, outs)
    BY <2>2, <2>3, <2>5, AsManyAs
  <2>8. \A some \in SUBSET ins : Bound(some, ins, outs) \in Nat
    <3>1. \A some \in SUBSET ins : IsFiniteSet(ins \ some) /\ IsFiniteSet(Reach(some, outs))
      <4>1. \A some : ins \ some \subseteq ins /\ Reach(some, outs) \subseteq outs
        BY DEF Reach
      <4>2. QED BY <2>2, <4>1, FS_Subset
    <3>2. QED BY <3>1, FS_CardinalityType DEF Bound
  <2>9. \A some \in SUBSET ins : Cardinality(used) <= Bound(some, ins, outs)
    BY <2>2, <2>6, NoMoreThan
  <2>10. S \subseteq Nat /\ Cardinality(used) \in S /\ \A n \in S : Cardinality(used) <= n
    BY <2>7, <2>8, <2>9
  <2> HIDE DEF S
  <2>11. Min(S) = Cardinality(used)
    BY <2>10, LeastOf
  <2>12. QED BY <2>4, <2>11
<1>4. QED BY <1>1, <1>2, <1>3, PTL DEF BehaviourSpec

=============================================================================
