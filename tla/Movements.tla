----------------------------- MODULE Movements -----------------------------
(***************************************************************************)
(* From a transaction to the money in it.  One transaction is acquired     *)
(* many times, through different providers, feeds and addresses, and every *)
(* acquisition shows another part of it.  The adapters normalise what they *)
(* are shown into movements, the store keeps one row per movement identity *)
(* and never rewrites it, and two readers fold the rows into the           *)
(* counterparties of an address: the trace and the manual explorer.        *)
(***************************************************************************)
EXTENDS Naturals, FiniteSets

CONSTANTS
    Ledger,   \* Ledger[tx]: its chain, whether it succeeded, its transfers
    Person    \* the addresses

VARIABLES stored, acquired

Nobody   == "nobody"
EvmTx    == "evm"
TronTx   == "tron"
UtxoTx   == "utxo"
SolanaTx == "solana"

\* A transfer as the chain made it: its section of the transaction, its place
\* there, its ends, and for an internal call whether it was reverted.
Transfer(section, place, from, to, asset, amount, reverted) ==
    [section |-> section, place |-> place, from |-> from, to |-> to, asset |-> asset,
     amount |-> amount, reverted |-> reverted]

Parts(tx) == Ledger[tx].parts

Sections(chain) ==
    CASE chain = EvmTx  -> {"native", "token", "internal"}
      [] chain = TronTx -> {"native", "token"}
      [] OTHER          -> {"in", "out"}

\* A place is a position in its section, and an EVM transaction carries value once.
ASSUME LedgerAssumption ==
    /\ Nobody \notin Person
    /\ \A tx \in DOMAIN Ledger :
         /\ DOMAIN Parts(tx) \subseteq Nat
         /\ \A i, j \in DOMAIN Parts(tx) :
              LET x == Parts(tx)[i]
                  y == Parts(tx)[j]
              IN  /\ x.section \in Sections(Ledger[tx].chain)
                  /\ x.section = y.section /\ x.place = y.place => i = j
                  /\ Ledger[tx].chain = EvmTx /\ x.section = "native" /\ y.section = "native"
                       => i = j

Touches(x, a) == a \in {x.from, x.to}

---------------------------------------------------------------------------
\* An acquisition: the vantage, the address whose history was read, the feeds
\* that answered, the places whose scripts the provider could decode, and whether
\* the rows of internal calls name their trace, as Etherscan's do and those of the
\* explorer tier do not.
Views(tx) ==
    LET places == DOMAIN Parts(tx)
        all    == {"native", "token", "internal"}
    IN  CASE Ledger[tx].chain = EvmTx ->
               {[vantage |-> "rows", about |-> a, feeds |-> f, decoded |-> places, traced |-> t] :
                  a \in Person, t \in BOOLEAN,
                  f \in {all, {"native"}, {"native", "token"}, {"native", "internal"}}}
                 \cup {[vantage |-> "rpc", about |-> Nobody, feeds |-> {"native", "token"},
                        decoded |-> places, traced |-> FALSE]}
          [] Ledger[tx].chain = TronTx ->
               {[vantage |-> "trongrid", about |-> a, feeds |-> f, decoded |-> places, traced |-> FALSE] :
                  a \in Person, f \in {{"native", "token"}, {"native"}}}
          [] OTHER ->
               {[vantage |-> "whole", about |-> Nobody, feeds |-> {"in", "out"}, decoded |-> d,
                 traced |-> FALSE] :
                  d \in IF Ledger[tx].chain = UtxoTx THEN SUBSET places ELSE {places}}

\* Account histories list the rows of the address asked about; a Tron row and
\* a transaction looked up whole carry every native part.
Shown(view, tx, i) ==
    LET x == Parts(tx)[i]
    IN  /\ x.section \in view.feeds
        /\ i \in view.decoded
        /\ \/ view.vantage \in {"rpc", "whole"}
           \/ view.vantage = "trongrid" /\ x.section = "native"
           \/ Touches(x, view.about)

\* What normalize() leaves out: value that did not move or has no address.
MovedNothing(tx, x) ==
    \/ x.section = "internal" /\ (x.reverted \/ x.amount = 0)
    \/ x.section = "native" /\ (~Ledger[tx].ok \/ x.amount = 0)
    \/ Ledger[tx].chain = TronTx /\ x.amount = 0
    \/ Ledger[tx].chain = SolanaTx /\ (~Ledger[tx].ok \/ x.amount = 0)

Addressed(x) ==
    CASE x.section = "in"  -> x.from # Nobody
      [] x.section = "out" -> x.to # Nobody
      [] OTHER             -> x.from # Nobody /\ x.to # Nobody

Normalises(view, tx, i) ==
    Shown(view, tx, i) /\ ~MovedNothing(tx, Parts(tx)[i]) /\ Addressed(Parts(tx)[i])

DedupKeyByPosition(view, tx, x, n) == <<x.section, n>>

\* dedup_key: what a movement is called in its transaction, from whichever
\* acquisition.  n is its place in the list an adapter emits, which the keys
\* must not depend on.
DedupKey(view, tx, x, n) ==
    LET tron == Ledger[tx].chain = TronTx
    IN  CASE x.section \in {"in", "out"} -> <<x.section, x.place>>
          [] x.section = "native"   -> IF tron THEN <<"trx", x.place>> ELSE <<"native">>
          [] x.section = "internal" -> IF view.traced THEN <<"trace", x.place>>
                                       ELSE <<"call", x.from, x.to, x.amount>>
          [] x.section = "token"    -> IF tron THEN <<"trc20", x.from, x.to, x.asset, x.amount>>
                                       ELSE <<"token", x.from, x.to, x.asset>>

\* _half and the UTXO adapters record one end only.
Ends(x) ==
    CASE x.section = "in"  -> [from |-> x.from, to |-> Nobody]
      [] x.section = "out" -> [from |-> Nobody, to |-> x.to]
      [] OTHER             -> [from |-> x.from, to |-> x.to]

Emitted(view, tx) == {i \in DOMAIN Parts(tx) : Normalises(view, tx, i)}

Position(view, tx, i) == Cardinality({j \in Emitted(view, tx) : j <= i})

Row(view, tx, i) ==
    LET x == Parts(tx)[i]
    IN  [tx |-> tx, of |-> i, key |-> DedupKey(view, tx, x, Position(view, tx, i)),
         section |-> x.section, from |-> Ends(x).from, to |-> Ends(x).to]

Normalised(view, tx) == {Row(view, tx, i) : i \in Emitted(view, tx)}

\* store_movements: ON CONFLICT (transaction, key) DO NOTHING, row by row; of the
\* rows of a batch that share a key, the first is stored.
Clashes(r, s) == r.tx = s.tx /\ r.key = s.key

Stores(rows, batch) ==
    rows \cup {r \in batch : /\ \A s \in rows : ~Clashes(r, s)
                            /\ \A s \in batch : Clashes(r, s) => r.of <= s.of}

MovementsInit == stored = {} /\ acquired = {}

\* What one acquisition of a transaction may show.
Batches == [tx \in DOMAIN Ledger |-> {Normalised(view, tx) : view \in Views(tx)}]

Acquire(batch) ==
    /\ stored' = Stores(stored, batch)
    /\ acquired' = acquired \cup batch

MovementsNext == \E tx \in DOMAIN Ledger : \E batch \in Batches[tx] : Acquire(batch)

MovementsSpec == MovementsInit /\ [][MovementsNext]_<<stored, acquired>>

---------------------------------------------------------------------------
\* derive_counterparties: the trace, over the rows of the store.  A row with
\* one end only is joined with the other halves of its transaction.
Towards(rows, focus) ==
    {r.from : r \in {s \in rows : s.to = focus /\ s.from # Nobody}}
      \cup {h.from : h \in {s \in rows : s.section = "in" /\ \E r \in rows :
                              r.tx = s.tx /\ r.to = focus /\ r.from = Nobody}}

From(rows, focus) ==
    {r.to : r \in {s \in rows : s.from = focus /\ s.to # Nobody}}
      \cup {h.to : h \in {s \in rows : s.section = "out" /\ \E r \in rows :
                            r.tx = s.tx /\ r.from = focus /\ r.to = Nobody}}

TracedSenders(rows, focus)    == Towards(rows, focus) \ {focus, Nobody}
TracedRecipients(rows, focus) == From(rows, focus) \ {focus, Nobody}

\* one_hop_counterparties and one_hop_transfers: the manual explorer, over the
\* movements of the page it has just normalised.
Half(r) == r.section \in {"in", "out"}

ExploredSenders(rows, focus) ==
    {r.from : r \in {s \in rows : ~Half(s) /\ s.to = focus /\ s.from # focus}}
      \cup {h.from : h \in {s \in rows : s.section = "in" /\ s.from # focus /\ \E r \in rows :
                              r.tx = s.tx /\ r.section = "out" /\ r.to = focus}}

ExploredRecipientsUnjoined(rows, focus) ==
    {r.to : r \in {s \in rows : ~Half(s) /\ s.from = focus /\ s.to # focus}}

ExploredRecipients(rows, focus) ==
    {r.to : r \in {s \in rows : ~Half(s) /\ s.from = focus /\ s.to # focus}}
      \cup {h.to : h \in {s \in rows : s.section = "out" /\ s.to # focus /\ \E r \in rows :
                            r.tx = s.tx /\ r.section = "in" /\ r.from = focus}}

---------------------------------------------------------------------------
Part(r) == Parts(r.tx)[r.of]

\* Transfers of one transaction that the keys cannot tell apart: tokens of one
\* contract between one pair, on Tron of one amount, and internal calls between one
\* pair of one amount where they name no trace.
Indistinct(r, s) ==
    /\ r.section = s.section /\ r.from = s.from /\ r.to = s.to
    /\ \/ r.section = "token" /\ Part(r).asset = Part(s).asset
          /\ Ledger[r.tx].chain = TronTx => Part(r).amount = Part(s).amount
       \/ r.section = "internal" /\ Part(r).amount = Part(s).amount

\* An internal call read from two vendors, one of which names its trace.
Renamed(r, s) == r.section = "internal" /\ r.key # s.key

\* Whatever the order and the vantages a transaction is acquired in, no transfer is
\* stored twice under one name, only an internal call has two, and none that an
\* acquisition showed is dropped because it was taken for one that can be told from it.
OneRowPerTransfer ==
    /\ \A r, s \in stored : r.tx = s.tx /\ r.of = s.of => r = s \/ Renamed(r, s)
    /\ \A r \in acquired : \E s \in stored :
         s.tx = r.tx /\ (s.of = r.of \/ Indistinct(r, s))

\* The identity of an internal transfer is the same from every vantage, so that none
\* is stored twice (chains/evm/adapter.py: vantage-stable identity for an internal
\* transfer; explorer_fetch.py: a key of its content matches across providers).
InternalStoredOnce ==
    \A r, s \in stored : r.tx = s.tx /\ r.of = s.of /\ r.section = "internal" => r = s

\* The manual explorer and the trace read the same counterparties out of the
\* same transactions, halves of UTXO transactions included.
ReadersAgree ==
    \A a \in Person :
      /\ ExploredSenders(acquired, a) = TracedSenders(stored, a)
      /\ ExploredRecipients(acquired, a) = TracedRecipients(stored, a)
=============================================================================
