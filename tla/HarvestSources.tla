--------------------------- MODULE HarvestSources --------------------------
(* How a harvest source gets its document and what it reads in it:          *)
(* harvest/sources.py, parsers.py, exchanges.py, sanctions.py.  Operators   *)
(* only.  A document is what its parser tells apart: its media, whether it  *)
(* is whole and has the structure the parser asserts, what it declares, and *)
(* its rows.  An address is a value with an encoding and a canonical form.  *)
EXTENDS Integers, FiniteSets, FiniteSetsExt

CONSTANTS Origin,       \* the sources of the daily plan
          Fetched,      \* those with a page to fetch, the drop directory second
          Media,        \* [Origin -> the suffixes of the parsers it has]
          HandoffHosts, \* [Origin -> hosts its page may hand the request to]
          Ledgers,      \* [ticker -> chain]: POR_NETWORKS and SDN_LEDGER_CHAINS
          TokenTickers, \* SDN_TOKEN_TICKERS
          Encoded,      \* [address -> the chain its form decides, or Undecided]
          Canonical,    \* [address -> normalize_address of it]
          Undecided,
          Undated

Unavailable == [kind |-> "unavailable"]
NotSupplied == [kind |-> "not supplied"]
Rejected == [kind |-> "rejected"]
Claims(claims, date) == [kind |-> "claims", claims |-> claims, date |-> date]

-----------------------------------------------------------------------------
(* Loading.                                                                 *)

\* HttpDocumentSource.load: robots first; one declared https handoff at most.
Answers200(s, site) ==
    /\ site.robots
    /\ \/ site.status = "ok"
       \/ /\ site.status = "redirect"
          /\ site.host \in HandoffHosts[s] /\ site.https /\ site.beyond = "ok"

Fetch(s, site) ==
    IF Answers200(s, site) THEN [kind |-> "document", doc |-> site.doc, fallback |-> Undated]
    ELSE Unavailable

\* ManualDropSource._newest: of the files named for the source whose suffix it can
\* parse; a file name whose date is no date refuses the source.
Candidates(s, drops) == {d \in drops : d.for = s /\ d.doc.media \in Media[s]}

NewestDrop(s, drops) ==
    CHOOSE d \in Candidates(s, drops) : \A e \in Candidates(s, drops) :
        d.date > e.date \/ (d.date = e.date /\ d.name >= e.name)

LoadDrop(s, drops) ==
    IF \E d \in Candidates(s, drops) : d.date = Undated THEN Rejected
    ELSE IF Candidates(s, drops) = {} THEN NotSupplied
    ELSE LET d == NewestDrop(s, drops)
         IN  IF d.readable THEN [kind |-> "document", doc |-> d.doc, fallback |-> d.date]
             ELSE Unavailable

\* FirstAvailableSource.load: the next transport only when one is unavailable.
Load(s, site, drops) ==
    IF s \notin Fetched THEN LoadDrop(s, drops)
    ELSE IF Fetch(s, site).kind = "document" THEN Fetch(s, site)
    ELSE IF LoadDrop(s, drops).kind = "not supplied" THEN Unavailable
    ELSE LoadDrop(s, drops)

-----------------------------------------------------------------------------
(* Parsing.                                                                 *)

Dated(doc, fallback) == IF doc.dates = {} THEN fallback ELSE Min(doc.dates)

\* Pairs of chain and address, as the store keys them; no chain, no claim.
Filed(pairs) == {<<p[1], Canonical[p[2]]>> : p \in {q \in pairs : q[1] # Undecided}}

LedgerNamed(r) == IF r.named /\ r.ticker \in DOMAIN Ledgers THEN Ledgers[r.ticker] ELSE Undecided

\* parse_labelpack: all its entries or none; it must declare this very source, and a date.
ParsePack(s, doc) ==
    IF /\ doc.sound /\ doc.declares = s /\ doc.dates # {}
       /\ \A r \in doc.rows : r.named
    THEN Claims(Filed({<<r.ticker, r.address>> : r \in doc.rows}), Min(doc.dates)) ELSE Rejected

\* parse_proof_of_reserves_csv, dated by its file's name: rows without an address or
\* of another network are dropped, and nothing left is a change of format.
ReserveRows(doc) == Filed({<<LedgerNamed(r), r.address>> : r \in doc.rows})

ParseProofOfReserves(doc, date) ==
    IF ~doc.sound \/ date = Undated \/ ReserveRows(doc) = {} THEN Rejected
    ELSE Claims(ReserveRows(doc), date)

\* parse_coinbase_reserves: the same of a page, which must state its own date.
ReservesStamp(doc) == Dated(doc, Undated)
ParseCoinbaseReserves(doc) == ParseProofOfReserves(doc, ReservesStamp(doc))

\* _sdn_chain: the encoding decides, except against Solana, which it cannot rule out.
SdnChain(r) ==
    LET encoded == Encoded[r.address]
        ledger == LedgerNamed(r)
    IN  IF ~r.named THEN Undecided
        ELSE IF ledger = Undecided THEN IF r.ticker \in TokenTickers THEN encoded ELSE Undecided
        ELSE IF encoded = Undecided \/ (ledger = "solana" /\ encoded = "bitcoin") THEN ledger
        ELSE encoded

SdnRows(doc) == Filed({<<SdnChain(r), r.address>> : r \in doc.rows})

\* parse_ofac_sdn: read whole or not at all.
ParseSdn(doc, fallback) ==
    IF ~doc.whole THEN Unavailable
    ELSE IF ~doc.sound \/ Dated(doc, fallback) = Undated \/ SdnRows(doc) = {} THEN Rejected
    ELSE Claims(SdnRows(doc), Dated(doc, fallback))

Parse(s, doc, fallback) ==
    IF doc.media \notin Media[s] THEN Rejected
    ELSE CASE doc.media = "json" -> ParsePack(s, doc)
           [] doc.media = "csv" -> ParseProofOfReserves(doc, fallback)
           [] doc.media = "html" -> ParseCoinbaseReserves(doc)
           [] doc.media = "xml" -> ParseSdn(doc, fallback)

\* What a source's turn reads: a document's claims, or why there are none.
Reading(s, site, drops) ==
    LET loaded == Load(s, site, drops)
    IN  IF loaded.kind = "document" THEN Parse(s, loaded.doc, loaded.fallback) ELSE loaded
=============================================================================
