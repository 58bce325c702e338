----------------------------- MODULE FloorTier -----------------------------
(***************************************************************************)
(* What the last-resort provider promises (providers/clients/              *)
(* explorer_fetch.py): asked for one capability of one address, it either  *)
(* fails, or answers with exactly the rows the site lists for that stretch *)
(* of history, saying so when the stretch is cut and the caller has no way *)
(* to ask for the rest.  Nothing here says how pages are read; that is     *)
(* ExplorerFetch, which is checked to implement this module.               *)
(***************************************************************************)
EXTENDS Naturals, Sequences, SequencesExt, FiniteSets

CONSTANTS
    Chain,          \* the chains the sites serve
    Serves,         \* Serves[chain]: the feeds the chain's dialect can answer
    PagesByNumber,  \* the chains whose adapter asks for page n+1 by its number
    Listing,        \* Listing[chain][cap]: the address's rows, newest first
    Events,         \* Events[tx][cap]: the transfers of a transaction
    SitePages,      \* explorer pages read per call
    PageSize,       \* rows on a full explorer page
    MaxPage         \* bound: the logical pages asked for

ASSUME FloorTierAssumption ==
    /\ SitePages \in Nat \ {0}
    /\ PageSize \in Nat \ {0}
    /\ MaxPage \in Nat
    /\ PagesByNumber \subseteq Chain

VARIABLES asked, answer

History    == "address_history"
Tokens     == "token_transfers"
Internal   == "internal_traces"
Coin       == "coin"
Token      == "token"
Idle       == [chain |-> "none"]
NoAnswer   == [kind |-> "none"]
Failure    == [kind |-> "error"]

\* Page 0 stands for an opaque cursor that only another vendor can position.
Cursor     == 0
Pages(chain) == IF chain \in PagesByNumber THEN 1..MaxPage ELSE {Cursor, 1}
Request    == UNION {[chain : {chain}, cap : Serves[chain], page : Pages(chain)] : chain \in Chain}

\* A feed lists transactions, each of which has a list of transfers of its kind.
ASSUME ListingAssumption ==
    /\ \A c \in Chain : \A cap \in Serves[c] :
         Listing[c][cap] \in Seq({t \in DOMAIN Events : cap \in DOMAIN Events[t]})
    /\ \A t \in DOMAIN Events : \A cap \in DOMAIN Events[t] :
         Events[t][cap] \in Seq([asset : {Coin, Token}, mine : BOOLEAN, digits : Nat])

\* A list of transactions with those of another that it does not hold yet, in order.
Meet(seen, t) == IF Contains(seen, t) THEN seen ELSE Append(seen, t)

Extended(seen, list) ==
    LET Met[n \in 0..Len(list)] == IF n = 0 THEN seen ELSE Meet(Met[n - 1], list[n])
    IN  Met[Len(list)]

\* The order a reader meets the transactions of a stretch in, each once.
Distinct(list) == Extended(<<>>, list)

Upper(a, b) == IF a < b THEN a ELSE b

\* What comes after the first "from" rows of a list, up to row "to".
Cut(list, from, to) == SubSeq(list, from + 1, Upper(to, Len(list)))

Listed(req) == Listing[req.chain][req.cap]

\* The rows of the explorer pages that a logical page maps onto.
Stretch(req) ==
    Cut(Listed(req), (req.page - 1) * SitePages * PageSize, req.page * SitePages * PageSize)

ReachesEnd(req) == req.page * SitePages * PageSize >= Len(Listed(req))

\* The transfers of one transaction that belong to a feed: value in the
\* chain's own coin, or the token transfers the address took part in.
Belongs(cap, x) == IF cap = Tokens THEN x.mine ELSE x.asset = Coin

\* One row for each of them, and those of several transactions in their order.
RowsOf(cap, t) ==
    [i \in 1..Cardinality({n \in DOMAIN Events[t][cap] : Belongs(cap, Events[t][cap][n])}) |-> t]

Gathered(cap, list) ==
    LET Upto[n \in 0..Len(list)] == IF n = 0 THEN <<>> ELSE Upto[n - 1] \o RowsOf(cap, list[n])
    IN  Upto[Len(list)]

Rows(req) == Gathered(req.cap, Distinct(Stretch(req)))

Reply(rows, short) == [kind |-> "rows", rows |-> rows, short |-> short]

\* A stretch that stops short of the end of the history is never passed off as
\* the whole of it, unless the caller can ask for the next one; a cautious mark
\* at the very end is allowed.  A cursor the tier cannot position is answered
\* as a read cut short, never from the top and never as an error.
Promise(req) ==
    IF req.page = Cursor
    THEN {Reply(<<>>, TRUE)}
    ELSE {Reply(Rows(req), short) :
            short \in IF req.chain \in PagesByNumber THEN {FALSE}
                      ELSE IF ReachesEnd(req) THEN BOOLEAN ELSE {TRUE}}

FloorInit == asked = Idle /\ answer = NoAnswer

Ask(req) ==
    /\ asked = Idle
    /\ asked' = req
    /\ answer' = NoAnswer

Serve ==
    /\ asked # Idle
    /\ answer' \in Promise(asked) \cup {Failure}
    /\ asked' = Idle

FloorNext == Serve \/ \E req \in Request : Ask(req)

FloorSpec == FloorInit /\ [][FloorNext]_<<asked, answer>>
=============================================================================
