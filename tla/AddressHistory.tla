--------------------------- MODULE AddressHistory ---------------------------
(***************************************************************************)
(* Reading one address: a chain adapter assembles a page out of one to     *)
(* three feeds, each served by whichever provider answers, and hands out a *)
(* cursor.  The engine reads one page and marks the node if there is more; *)
(* a caller of the API follows the cursors.  Providers disagree on how     *)
(* history is paged, and any of them may answer any page.                  *)
(***************************************************************************)
EXTENDS FloorTier

CONSTANTS
    Vendors,      \* Vendors[chain]: the providers registered for it
    Limit,        \* rows asked for
    PageHint,     \* confirmed transactions on a page of the Bitcoin API
    Unconfirmed,  \* transactions that are pending
    Void          \* transactions that failed, or lie outside the time window


VARIABLE reading

Ethereum == "ethereum"
Tron     == "tron"
Bitcoin  == "bitcoin"
Solana   == "solana"

Feeds(chain) ==
    CASE chain = Ethereum -> <<History, Tokens, Internal>>
      [] chain = Tron     -> <<History, Tokens>>
      [] OTHER            -> <<History>>

List(chain, i) == Listing[chain][Feeds(chain)[i]]

\* A transaction is listed once where it is one row; the sites of the last
\* resort cover two chains, and one adapter asks for its pages by number.
ASSUME AddressHistoryAssumption ==
    /\ Limit \in Nat \ {0} /\ PageHint \in Nat \ {0}
    /\ Chain \subseteq {Ethereum, Tron, Bitcoin, Solana}
    /\ \A c \in Chain : \A i \in DOMAIN Feeds(c) :
         List(c, i) \in Seq({t \in DOMAIN Events : Feeds(c)[i] \in DOMAIN Events[t]})
    /\ Bitcoin \in Chain => IsInjective(List(Bitcoin, 1))
    /\ \A c \in Chain : "explorer" \in Vendors[c] => c \in {Ethereum, Tron}
    /\ PagesByNumber \subseteq {Ethereum}

\* A cursor holds a mark for every feed; a feed without one is at its top.
NoCursor(chain) == [i \in DOMAIN Feeds(chain) |-> 0]

---------------------------------------------------------------------------
\* What a vendor's reply is taken for.  Every client reads the transport, the
\* status and the envelope in that order.
Records   == "rows"
Empty     == "empty list"
Marker    == "says there are none"
Throttled == "says too many"
Partial   == "rows so far"
Refusal   == "another message"
Broken    == "no envelope"
Transport == {"transport error", "429", "404", "4xx", "5xx"}

Numbered == {"etherscan", "blockscout"}
Rpc      == {"solana-rpc"}

ReadsNotFound(vendor) == vendor \in {"trongrid", "mempool.space"}

Outcome(vendor, reply) ==
    CASE reply \in {"transport error", "5xx"}              -> "unavailable"
      [] reply = "429"                                     -> "limited"
      [] reply = "404" /\ ReadsNotFound(vendor)            -> "not found"
      [] reply = Throttled /\ vendor \in Numbered \cup Rpc -> "limited"
      [] reply \in {Records, Empty}                           -> "rows"
      [] reply = Marker /\ vendor \in Numbered             -> "rows"
      [] reply = Partial /\ vendor = "blockscout"          -> "rows"
      [] OTHER                                             -> "invalid"

\* The replies a vendor gives when the feed holds this much past the mark.
MayReply(rows) ==
    Transport \cup {Throttled, Refusal, Broken}
      \cup (IF rows = <<>> THEN {Empty, Marker} ELSE {Records, Partial})

---------------------------------------------------------------------------
FeedAnswer(rows, next, short, partial) ==
    [kind |-> "rows", rows |-> rows, next |-> next, short |-> short, partial |-> partial]

Lost == [kind |-> "lost", rows |-> <<>>, next |-> 0, short |-> FALSE, partial |-> FALSE]

Between(list, after, size) == Cut(list, after, after + size)

\* A list without some of its members, in order.
Without(list, members) ==
    LET Left[n \in 0..Len(list)] ==
          IF n = 0 THEN <<>>
          ELSE IF list[n] \in members THEN Left[n - 1] ELSE Append(Left[n - 1], list[n])
    IN  Left[Len(list)]

Pending(list)   == Without(list, ToSet(list) \ Unconfirmed)
Confirmed(list) == Without(list, Unconfirmed)

\* Rows past a mark, as the chain's own API pages them.  Bitcoin lists what is
\* pending above its first page and never again.
VendorRows(chain, i, mark) ==
    LET list == List(chain, i)
    IN  CASE chain = Ethereum -> Between(list, (IF mark = 0 THEN 0 ELSE mark - 1) * Limit, Limit)
          [] chain = Bitcoin  -> (IF mark = 0 THEN Pending(list) ELSE <<>>)
                                   \o Between(Confirmed(list), mark, PageHint)
          [] OTHER            -> Between(list, mark, Limit)

\* TronGrid's fingerprint, honoured only where the body links a next page.
Fingerprint(chain, i, mark) ==
    IF chain = Tron /\ mark + Limit < Len(List(chain, i)) THEN mark + Limit ELSE 0

VendorAnswers(vendor, chain, i, mark) ==
    LET rows == VendorRows(chain, i, mark)
        next == Fingerprint(chain, i, mark)
    IN  {IF reply = Partial THEN FeedAnswer(Front(rows), next, FALSE, TRUE)
         ELSE FeedAnswer(rows, next, FALSE, FALSE) :
           reply \in {r \in MayReply(rows) : Outcome(vendor, r) = "rows"}}

NotFound(vendor, chain, i, mark) ==
    \E reply \in MayReply(VendorRows(chain, i, mark)) : Outcome(vendor, reply) = "not found"

\* The floor tier pages by number and can position no other vendor's mark.
FromFloor(chain, i, mark) ==
    {FeedAnswer(reply.rows, 0, reply.short, FALSE) :
       reply \in Promise([chain |-> chain, cap |-> Feeds(chain)[i],
                           page |-> IF chain \in PagesByNumber THEN (IF mark = 0 THEN 1 ELSE mark)
                                    ELSE IF mark = 0 THEN 1 ELSE Cursor])}

\* The pool: any provider may be the one that answers, or none is.
Answers(chain, i, mark) ==
    {Lost} \cup UNION {IF v = "explorer" THEN FromFloor(chain, i, mark)
                       ELSE VendorAnswers(v, chain, i, mark) : v \in Vendors[chain]}

---------------------------------------------------------------------------
\* What an adapter keeps of a feed's rows.
Settled(rows) == Without(rows, Unconfirmed \cup Void)

Items(chain, rows) ==
    IF chain = Bitcoin THEN SubSeq(Settled(rows), 1, Upper(Limit, Len(Settled(rows)))) ELSE Settled(rows)

PositionOf(list, t) == CHOOSE n \in DOMAIN list : list[n] = t

AfterBitcoinFromKept(rows) ==
    LET kept == Settled(rows)
        all  == Confirmed(List(Bitcoin, 1))
    IN  IF Len(kept) > Limit THEN PositionOf(all, kept[Limit])
        ELSE IF Len(kept) >= PageHint THEN PositionOf(all, Last(kept))
        ELSE 0

\* More history is a property of the provider's page, not of what is kept.
AfterBitcoin(rows) ==
    LET kept      == Settled(rows)
        confirmed == Confirmed(rows)
        all       == Confirmed(List(Bitcoin, 1))
    IN  IF Len(kept) > Limit THEN PositionOf(all, kept[Limit])
        ELSE IF Len(confirmed) >= PageHint THEN PositionOf(all, Last(confirmed))
        ELSE 0

\* A feed that was not read keeps the mark it was asked at.
JoinCursor(got, cursor) ==
    <<got[1].next, IF got[2].kind = "lost" THEN cursor[2] ELSE got[2].next>>

NextCursor(chain, cursor, got) ==
    LET page == IF cursor[1] = 0 THEN 1 ELSE cursor[1]
        full == \E i \in DOMAIN got : Len(got[i].rows) >= Limit
    IN  CASE chain = Ethereum -> [i \in DOMAIN got |-> IF full THEN page + 1 ELSE 0]
          [] chain = Tron     -> JoinCursor(got, cursor)
          [] chain = Bitcoin  -> <<AfterBitcoin(got[1].rows)>>
          [] chain = Solana   -> <<IF full THEN cursor[1] + Len(got[1].rows) ELSE 0>>

\* Only Tron's bodies can say that they were cut.
PageTruncated(chain, got) == chain = Tron /\ \E i \in DOMAIN got : got[i].short

Gaps(got) == {i \in DOMAIN got : got[i].kind = "lost"}

---------------------------------------------------------------------------
NotReading == [pc |-> "idle"]

HistoryInit == reading = NotReading

Open(chain) ==
    /\ reading = NotReading
    /\ reading' = [pc |-> "feeds", chain |-> chain, cursor |-> NoCursor(chain), got |-> <<>>,
                   seen |-> [i \in DOMAIN Feeds(chain) |-> {}], flagged |-> FALSE,
                   partial |-> FALSE]

\* The feeds are read one after the other.  The first is the page; losing one
\* of the others costs its own rows.
ReadFeed ==
    /\ reading.pc = "feeds"
    /\ Len(reading.got) < Len(Feeds(reading.chain))
    /\ LET i == Len(reading.got) + 1
       IN  \/ \E got \in Answers(reading.chain, i, reading.cursor[i]) :
                reading' = IF i = 1 /\ got = Lost
                           THEN [reading EXCEPT !.pc = "failed"]
                           ELSE [reading EXCEPT !.got = Append(@, got),
                                                !.partial = @ \/ got.partial]
           \/ /\ \E v \in Vendors[reading.chain] \ {"explorer"} :
                   NotFound(v, reading.chain, i, reading.cursor[i])
              /\ reading' = [reading EXCEPT !.pc = "failed"]

\* The page is complete: what it holds, what it says is missing, and where the
\* next one starts.
Assemble ==
    /\ reading.pc = "feeds"
    /\ Len(reading.got) = Len(Feeds(reading.chain))
    /\ LET got  == reading.got
           next == NextCursor(reading.chain, reading.cursor, got)
       IN  reading' = [reading EXCEPT
                         !.pc = IF next = NoCursor(reading.chain) THEN "read" ELSE "more",
                         !.cursor = next,
                         !.got = <<>>,
                         !.seen = [i \in DOMAIN got |->
                                     @[i] \cup ToSet(Items(reading.chain, got[i].rows))],
                         !.flagged = @ \/ Gaps(got) # {} \/ PageTruncated(reading.chain, got)]

\* On Solana every signature of the page is looked up, and each lookup is as
\* hard a read as the listing.
LookupFails ==
    /\ reading.pc = "feeds"
    /\ reading.chain = Solana
    /\ reading.got # <<>> /\ Items(Solana, reading.got[1].rows) # <<>>
    /\ reading' = [reading EXCEPT !.pc = "failed"]

\* A caller of the API asks for the next page; the engine, which reads one page
\* of an address, marks the node instead.
Follow ==
    /\ reading.pc = "more"
    /\ reading' = [reading EXCEPT !.pc = "feeds"]

StopMarked ==
    /\ reading.pc = "more"
    /\ reading' = [reading EXCEPT !.pc = "read", !.flagged = TRUE]

Close ==
    /\ reading.pc \in {"read", "failed"}
    /\ reading' = NotReading

HistoryNext == ReadFeed \/ LookupFails \/ Assemble \/ Follow \/ StopMarked \/ Close \/ \E chain \in Chain : Open(chain)

HistorySpec == HistoryInit /\ [][HistoryNext]_reading

Wanted(chain, i) ==
    {t \in ToSet(Settled(List(chain, i))) : RowsOf(Feeds(chain)[i], t) # <<>>}

\* An address that carries no mark was read to the end: whichever provider
\* answered which page, and whichever feeds were lost on the way, every settled
\* transaction of every feed has been seen.  (An indexer that itself says it is
\* behind is the exception: the EVM payload has no place to say so.)
UnmarkedMeansRead ==
    reading.pc = "read" /\ ~reading.flagged /\ ~reading.partial =>
      \A i \in DOMAIN Feeds(reading.chain) : Wanted(reading.chain, i) \subseteq reading.seen[i]
=============================================================================
