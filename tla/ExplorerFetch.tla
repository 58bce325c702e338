--------------------------- MODULE ExplorerFetch ---------------------------
(***************************************************************************)
(* providers/clients/explorer_fetch.py: the answer of the last-resort tier *)
(* assembled out of public pages.  A call enumerates the address's pages   *)
(* of one module, then reads every transaction page they name, then the    *)
(* asset page of every token whose scale it does not know.  The site may   *)
(* refuse, throttle or fail any request, and may have changed the markup   *)
(* of any page: a page is what the parsers make of it.                     *)
(***************************************************************************)
EXTENDS FloorTier

CONSTANTS
    Module,      \* the event modules of the site, in the order of its tab strip
    Scale,       \* the decimals of the token, as its asset page states them
    CacheSize,   \* transaction pages kept
    MaxFaults    \* bound: pages whose markup has changed, in one behaviour

ASSUME ExplorerFetchAssumption ==
    /\ CacheSize \in Nat
    /\ MaxFaults \in Nat
    /\ Module \in Seq({Module[i] : i \in DOMAIN Module})
    /\ \A c \in Chain : Serves[c] \subseteq {Module[i] : i \in DOMAIN Module}

VARIABLES
    call,     \* the call in progress
    robots,   \* what is known of the host's robots.txt, for the whole process
    pages,    \* transaction pages kept, least recently used first
    scale,    \* the chains whose token's scale has been read
    faults    \* changed pages served so far

explorerVars == <<asked, answer, call, robots, pages, scale, faults>>

NoCall == [pc |-> "idle"]

---------------------------------------------------------------------------
\* What the parsers make of an address page: the tab panes in order, how many
\* tabs the strip declares and which of them is checked.
Pane(rows, named, empties, notice) ==
    [rows |-> rows, named |-> named, empties |-> empties, notice |-> notice]

\* A pane for another module is a placeholder, and always looks empty.
Placeholder == Pane(<<>>, TRUE, TRUE, FALSE)

SitePage(req, n) == Cut(Listed(req), n * PageSize, (n + 1) * PageSize)

TabOf(cap) == CHOOSE i \in DOMAIN Module : Module[i] = cap

Strip(cap, pane) == [i \in DOMAIN Module |-> IF i = TabOf(cap) THEN pane ELSE Placeholder]

AddressPage(panes, checked) == [panes |-> panes, tabs |-> Len(Module), checked |-> checked]

\* The page as it is today: rows under the events header, an empty table past
\* the last page, a notice where the module has no events at all.
Faithful(req, n) ==
    LET rows == SitePage(req, n)
    IN  AddressPage(Strip(req.cap, IF Listed(req) = <<>> THEN Pane(<<>>, FALSE, FALSE, TRUE)
                               ELSE Pane(rows, TRUE, rows = <<>>, FALSE)), TabOf(req.cap))

\* The ways its markup may have moved: one more pane above the strip, links
\* that match no pattern, no transaction column, no checked tab.
Changed(req, n) ==
    LET tab  == TabOf(req.cap)
        page == Faithful(req, n)
        pane == page.panes[tab]
    IN  {AddressPage(<<Placeholder>> \o page.panes, tab),
         AddressPage(Strip(req.cap, Pane(<<>>, pane.named, FALSE, FALSE)), tab),
         AddressPage(Strip(req.cap, Pane(pane.rows, FALSE, pane.empties, FALSE)), tab),
         AddressPage(page.panes, 0)}

\* The pane of the module asked for, if the page says which.  The checked tab
\* is an ordinal, and addresses the panes only while the two are one to one.
Active(page) ==
    IF Len(page.panes) = page.tabs
    THEN {page.panes[i] : i \in {page.checked} \cap DOMAIN page.panes}
    ELSE {}

\* Emptiness is proved, never inferred from a failed match.
Legible(pane) ==
    IF pane.rows = <<>> THEN (pane.empties /\ pane.named) \/ pane.notice ELSE pane.named

---------------------------------------------------------------------------
\* What the parser makes of a transaction page: the transfers under each
\* heading it knows, the modules the notice names as having none, whether a
\* transfer could not be read, and whether block and time were found.
TransactionPage(sections, absent, partial, stamped) ==
    [sections |-> sections, absent |-> absent, partial |-> partial, stamped |-> stamped]

NoPage == TransactionPage(<<>>, {}, FALSE, FALSE)

Kinds(t) == {cap \in DOMAIN Events[t] : Events[t][cap] # <<>>}

Rendered(t, shown, absent) ==
    TransactionPage([cap \in shown |-> Events[t][cap]], absent, FALSE, TRUE)

FaithfulTransaction(t) == Rendered(t, Kinds(t), DOMAIN Events[t] \ Kinds(t))

\* A heading renamed, transfer markup moved (under it or in part), no stamp.
ChangedTransaction(t) ==
    LET whole == FaithfulTransaction(t)
    IN  {Rendered(t, Kinds(t) \ {cap}, whole.absent) : cap \in Kinds(t)}
        \cup {TransactionPage([whole.sections EXCEPT ![cap] = <<>>], whole.absent, FALSE, TRUE) :
                cap \in Kinds(t)}
        \cup {TransactionPage(whole.sections, whole.absent, TRUE, TRUE),
              TransactionPage(whole.sections, whole.absent, FALSE, FALSE)}

\* The places of a section that hold a transfer of the coin, of the address's own.
Coins(xs) == {i \in DOMAIN xs : xs[i].asset = Coin}
Mine(xs)  == {i \in DOMAIN xs : xs[i].mine}

\* A token amount is converted only when its printed precision is the scale
\* the asset page states; a native one when it is not finer than the coin's.
ReadExactly(xs, places) == \A i \in places : xs[i].asset = Token /\ xs[i].digits = Scale

\* Bug: a missing heading reads as none of the kind.
ProvesNoneByAbsence(page, cap) == cap \notin DOMAIN page.sections

ProvesNone(page, cap) == cap \notin DOMAIN page.sections /\ cap \in page.absent

\* A section that can be turned into rows of the feed.
Consistent(page, cap) ==
    /\ cap \in DOMAIN page.sections
    /\ page.sections[cap] # <<>>
    /\ page.stamped
    /\ cap = History => Len(page.sections[cap]) = 1
    /\ IF cap = Tokens
       THEN /\ Mine(page.sections[cap]) # {}
            /\ ReadExactly(page.sections[cap], Mine(page.sections[cap]))
       ELSE Coins(page.sections[cap]) # {}

RowCount(page, cap) ==
    IF cap \notin DOMAIN page.sections THEN 0
    ELSE Cardinality(IF cap = Tokens THEN Mine(page.sections[cap]) ELSE Coins(page.sections[cap]))

---------------------------------------------------------------------------
ExplorerInit ==
    /\ FloorInit
    /\ call = NoCall
    /\ robots = "unread"
    /\ pages = <<>>
    /\ scale = {}
    /\ faults = 0

\* execute() up to its first await.
Execute(req) ==
    /\ Ask(req)
    /\ call' = [pc |-> IF req.page = Cursor THEN "declined" ELSE "listing",
                offset |-> 0, size |-> 0, collected |-> <<>>, ended |-> FALSE,
                todo |-> <<>>, rows |-> <<>>, page |-> NoPage]
    /\ UNCHANGED <<robots, pages, scale, faults>>

\* The call ends with an exception, or with an answer.
Raise ==
    /\ answer' = Failure
    /\ asked' = Idle
    /\ call' = NoCall

Answer(rows, short) ==
    /\ answer' = Reply(rows, short)
    /\ asked' = Idle
    /\ call' = NoCall

\* A cursor of another vendor: no rows, nothing fetched, and marked short.
DeclineContinuation ==
    /\ call.pc = "declined"
    /\ Answer(<<>>, TRUE)
    /\ UNCHANGED <<robots, pages, scale, faults>>

Kept(t) == {pages[i].page : i \in {j \in DOMAIN pages : pages[j].tx = t}}

\* _token_decimals: read once per contract, never inferred; an asset page that
\* is about another asset, or states no number, is an error.
NeedsScale(page) ==
    /\ asked.cap = Tokens
    /\ asked.chain \notin scale
    /\ ~page.partial /\ page.stamped
    /\ Tokens \in DOMAIN page.sections
    /\ Mine(page.sections[Tokens]) # {}

\* A page is about to be asked for.
Fetching ==
    \/ call.pc = "listing"
    \/ call.pc = "transaction" /\ call.todo # <<>> /\ Kept(Head(call.todo)) = {}
    \/ call.pc = "rows" /\ NeedsScale(call.page)

\* robots.txt is read once per host and process; anything but rules or a
\* plain absence of rules is a refusal, and it is kept.
LoadRobots ==
    /\ Fetching
    /\ robots = "unread"
    /\ robots' \in {"allows", "disallows"}
    /\ UNCHANGED <<asked, answer, call, pages, scale, faults>>

\* _get: declined by robots, throttled, failed, refused or redirected.
GetFails ==
    /\ Fetching
    /\ robots # "unread"
    /\ Raise
    /\ UNCHANGED <<robots, pages, scale, faults>>

\* A page that is served, as it should be or changed.
Served(good, bad, page) ==
    /\ robots = "allows"
    /\ \/ page = good /\ faults' = faults
       \/ page \in bad /\ faults < MaxFaults /\ faults' = faults + 1

\* One more page of the address.  A page shorter than the first, or empty, is
\* the last; the size is counted in rows, not in distinct transactions.
EndsHistory(count) == count = 0 \/ (call.size # 0 /\ count < call.size)

TakeRows(pane) ==
    LET collected == Extended(call.collected, pane.rows)
        ends == EndsHistory(Len(pane.rows))
        last == ends \/ call.offset + 1 = SitePages
    IN  call' = [call EXCEPT
                   !.pc = IF last THEN "transaction" ELSE "listing",
                   !.offset = @ + 1,
                   !.size = IF @ = 0 THEN Len(pane.rows) ELSE @,
                   !.collected = collected,
                   !.ended = ends,
                   !.todo = IF last THEN collected ELSE <<>>]

ReadAddressPage ==
    /\ call.pc = "listing"
    /\ LET n == (asked.page - 1) * SitePages + call.offset
       IN  \E page \in {Faithful(asked, n)} \cup Changed(asked, n) :
             /\ Served(Faithful(asked, n), Changed(asked, n), page)
             /\ \/ \E pane \in Active(page) :
                     Legible(pane) /\ TakeRows(pane) /\ UNCHANGED <<asked, answer>>
                \/ (\A pane \in Active(page) : ~Legible(pane)) /\ Raise
    /\ UNCHANGED <<robots, pages, scale>>

\* A transaction page is kept whatever the call goes on to make of it, and
\* the one used longest ago gives way.
Remember(t, page) ==
    LET places == {i \in DOMAIN pages : pages[i].tx = t}
        others == IF places = {} THEN pages ELSE RemoveAt(pages, CHOOSE i \in places : TRUE)
        kept   == Append(others, [tx |-> t, page |-> page])
    IN  SubSeq(kept, Len(kept) - Upper(CacheSize, Len(kept)) + 1, Len(kept))

InHand(page) == call' = [call EXCEPT !.pc = "rows", !.page = page]

FetchTransaction ==
    /\ call.pc = "transaction"
    /\ call.todo # <<>>
    /\ LET t == Head(call.todo)
       IN  /\ Kept(t) = {}
           /\ \E page \in {FaithfulTransaction(t)} \cup ChangedTransaction(t) :
                /\ Served(FaithfulTransaction(t), ChangedTransaction(t), page)
                /\ pages' = Remember(t, page)
                /\ InHand(page)
    /\ UNCHANGED <<asked, answer, robots, scale>>

\* A page that was kept is used again without asking the site.
ReuseTransaction ==
    /\ call.pc = "transaction"
    /\ call.todo # <<>>
    /\ \E page \in Kept(Head(call.todo)) :
         /\ pages' = Remember(Head(call.todo), page)
         /\ InHand(page)
    /\ UNCHANGED <<asked, answer, robots, scale, faults>>

FetchScale ==
    /\ call.pc = "rows"
    /\ NeedsScale(call.page)
    /\ \E page \in {"states", "other"} :
         /\ Served("states", {"other"}, page)
         /\ IF page = "states"
            THEN scale' = scale \cup {asked.chain} /\ UNCHANGED <<asked, answer, call>>
            ELSE Raise /\ UNCHANGED scale
    /\ UNCHANGED <<robots, pages>>

\* _rows_for: the transaction proves it has none of the kind, or its section
\* is turned into rows, or the call fails.
EmitRows ==
    /\ call.pc = "rows"
    /\ ~NeedsScale(call.page)
    /\ IF \/ call.page.partial
          \/ ~ProvesNone(call.page, asked.cap) /\ ~Consistent(call.page, asked.cap)
       THEN Raise
       ELSE /\ call' = [call EXCEPT !.pc = "transaction", !.todo = Tail(@), !.page = NoPage,
                          !.rows = @ \o [i \in 1..RowCount(call.page, asked.cap) |-> Head(call.todo)]]
            /\ UNCHANGED <<asked, answer>>
    /\ UNCHANGED <<robots, pages, scale, faults>>

\* Stopping on the bound and not on a short page is said where the caller
\* cannot ask for the next page by number.
Truncated == ~call.ended /\ asked.chain \notin PagesByNumber

Finish ==
    /\ call.pc = "transaction"
    /\ call.todo = <<>>
    /\ Answer(call.rows, Truncated)
    /\ UNCHANGED <<robots, pages, scale, faults>>

ExplorerNext ==
    \/ \E req \in Request : Execute(req)
    \/ DeclineContinuation \/ LoadRobots \/ GetFails
    \/ ReadAddressPage
    \/ FetchTransaction \/ ReuseTransaction \/ FetchScale \/ EmitRows
    \/ Finish

ExplorerSpec == ExplorerInit /\ [][ExplorerNext]_explorerVars

\* The tier keeps its promise: whatever the site does to its markup, and
\* whatever was kept from earlier calls, an answer lists the transactions of
\* the stretch asked for, all of them and nothing else, and a cut that the
\* caller cannot see is said.  No failed match ever reads as "no history".
Floor == INSTANCE FloorTier WITH asked <- asked, answer <- answer
AnswersAreTrue == Floor!FloorSpec
=============================================================================
