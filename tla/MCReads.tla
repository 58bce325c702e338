------------------------------ MODULE MCReads ------------------------------
(* Small instances of the modules that read the chains and conclude from    *)
(* what they store: a site and histories, a ledger of transactions, the     *)
(* transfers around a mixer, those of one address, and spends; and of the   *)
(* harvest that takes labels in.  They run one at a time: "part" says which *)
(* of them a behaviour is about.                                            *)
EXTENDS ExplorerFetch, AddressHistory, Movements, MixerExits, Behaviour, Cospend, HarvestCycle

CONSTANTS t1, t2, t3, t4, t5, u1, u2, u3, b1, b2, b3, b4, ann, bob, cat, usd, eth, pool

VARIABLE part

MCChain == {Ethereum, Tron, Bitcoin, Solana}

MCServes ==
    (Ethereum :> {History, Tokens, Internal}) @@ (Tron :> {History, Tokens})
      @@ [chain \in {Bitcoin, Solana} |-> {}]

MCModule == <<History, Internal, Tokens>>

MCListing ==
    (Ethereum :> ((History :> <<t1, t2, t2, t3, t4>>) @@ (Tokens :> <<t1, t5>>) @@ (Internal :> <<>>)))
      @@ (Tron :> ((History :> <<u1, u2, u3, u3, u1>>) @@ (Tokens :> <<u1>>)))
      @@ (Bitcoin :> (History :> <<b1, b2, b3, b4>>))
      @@ (Solana :> (History :> <<b1, b2, b3, b4>>))

Value(m) == [asset |-> Coin, mine |-> m, digits |-> 0]
Trans(m) == [asset |-> Token, mine |-> m, digits |-> 6]
Only(native, token) == (History :> native) @@ (Tokens :> token) @@ (Internal :> <<>>)

MCEvents ==
    (t1 :> Only(<<Value(TRUE)>>, <<Trans(FALSE), Trans(TRUE)>>))
      @@ (t5 :> Only(<<Value(FALSE)>>, <<Trans(TRUE), Trans(TRUE)>>))
      @@ (u1 :> Only(<<Value(FALSE)>>, <<Trans(TRUE)>>))
      @@ [t \in {t2, t3, t4, u2, u3, b1, b2, b3, b4} |-> Only(<<Value(TRUE)>>, <<>>)]

MCVendors ==
    (Ethereum :> {"etherscan", "blockscout"}) @@ (Tron :> {"trongrid", "explorer"})
      @@ (Bitcoin :> {"mempool.space"}) @@ (Solana :> {"solana-rpc"})

FloorVendors == [MCVendors EXCEPT ![Ethereum] = {"explorer"}]

Piece(section, place, from, to, amount) ==
    Transfer(section, place, from, to, usd, amount, FALSE)

MCLedger ==
    [swap |-> [chain |-> EvmTx, ok |-> TRUE, parts |->
       <<Piece("native", 1, ann, bob, 1), Piece("token", 1, bob, ann, 1), Piece("token", 2, bob, ann, 2),
         Piece("internal", 1, cat, ann, 1), Piece("internal", 3, cat, ann, 1), [Piece("internal", 2, cat, bob, 1) EXCEPT !.reverted = TRUE]>>],
     failed |-> [chain |-> EvmTx, ok |-> FALSE, parts |-> <<Piece("native", 1, ann, bob, 1)>>],
     batch |-> [chain |-> TronTx, ok |-> TRUE, parts |->
       <<Piece("native", 1, ann, bob, 1), Piece("native", 2, ann, cat, 1),
         Piece("token", 1, ann, bob, 1), Piece("token", 2, ann, bob, 2), Piece("token", 3, ann, bob, 1)>>],
     spend |-> [chain |-> UtxoTx, ok |-> TRUE, parts |->
       <<Piece("in", 1, Nobody, Nobody, 1), Piece("in", 2, ann, Nobody, 2),
         Piece("in", 3, bob, Nobody, 2), Piece("out", 1, Nobody, cat, 3), Piece("out", 2, Nobody, ann, 1)>>],
     split |-> [chain |-> SolanaTx, ok |-> TRUE, parts |->
       <<Piece("in", 1, cat, Nobody, 2), Piece("out", 2, Nobody, bob, 2), Piece("out", 3, Nobody, ann, 0)>>]]

Leg(tx, place, from, to, asset, amount, at, price) ==
    [tx |-> tx, place |-> place, from |-> from, to |-> to, asset |-> asset,
     amount |-> amount, at |-> at, price |-> price]

\* bob's payment to cat is the oldest of the four transfers cat may have received.
MCTransfers ==
    {Leg(1, 1, ann, pool, usd, 1, 1, 7), Leg(1, 2, ann, pool, eth, 2, 1, 7),
     Leg(2, 1, bob, pool, eth, 2, 2, 7), Leg(3, 1, bob, pool, usd, 1, 2, NoPrice),
     Leg(4, 1, pool, cat, eth, 2, 3, 7), Leg(5, 1, pool, ann, eth, 1, 4, NoPrice),
     Leg(6, 1, pool, cat, usd, 1, 4, 5), Leg(7, 1, pool, bob, eth, 1, 2, 9),
     Leg(4, 2, pool, u1, eth, 1, 3, 7), Leg(8, 1, bob, cat, eth, 1, 3, NoPrice),
     Leg(9, 1, u1, cat, usd, 1, 5, NoPrice)}

\* cat is paid by two and pays three, ann twice in one instant.
Move(tx, from, to, asset, amount, at) ==
    [tx |-> tx, place |-> 1, from |-> from, to |-> to, asset |-> asset, amount |-> amount, at |-> at]

MCMovements ==
    {Move(1, ann, cat, eth, 100, 1), Move(2, bob, cat, eth, 97, 2), Move(7, bob, cat, eth, 0, 3),
     Move(3, cat, ann, eth, 30, 2), Move(4, cat, ann, eth, 96, 4),
     Move(5, cat, usd, eth, 97, 5), Move(6, cat, bob, usd, 50, 2)}

\* The same, and ann is paid twice in one instant.
TiedMovements ==
    {Move(1, ann, cat, eth, 100, 1), Move(2, bob, cat, eth, 97, 2),
     Move(4, cat, ann, eth, 99, 4), Move(5, cat, usd, eth, 97, 4)}

Spend(inputs, outputs) == [inputs |-> inputs, outputs |-> outputs]

MCSpends ==
    (1 :> Spend({t1, t2}, 5 :> 1)) @@ (2 :> Spend({t2, t3}, 5 :> 2)) @@ (3 :> Spend({t4, t5}, 5 :> 1))
      @@ (4 :> Spend({t3, t5, u1}, 5 :> 1)) @@ (5 :> Spend({t1, t4, u2}, 5 :> 2))
      @@ (6 :> Spend({t1, pool}, 5 :> 1)) @@ (7 :> Spend({u2}, 5 :> 1)) @@ (8 :> Spend({u1, u2}, 5 :> 1))

MCSeeds == (t1 :> ann) @@ (u2 :> ann) @@ (t4 :> bob)

NoDate == -9
Entry(ticker, address, named) == [ticker |-> ticker, address |-> address, named |-> named]
Doc(media, declares, dates, entries) ==
    [media |-> media, whole |-> TRUE, sound |-> TRUE, declares |-> declares, dates |-> dates,
     rows |-> entries]
Page(status, doc) ==
    [robots |-> TRUE, status |-> status, host |-> "storage", https |-> TRUE, beyond |-> "ok",
     doc |-> doc]
DropOf(source, name, date, doc) ==
    [for |-> source, name |-> name, date |-> date, readable |-> TRUE, doc |-> doc]

MCLedgers == [XBT |-> "bitcoin", SOL |-> "solana", TRX |-> "tron"]
MCEncoded == [base |-> "bitcoin", tee |-> "tron", other |-> "undecided"]
MCCanonical == [base |-> "base", tee |-> "tee", other |-> "other"]

\* A Tron address listed as XBT and again as USDT, one no ledger owns, one of Solana.
Designations(dates) ==
    Doc("xml", "ofac", dates, {Entry("XBT", "tee", TRUE), Entry("USDT", "tee", TRUE),
       Entry("USDT", "other", TRUE), Entry("SOL", "base", TRUE), Entry("XBT", "other", FALSE)})

MCSites ==
    [ofac |-> {Page("redirect", Designations({1})), Page("lost", Designations({1})),
               Page("ok", [Designations({1}) EXCEPT !.whole = FALSE]),
               [Page("redirect", Designations({1})) EXCEPT !.https = FALSE]},
     okx |-> {Page("lost", Designations({}))}]

MCDrops ==
    {DropOf("okx", 1, 0, Doc("csv", "okx", {}, {Entry("XBT", "base", TRUE)})),
     DropOf("okx", 2, 1, Doc("json", "ofac", {1}, {Entry("bitcoin", "base", TRUE)}))}

MCMedia == [okx |-> {"csv", "json"}, ofac |-> {"xml"}]
MCHandoff == [ofac |-> {"storage"}]
MCStaleAfter == [okx |-> 0, ofac |-> 0]

MCInit ==
    /\ ExplorerInit /\ HistoryInit /\ MovementsInit /\ ExitsInit /\ BehaviourInit /\ ClusterInit
    /\ HarvestInit
    /\ part \in {"tier", "history", "movements", "exits", "behaviour", "clusters", "harvest"}

readVars == <<explorerVars, reading, stored, acquired, around, log, clusterVars>>

\* Every transaction taken: build_clusters is done.
Clustered == taken = DOMAIN Spends /\ UNCHANGED clusterVars

\* Every cycle over: the harvest rests.
Harvested == (\A c \in Cycle : cycle[c].step = "over") /\ UNCHANGED harvestVars

MCNext ==
    /\ \/ /\ \/ part = "tier" /\ ExplorerNext
                /\ UNCHANGED <<reading, stored, acquired, around, log, clusterVars>>
             \/ part = "history" /\ HistoryNext
                /\ UNCHANGED <<explorerVars, stored, acquired, around, log, clusterVars>>
             \/ part = "movements" /\ MovementsNext
                /\ UNCHANGED <<explorerVars, reading, around, log, clusterVars>>
             \/ part = "exits" /\ ExitsNext
                /\ UNCHANGED <<explorerVars, reading, stored, acquired, log, clusterVars>>
             \/ part = "behaviour" /\ BehaviourNext
                /\ UNCHANGED <<explorerVars, reading, stored, acquired, around, clusterVars>>
             \/ part = "clusters" /\ (ClusterNext \/ Clustered)
                /\ UNCHANGED <<explorerVars, reading, stored, acquired, around, log>>
          /\ UNCHANGED harvestVars
       \/ part = "harvest" /\ (HarvestNext \/ Harvested) /\ UNCHANGED readVars
    /\ UNCHANGED part

MCSpec == MCInit /\ [][MCNext]_<<readVars, harvestVars, part>>
=============================================================================
