---------------------------- MODULE MCTraceGraph ----------------------------
(* Small ledgers for modules TraceGraph and CaseFile.                       *)
EXTENDS CaseFile

CONSTANTS s, a, b, c, d, m, x   \* subject, four plain addresses, a mixer, an exchange

Plain == [y \in Address |-> {}]
PoolAndExchange == [Plain EXCEPT ![m] = {"mixer"}, ![x] = {"vasp"}]
OnlyPool == [Plain EXCEPT ![m] = {"mixer"}]
SanctionedExchange == [PoolAndExchange EXCEPT ![x] = {"vasp", "sanctioned"}]

\* Payments for both objectives: an address on both sides of the subject, a
\* cycle back to it, a pool that pays it and one it pays into, and ways to b and
\* to the exchange around the pool and through it.
Payments ==
  {<<a, s>>, <<s, a>>, <<m, s>>, <<s, m>>, <<b, m>>, <<m, b>>, <<b, a>>, <<a, b>>, <<x, b>>,
   <<b, x>>}

\* Two payers of the subject, one of them with payers enough to be cut short, a
\* chain of three behind it, and a short cut to the chain, a cycle included.
Layers ==
  {<<a, s>>, <<b, a>>, <<c, b>>, <<d, s>>, <<c, d>>, <<a, c>>, <<d, a>>, <<c, a>>}

\* Ledgers of nine and ten payments around the pool are left out for their size.
AllLedgers == {L \in SUBSET Payments : Cardinality(L) <= 8} \cup SUBSET Layers

\* The exchange is the subject's payer.
PaidByExchange == {{<<x, s>>}, {<<x, s>>, <<a, x>>}}

\* b is three hops upstream, and downstream only through the pool.
UpstreamAndPastThePool == {{<<a, s>>, <<x, a>>, <<b, x>>, <<s, m>>, <<m, b>>}}

LateClaims == {<<a, "vasp">>}
NoClaims == {}
=============================================================================
