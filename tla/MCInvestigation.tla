--------------------------- MODULE MCInvestigation ---------------------------
(* Small investigations for module Investigation.                           *)
EXTENDS Investigation

CONSTANTS s, a, b, m, x, start, alice, bob

Plain == [y \in Address |-> {}]
PoolAndExchange == [Plain EXCEPT ![m] = {"mixer"}, ![x] = {"vasp"}]

\* The exchange is upstream of the pool, of a plain address, or of nothing.
FirstHop == {<<a, s>>, <<m, s>>}
SmallLedgers == {FirstHop, FirstHop \cup {<<x, m>>}, FirstHop \cup {<<b, a>>, <<x, b>>},
                 FirstHop \cup {<<b, a>>, <<x, m>>, <<x, b>>}}
LateClaims == {<<b, "vasp">>}
TwoRoutes == {{<<a, s>>, <<m, s>>, <<b, a>>, <<x, m>>, <<x, b>>}}
Chain == {{<<a, s>>, <<b, a>>}}

Small == [api_calls |-> 1, max_nodes |-> 3, max_depth |-> 4, pursue |-> TRUE,
          max_extensions |-> 2]
Large == [api_calls |-> 4, max_nodes |-> 5, max_depth |-> 4, pursue |-> TRUE,
          max_extensions |-> 1]
Thrifty == [api_calls |-> 2, max_nodes |-> 9, max_depth |-> 2, pursue |-> FALSE,
            max_extensions |-> 0]
Ample == [api_calls |-> 9, max_nodes |-> 9, max_depth |-> 4, pursue |-> TRUE,
          max_extensions |-> 0]
AllBudgets == {Small, Large, Thrifty}
TwoBudgets == {Small, Large}
OnlyAmple == {Ample}
NoClaims == {}
=============================================================================
