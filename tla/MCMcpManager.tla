------------------------------ MODULE MCMcpManager ------------------------------
(* Two servers with two tools each; a tool of one and a tool of the other have *)
(* one name in the registry.  The list of a changes, and that of b has both.   *)
EXTENDS McpManager, TLC

CONSTANTS a, b, x, y, c1, c2, c3

MCName == (<<a, x>> :> 1) @@ (<<a, y>> :> 2) @@ (<<b, x>> :> 3) @@ (<<b, y>> :> 2)
MCLists == {{x}, {x, y}}
MCOffers == {(a :> {x}) @@ (b :> {x, y}), (a :> {x, y}) @@ (b :> {x, y})}
On == [enabled |-> TRUE, allowed |-> {x, y}]
Off == [enabled |-> FALSE, allowed |-> {x}]
MCConfigs == {On, Off}
MCRows == {(a :> On) @@ (b :> NoRow)}
=============================================================================
