--------------------------- MODULE ProxyHandlerMC ---------------------------
(***************************************************************************)
(* Instances of ProxyHandler for TLC: two sticky routes of which a reload  *)
(* may take one away with its pool, take an address away, list one twice,  *)
(* move a route to another pool or turn stickiness off.  Where TwoRoutes   *)
(* was never in use, cookies may name an address that no pool ever had.    *)
(***************************************************************************)
EXTENDS ProxyHandler, TLC

CONSTANTS r1, r2, p1, p2, a1, a2, n1, n2

L(routes2, sticky, targets1, targets2) ==
    [routes |-> (r1 :> p1) @@ (r2 :> routes2), sticky |-> sticky,
     targets |-> (p1 :> targets1) @@ (p2 :> targets2)]

TwoRoutes == L(p2, {r1, r2}, <<a1, a2>>, <<a2>>)
OneRoute  == L(NoPool, {r1}, <<a2>>, <<>>)
SamePool  == L(p1, {r1}, <<a2, a2>>, <<>>)
ThreeLayouts == {TwoRoutes, OneRoute, SamePool}
TwoRoutesOnly == {TwoRoutes}

\* stickyCookieName: "rp_sticky_" + source + "_" + id, with some characters made "_".
OwnNames == (r1 :> n1) @@ (r2 :> n2)
\* Route "b_c" of a.json and route "c" of a_b.json.
SameName == (r1 :> n1) @@ (r2 :> n1)
=============================================================================
