--------------------------- MODULE MCMarketplace ---------------------------
(* Constants of the TLC runs of Marketplace.                               *)
EXTENDS Marketplace, TLC

CONSTANTS shipper, carrier1, carrier2, l1, o1, o2, o3, t1, t2, r1, r2

MCPrincipals == {shipper, carrier1, carrier2}
MCLoads == {l1}
MCOffers == {o1, o2, o3}
MCTrips == {t1, t2}

\* Ids are interchangeable: no definition compares or orders them.
MCSymmetry == Permutations(MCPrincipals) \cup Permutations(MCOffers)
                \cup Permutations(MCTrips) \cup Permutations({r1, r2})

=============================================================================
