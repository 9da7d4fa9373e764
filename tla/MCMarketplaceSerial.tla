------------------------ MODULE MCMarketplaceSerial ------------------------
(* Constants of the TLC runs of MarketplaceSerial.                         *)
EXTENDS MarketplaceSerial, Matching, TLC

CONSTANTS shipper, carrier1, carrier2, o1, o2, o3, t1, t2

MCPrincipals == {shipper, carrier1, carrier2}
MCOffers == {o1, o2, o3}
MCTrips == {t1, t2}

\* Ids are interchangeable: no definition compares or orders them.
MCSymmetry == Permutations(MCPrincipals) \cup Permutations(MCOffers)
                \cup Permutations(MCTrips)


-----------------------------------------------------------------------------
\* Texts and what they contain; "long" is cut just after a blank.
MCCut(t, n) ==
  CASE t = Null -> "" [] t = "long" -> "a_" [] t = "a_" -> "a" [] OTHER -> t
MCContains(t, part) == part = "" \/ t = part \/ <<t, part>> \in {<<"ab", "a">>, <<"ab", "b">>}

MCQueries ==
  [origin : {"", "a", "long"}, destination : {"", "b"}, readyFrom : {Null, 1, Unreadable},
   readyTo : {Null, 1}, equipment : {"", "box", "boat"}]
MCRows ==
  [origin : {"a", "ab"}, destination : {"b"}, equipment : {Null, "box"},
   loadReadyAt : {Null, 0, 2}, orgId : {Null, "fleet"}, status : {"POSTED", "AWARDED"},
   expiresAt : {Null, 1}]
MCCompared ==
  [id : {1}, priceEur : {Null, 1, 2}, deliveryEtaAt : {Null, 1}]
    \cup [id : {2, 3}, priceEur : {Null, 1}, deliveryEtaAt : {Null, 1}]
MCBids == [id : 1..3, status : {"SENT", "VIEWED", "WITHDRAWN"}]
DistinctIds(rows) == \A a, b \in rows : a.id = b.id => a = b
MCBeacons ==
  [location : {"a", "ab", "c"}, heading : {Null, "b"}, availableFrom : {Null, 1},
   equipment : {Null, "box"}]

\* The promises of Matching, which MarketplaceProofs proves for all rows, on small
\* ones.
ASSUME MatchingPromises ==
  /\ \A q \in MCQueries : SearchIsKept(q)
  /\ \A q \in MCQueries : FeedIsNoWider(MCRows, parseMatchFilter(q), "fleet", 0)
  /\ \A rows \in {r \in SUBSET MCCompared : Cardinality(r) = 3 /\ DistinctIds(r)} :
       ComparisonIsAnOrder(rows)
  /\ \A offers \in {r \in SUBSET MCBids : Cardinality(r) <= 3 /\ DistinctIds(r)} :
       \A winner \in {o \in offers : OfferOpen(o)} :
         NoticesAreReadBack([id |-> 9, tripId |-> Null], offers, winner, 7)

\* Evaluated only: a pairing scores at most 100, and the auto-match winner is
\* a candidate none is cheaper than.
ASSUME ScoresAndWinners ==
  /\ \A l \in MCRows, b \in MCBeacons : score(l, b) \in 0 .. 100
  /\ \A offers \in {r \in SUBSET [id : 1..3, status : {"SENT", "DECLINED"},
                                  priceEur : {Null, 1}, carrierRating : {Null, 4}] :
                      Cardinality(r) <= 2 /\ DistinctIds(r)},
       limit \in {Null, 1}, rating \in {Null, 4, 5} :
       LET rules == [enabled |-> TRUE, maxPriceEur |-> limit, minRating |-> rating]
           winner == autoMatchWinner(rules, offers)
       IN  IF Candidates(rules, offers) = {} THEN winner = Null
           ELSE /\ winner \in Candidates(rules, offers)
                /\ \A o \in Candidates(rules, offers) : ~Below(o.priceEur, winner.priceEur)

\* dateFits keeps a load with no ready time in any window; the feed's query
\* leaves it out.
ASSUME FeedLeavesOutUndatedLoads ==
  \E q \in MCQueries : \E l \in filterLoads(MCRows, parseMatchFilter(q)) :
    /\ LoadOpen(l) /\ Alive(l, 0) /\ l.orgId = Null /\ q.readyFrom = 1
    /\ l \notin FeedLoads(MCRows, parseMatchFilter(q), "fleet", 0)
=============================================================================
