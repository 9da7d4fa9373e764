------------------------------- MODULE Matching -------------------------------
(***************************************************************************)
(* What the freight marketplace shows to whom: the carriers' feed and its  *)
(* filter, beacons and their ranking, the comparison of offers, the        *)
(* auto-match rules and the notices of an award.  All of it is computed    *)
(* from rows read before; Marketplace models how those rows change.        *)
(***************************************************************************)
EXTENDS OrderForms, FiniteSets

CONSTANT Contains(_, _)  \* the first text has the second in it, upper or lower case

AWARD_PAYMENT_METHODS == {"invoice"}
CANCELLATION_TERMS == {"standard", "flexible", "strict"}
AUTO_MATCH_MAX_RATING == 5
AUTO_MATCH_OWNER_APPROVED == TRUE

OfferOpen(o) == o.status \in {"SENT", "VIEWED"}
LoadOpen(l) == l.status \in {"POSTED", "OFFERS"}
Alive(row, now) == row.expiresAt = Null \/ row.expiresAt > now

-----------------------------------------------------------------------------
(* The forms.                                                              *)

BeaconAccepted(form) ==
  /\ Cut(form.location, Route) # Empty
  /\ EquipmentKnown(form)
  /\ optionalDate(form.availableFrom) /\ optionalDate(form.expiresAt)
  /\ optionalNumber(form.minRateEur)

normalizeBeacon(form) ==
  [location |-> Cut(form.location, Route), heading |-> OrNull(Cut(form.heading, Route)),
   availableFrom |-> form.availableFrom, equipment |-> WordOrNull(form.equipment),
   minRateEur |-> form.minRateEur, expiresAt |-> form.expiresAt]

\* A counter needs no price: it may take over the terms it answers.
OfferAccepted(form, requirePrice) ==
  /\ optionalNumber(form.priceEur)
  /\ requirePrice => form.priceEur # Null /\ form.priceEur > 0
  /\ optionalDate(form.pickupEtaAt) /\ optionalDate(form.deliveryEtaAt)
  /\ form.pickupEtaAt # Null /\ form.deliveryEtaAt # Null =>
       form.pickupEtaAt <= form.deliveryEtaAt
  /\ optionalDate(form.expiresAt)
  /\ OrDefault(form.cancellationTerms, "standard") \in CANCELLATION_TERMS

AwardAccepted(paymentMethod) ==
  OrDefault(paymentMethod, "invoice") \in AWARD_PAYMENT_METHODS  \* not "escrow"

AutoMatchAccepted(form) ==
  /\ optionalNumber(form.maxPriceEur) /\ optionalNumber(form.minRating)
  /\ form.minRating # Null => form.minRating <= AUTO_MATCH_MAX_RATING

-----------------------------------------------------------------------------
(* The feed.                                                               *)

\* A field of the query that is empty, or an equipment nobody knows, is no
\* filter.
parseMatchFilter(query) ==
  [origin |-> OrNull(Cut(query.origin, 100)),
   destination |-> OrNull(Cut(query.destination, 100)),
   readyFrom |-> query.readyFrom, readyTo |-> query.readyTo,
   equipment |-> IF query.equipment \in EQUIPMENT THEN query.equipment ELSE Null]

\* A saved search keeps the same fields, and the feed reads them back from it.
normalizeSearchFilter(search) ==
  [origin |-> OrNull(Cut(search.origin, 100)),
   destination |-> OrNull(Cut(search.destination, 100)),
   readyFrom |-> search.readyFrom, readyTo |-> search.readyTo,
   equipment |-> IF search.equipment \in EQUIPMENT THEN search.equipment ELSE Null]

laneMatches(load, filter) ==
  /\ filter.origin = Null \/ Contains(load.origin, filter.origin)
  /\ filter.destination = Null \/ Contains(load.destination, filter.destination)

\* A load with no ready time fits any window.
dateFits(load, filter) ==
  load.loadReadyAt = Null \/
    /\ filter.readyFrom \in Int => load.loadReadyAt >= filter.readyFrom
    /\ filter.readyTo \in Int => load.loadReadyAt <= filter.readyTo

equipmentFits(load, equipment) == equipment = Null \/ load.equipment = equipment

filterLoads(loads, filter) ==
  {l \in loads : laneMatches(l, filter) /\ dateFits(l, filter)
                   /\ equipmentFits(l, filter.equipment)}

\* The feed asks the database: open loads that have not expired and are not the
\* caller's own, a hundred at most.  Comparing with NULL is never true, so a
\* window leaves out the loads with no ready time; one that does not parse is
\* an error, here a feed without loads.
FeedLoads(loads, filter, org, now) ==
  {l \in loads :
     /\ LoadOpen(l) /\ Alive(l, now)
     /\ org = Null \/ l.orgId = Null \/ l.orgId # org
     /\ laneMatches(l, filter)
     /\ equipmentFits(l, filter.equipment)
     /\ filter.readyFrom # Null =>
          filter.readyFrom \in Int /\ l.loadReadyAt # Null /\ l.loadReadyAt >= filter.readyFrom
     /\ filter.readyTo # Null =>
          filter.readyTo \in Int /\ l.loadReadyAt # Null /\ l.loadReadyAt <= filter.readyTo}

-----------------------------------------------------------------------------
(* Beacons.                                                                *)

BeaconsListed(beacons, query, now) ==
  {b \in beacons :
     /\ b.active /\ Alive(b, now)
     /\ query.equipment \in EQUIPMENT => b.equipment = query.equipment
     /\ query.location # Empty => Contains(b.location, query.location)
     /\ query.availableBefore \in Int =>
          b.availableFrom = Null \/ b.availableFrom <= query.availableBefore}

LaneOrigin(load, beacon) ==
  Contains(beacon.location, load.origin) \/ Contains(load.origin, beacon.location)
LaneHeading(load, beacon) ==
  /\ beacon.heading # Null
  /\ Contains(beacon.heading, load.destination) \/ Contains(load.destination, beacon.heading)
DateFit(load, beacon) ==
  \/ beacon.availableFrom = Null \/ load.loadReadyAt = Null
  \/ beacon.availableFrom <= load.loadReadyAt

reasons(load, beacon) ==
  (IF LaneOrigin(load, beacon) THEN {"lane_origin"}
   ELSE IF LaneHeading(load, beacon) THEN {"lane_heading"} ELSE {})
  \cup {r \in {"date_fit"} : DateFit(load, beacon)}
  \cup {r \in {"equipment_fit"} : equipmentFits(load, beacon.equipment)}

Weight == [lane_origin |-> 50, lane_heading |-> 30, date_fit |-> 20, equipment_fit |-> 30]
score(load, beacon) ==
  LET why == reasons(load, beacon)
      points(r) == IF r \in why THEN Weight[r] ELSE 0
  IN  points("lane_origin") + points("lane_heading") + points("date_fit")
        + points("equipment_fit")

\* The orders of the two rankings: the better score first, else as they were.
rankBeacons(ranked, load) ==
  \A i, j \in DOMAIN ranked : i < j => score(load, ranked[i]) >= score(load, ranked[j])
rankLoadsForBeacon(ranked, beacon) ==
  \A i, j \in DOMAIN ranked : i < j => score(ranked[i], beacon) >= score(ranked[j], beacon)

-----------------------------------------------------------------------------
(* Who may read a load, and whose it is.                                   *)

isLoadPoster(load, principal) ==
  \/ /\ load.customerId # Null /\ principal.customerId # Null
     /\ load.customerId = principal.customerId
  \/ /\ load.customerId = Null \/ principal.customerId = Null
     /\ load.orgId # Null /\ principal.orgId # Null
     /\ load.orgId = principal.orgId

isCarrierOf(offer, principal) ==
  IF principal.orgId # Null /\ offer.carrierOrgId # Null
  THEN principal.orgId = offer.carrierOrgId
  ELSE /\ principal.userId # Null /\ offer.carrierUserId # Null
       /\ principal.userId = offer.carrierUserId

canSupply(principal) == "trip:create" \in principal.permissions
canPostLoad(principal) == principal.permissions \cap {"order:create", "trip:create"} # {}

\* After the award the board shows the load to its poster alone.
canReadLoad(load, principal) ==
  isLoadPoster(load, principal) \/ (load.status # "AWARDED" /\ canSupply(principal))

\* Beacons are matched for those who may read the load.
MatchesShown(load, beacons, principal, now) ==
  {b \in beacons : canReadLoad(load, principal) /\ b.active /\ Alive(b, now)}

-----------------------------------------------------------------------------
(* The comparison of offers.                                               *)

\* The cards come cheapest first, an offer that names no price before all.
CardPrice(card) == IF card.priceEur = Null THEN 0 ELSE card.priceEur
offerCards(cards) ==
  \A i, j \in DOMAIN cards : i < j => CardPrice(cards[i]) <= CardPrice(cards[j])

\* Nothing is later and dearer than NULL.
Below(a, b) == a # Null /\ (b = Null \/ a < b)

\* The comparison: price, then delivery, then id.
RowBefore(a, b) ==
  \/ Below(a.priceEur, b.priceEur)
  \/ /\ a.priceEur = b.priceEur
     /\ \/ Below(a.deliveryEtaAt, b.deliveryEtaAt)
        \/ a.deliveryEtaAt = b.deliveryEtaAt /\ a.id < b.id

CompareRow(row, rows, budget) ==
  [id |-> row.id,
   cheapest |-> \A other \in rows : ~Below(other.priceEur, row.priceEur),
   fastest |-> \A other \in rows : ~Below(other.deliveryEtaAt, row.deliveryEtaAt),
   deltaVsBudget |-> IF budget = Null \/ row.priceEur = Null THEN Null
                     ELSE row.priceEur - budget]

-----------------------------------------------------------------------------
(* Auto-match.  No route awards by these rules yet: they are stored, shown *)
(* and checked, and a customer awards by hand.                             *)

autoMatchEntitlement(rules, ownerApproved) ==
  [allowed |-> ~rules.enabled \/ ownerApproved, active |-> rules.enabled /\ ownerApproved]

\* A rule that cannot be checked is not satisfied.
autoMatchAccepts(rules, offer) ==
  /\ rules.enabled
  /\ rules.maxPriceEur # Null => offer.priceEur # Null /\ offer.priceEur <= rules.maxPriceEur
  /\ rules.minRating # Null =>
       offer.carrierRating # Null /\ offer.carrierRating >= rules.minRating

Candidates(rules, offers) == {o \in offers : OfferOpen(o) /\ autoMatchAccepts(rules, o)}

\* The cheapest of them; ids stand for the order in which equals are listed.
autoMatchWinner(rules, offers) ==
  LET accepted == Candidates(rules, offers)
      Before(a, b) == Below(a.priceEur, b.priceEur)
                        \/ (a.priceEur = b.priceEur /\ a.id < b.id)
  IN  IF accepted = {} THEN Null
      ELSE CHOOSE o \in accepted : \A other \in accepted : o # other => Before(o, other)

-----------------------------------------------------------------------------
(* The notices of an award: what its answer says, and what each carrier    *)
(* reads back later from its own offers.                                   *)

Notice(audience, kind, load, offer, trip) ==
  [audience |-> audience, kind |-> kind, loadId |-> load.id, offerId |-> offer.id,
   tripId |-> trip]

awardOutcomeNotifications(load, offer, trip, declinedOffers) ==
  {Notice("shipper", "awarded", load, offer, trip),
   Notice("carrier", "awarded", load, offer, trip)}
  \cup {Notice("carrier", "declined", load, rival, Null) : rival \in declinedOffers}

carrierOutcomeNotifications(offers, load) ==
  {Notice("carrier", "awarded", load, o, load.tripId) :
     o \in {x \in offers : x.status = "ACCEPTED"}}
  \cup {Notice("carrier", "declined", load, o, Null) :
     o \in {x \in offers : x.status = "DECLINED"}}

-----------------------------------------------------------------------------
(* What the answers promise each other.                                    *)

\* The feed never shows a load the filter of marketplace.js refuses.
FeedIsNoWider(loads, filter, org, now) ==
  FeedLoads(loads, filter, org, now) \subseteq filterLoads(loads, filter)

\* A search comes back from where it was saved as the filter that was typed.
SearchIsKept(query) ==
  /\ Settled(Cut(query.origin, 100), 100) /\ Settled(Cut(query.destination, 100), 100)
  => parseMatchFilter(normalizeSearchFilter(query)) = parseMatchFilter(query)

\* The rows of a comparison have one order, whose first row is the cheapest.
ComparisonIsAnOrder(rows) ==
  /\ \A a, b \in rows : a # b => (RowBefore(a, b) <=> ~RowBefore(b, a))
  /\ \A a, b, c \in rows : RowBefore(a, b) /\ RowBefore(b, c) => RowBefore(a, c)
  /\ \A row \in rows : (\A other \in rows : row # other => RowBefore(row, other))
                         => CompareRow(row, rows, Null).cheapest

\* The rows as the award leaves them.
AwardedOffers(offers, winner) ==
  {IF o = winner THEN [o EXCEPT !.status = "ACCEPTED"]
   ELSE IF OfferOpen(o) THEN [o EXCEPT !.status = "DECLINED"] ELSE o : o \in offers}

\* What the award's answer tells the carriers, each reads again from the rows,
\* the winner with the trip it is to drive.
NoticesAreReadBack(load, offers, winner, trip) ==
  LET declined == {o \in offers \ {winner} : OfferOpen(o)}
      told == awardOutcomeNotifications(load, winner, trip, declined)
      after == [load EXCEPT !.tripId = trip]
  IN  {n \in told : n.audience = "carrier"}
        \subseteq carrierOutcomeNotifications(AwardedOffers(offers, winner), after)
=============================================================================
