---------------------------- MODULE Marketplace ----------------------------
(***************************************************************************)
(* The freight marketplace of the RoadwiseFleet API: a shipper posts a     *)
(* load, carriers bid, both sides counter, the shipper awards one offer    *)
(* and the award creates the carrier's trip.                               *)
(*                                                                         *)
(* Postgres runs at READ COMMITTED and no handler locks what it reads, so  *)
(* a handler that decides from a read and writes later is two actions: the *)
(* read puts what it saw into req[r], the commit is one transaction that   *)
(* writes without looking again.  Only the expiry sweep and the cancel's   *)
(* offer update test the status in the UPDATE itself.                      *)
(***************************************************************************)
EXTENDS Naturals, FiniteSets

CONSTANTS
  Principals,   \* customers and carrier orgs: each may post loads and bid
  Loads,        \* ids of LoadPosting rows
  Offers,       \* ids of MarketplaceOffer rows
  Trips,        \* ids of the Trip rows awards create
  Requests,     \* the requests the API serves at the same time
  None,         \* SQL NULL
  MaxTime,      \* bound on the clock
  Deadlines     \* the expiresAt values clients send

ASSUME ClockAssumption == MaxTime \in Nat /\ Deadlines \subseteq Nat
ASSUME NoneAssumption == None \notin Principals \cup Loads \cup Offers \cup Trips

VARIABLES
  now,     \* the wall clock
  load,    \* the LoadPosting table
  offer,   \* the MarketplaceOffer table
  trip,    \* the Trip rows created by awards
  req      \* what each request in flight has read so far

vars == <<now, load, offer, trip, req>>

LOAD_STATUSES == {"POSTED", "OFFERS", "AWARDED", "EXPIRED", "CANCELLED"}
OPEN_LOAD_STATUSES == {"POSTED", "OFFERS"}
\* No code writes VIEWED; it counts as open wherever a status is tested.
OFFER_STATUSES == {"SENT", "VIEWED", "COUNTERED", "ACCEPTED", "DECLINED",
                   "EXPIRED", "WITHDRAWN"}
OPEN_OFFER_STATUSES == {"SENT", "VIEWED"}
OFFER_SIDES == {"carrier", "shipper"}

\* A row that is not in its table yet has status "ABSENT".
LoadRow == [status: LOAD_STATUSES \cup {"ABSENT"}, poster: Principals \cup {None},
            expires: Nat, awarded: Offers \cup {None}, trip: Trips \cup {None}]
OfferRow == [status: OFFER_STATUSES \cup {"ABSENT"}, load: Loads \cup {None},
             carrier: Principals \cup {None}, side: OFFER_SIDES,
             parent: Offers \cup {None}, expires: Nat]
\* terms is the offer whose price and driver the trip was created with.
TripRow == [org: Principals \cup {None}, load: Loads \cup {None},
            terms: Offers \cup {None}]

Idle == [op |-> "idle"]
Request ==
  {Idle}
  \cup [op: {"offer"}, load: Loads, carrier: Principals, seen: OPEN_LOAD_STATUSES]
  \cup [op: {"award"}, load: Loads, seen: LOAD_STATUSES, expires: Nat]
  \cup [op: {"awarding"}, load: Loads, offer: Offers, declined: SUBSET Offers]
  \cup [op: {"cancel"}, load: Loads]
  \cup [op: {"counter", "decline", "withdraw"}, offer: Offers]
  \cup [op: {"sweep", "swept", "list"}, at: Nat, loads: SUBSET Loads]

TypeOK ==
  /\ now \in Nat
  /\ load \in [Loads -> LoadRow]
  /\ offer \in [Offers -> OfferRow]
  /\ trip \in [Trips -> TripRow]
  /\ req \in [Requests -> Request]

NoLoad == [status |-> "ABSENT", poster |-> None, expires |-> 0,
           awarded |-> None, trip |-> None]
NoOffer == [status |-> "ABSENT", load |-> None, carrier |-> None,
            side |-> "carrier", parent |-> None, expires |-> 0]
NoTrip == [org |-> None, load |-> None, terms |-> None]

Init ==
  /\ now = 0
  /\ load = [l \in Loads |-> NoLoad]
  /\ offer = [o \in Offers |-> NoOffer]
  /\ trip = [t \in Trips |-> NoTrip]
  /\ req = [r \in Requests |-> Idle]

-----------------------------------------------------------------------------
(* The pure rules of marketplace.js.                                       *)

isLoadOpen(l) == load[l].status \in OPEN_LOAD_STATUSES
isOfferOpen(o) == offer[o].status \in OPEN_OFFER_STATUSES
isExpired(deadline, at) == deadline <= at
OffersOf(l) == {o \in Offers : offer[o].load = l}
OpenOffersOf(l) == {o \in OffersOf(l) : isOfferOpen(o)}

canCounter(o, p) ==
  /\ isOfferOpen(o)
  /\ p = IF offer[o].side = "carrier" THEN load[offer[o].load].poster
                                      ELSE offer[o].carrier
canDecideOffer(o, p) == offer[o].status # "ABSENT" /\ p = load[offer[o].load].poster
canWithdrawOffer(o, p) ==
  /\ isOfferOpen(o)
  /\ offer[o].side = "carrier"
  /\ p = offer[o].carrier

\* awardPlan: may the load that an award read as q go to offer w?
AwardAllowed(q, w) ==
  /\ q.seen \in OPEN_LOAD_STATUSES
  /\ ~isExpired(q.expires, now)
  /\ offer[w].load = q.load
  /\ isOfferOpen(w)
  /\ ~isExpired(offer[w].expires, now)

\* awardPlan: every other open offer it saw is declined.
DeclinedIds(l, w) == OpenOffersOf(l) \ {w}

\* The trip goes to the org of the winning carrier, on the winning terms.
buildAwardTripData_Poster(l, w) ==
  [org |-> load[l].poster, load |-> l, terms |-> w]
buildAwardTripData(l, w) ==
  [org |-> offer[w].carrier, load |-> l, terms |-> w]

-----------------------------------------------------------------------------
(* Shipper requests.                                                       *)

\* POST /marketplace/loads, and the marketplace branch of POST /customer/orders.
PostLoad(l, p, deadline) ==
  /\ load[l].status = "ABSENT"
  /\ load' = [load EXCEPT ![l] = [NoLoad EXCEPT !.status = "POSTED",
                                     !.poster = p, !.expires = deadline]]
  /\ UNCHANGED <<now, offer, trip, req>>

\* POST .../loads/:id/award, by the poster, first reads the load row.
ReadLoadToAward(r, l) ==
  /\ req[r] = Idle
  /\ load[l].status # "ABSENT"
  /\ req' = [req EXCEPT ![r] = [op |-> "award", load |-> l,
                  seen |-> load[l].status, expires |-> load[l].expires]]
  /\ UNCHANGED <<now, load, offer, trip>>

\* Then it reads the offers, and awardPlan accepts the offer the body names.
PlanAward(r, w) ==
  /\ req[r].op = "award"
  /\ AwardAllowed(req[r], w)
  /\ req' = [req EXCEPT ![r] = [op |-> "awarding", load |-> req[r].load, offer |-> w,
                                declined |-> DeclinedIds(req[r].load, w)]]
  /\ UNCHANGED <<now, load, offer, trip>>

\* The load row an award leaves behind.
AwardedLoad_FirstWinner(row, w, t) ==
  [row EXCEPT !.status = "AWARDED", !.trip = t,
              !.awarded = IF row.awarded = None THEN w ELSE row.awarded]
AwardedLoad_StillOpen(row, w, t) ==
  [row EXCEPT !.awarded = w, !.trip = t]
AwardedLoad_OfferStatus(row, w, t) ==
  [row EXCEPT !.status = "ACCEPTED", !.awarded = w, !.trip = t]
AwardedLoad(row, w, t) ==
  [row EXCEPT !.status = "AWARDED", !.awarded = w, !.trip = t]

\* One transaction: create the trip, then close the load, the winner and the rivals.
CommitAward(r, t) ==
  /\ req[r].op = "awarding"
  /\ trip[t] = NoTrip
  /\ LET l == req[r].load
         w == req[r].offer
     IN  /\ trip' = [trip EXCEPT ![t] = buildAwardTripData(l, w)]
         /\ load' = [load EXCEPT ![l] = AwardedLoad(load[l], w, t)]
         /\ offer' = [o \in Offers |->
              IF o = w THEN [offer[o] EXCEPT !.status = "ACCEPTED"]
              ELSE IF o \in req[r].declined
                   THEN [offer[o] EXCEPT !.status = "DECLINED"]
                   ELSE offer[o]]
  /\ req' = [req EXCEPT ![r] = Idle]
  /\ UNCHANGED now

\* POST .../loads/:id/cancel, by the poster.
ReadLoadToCancel(r, l) ==
  /\ req[r] = Idle
  /\ isLoadOpen(l)
  /\ req' = [req EXCEPT ![r] = [op |-> "cancel", load |-> l]]
  /\ UNCHANGED <<now, load, offer, trip>>

CommitCancel_KeepOffers(r) ==
  /\ req[r].op = "cancel"
  /\ load' = [load EXCEPT ![req[r].load].status = "CANCELLED"]
  /\ req' = [req EXCEPT ![r] = Idle]
  /\ UNCHANGED <<now, offer, trip>>
CommitCancel(r) ==
  /\ req[r].op = "cancel"
  /\ load' = [load EXCEPT ![req[r].load].status = "CANCELLED"]
  /\ offer' = [o \in Offers |-> IF o \in OpenOffersOf(req[r].load)
                                THEN [offer[o] EXCEPT !.status = "DECLINED"]
                                ELSE offer[o]]
  /\ req' = [req EXCEPT ![r] = Idle]
  /\ UNCHANGED <<now, trip>>

-----------------------------------------------------------------------------
(* Carrier and negotiation requests.                                       *)

\* What POST .../loads/:id/offers checks on the load row it reads.
CanOffer(l, c) ==
  /\ c # load[l].poster
  /\ isLoadOpen(l)
  /\ ~isExpired(load[l].expires, now)

ReadLoadToOffer(r, l, c) ==
  /\ req[r] = Idle
  /\ CanOffer(l, c)
  /\ req' = [req EXCEPT ![r] = [op |-> "offer", load |-> l, carrier |-> c,
                                seen |-> load[l].status]]
  /\ UNCHANGED <<now, load, offer, trip>>

\* The load moves to OFFERS because it WAS posted when it was read.
CommitOffer(r, o, deadline) ==
  /\ req[r].op = "offer"
  /\ offer[o].status = "ABSENT"
  /\ offer' = [offer EXCEPT ![o] =
       [status |-> "SENT", load |-> req[r].load, carrier |-> req[r].carrier,
        side |-> "carrier", parent |-> None, expires |-> deadline]]
  /\ load' = IF req[r].seen = "POSTED"
             THEN [load EXCEPT ![req[r].load].status = "OFFERS"]
             ELSE load
  /\ req' = [req EXCEPT ![r] = Idle]
  /\ UNCHANGED <<now, trip>>

\* POST /marketplace/offers/:id/{counter,decline,withdraw} and the customer's
\* counter and decline: the offer row is read and checked, the load's status is not.
ReadOfferToDecide(r, o, p) ==
  /\ req[r] = Idle
  /\ \E op \in {"counter", "decline", "withdraw"} :
       /\ CASE op = "counter"  -> canCounter(o, p)
            [] op = "decline"  -> canDecideOffer(o, p) /\ isOfferOpen(o)
            [] op = "withdraw" -> canWithdrawOffer(o, p)
       /\ req' = [req EXCEPT ![r] = [op |-> op, offer |-> o]]
  /\ UNCHANGED <<now, load, offer, trip>>

\* The counter row: the same carrier, the other side, pointing at its parent.
CounterRow_SameSide(p, deadline) ==
  [offer[p] EXCEPT !.status = "SENT", !.parent = p, !.expires = deadline]
CounterRow(p, deadline) ==
  [offer[p] EXCEPT !.status = "SENT", !.parent = p, !.expires = deadline,
                   !.side = IF @ = "carrier" THEN "shipper" ELSE "carrier"]

CommitCounter(r, o, deadline) ==
  /\ req[r].op = "counter"
  /\ offer[o].status = "ABSENT"
  /\ LET p == req[r].offer
     IN  offer' = [offer EXCEPT ![o] = CounterRow(p, deadline),
                                ![p].status = "COUNTERED"]
  /\ req' = [req EXCEPT ![r] = Idle]
  /\ UNCHANGED <<now, load, trip>>

\* Decline and withdraw are one unconditional UPDATE of the offer.
CommitDecision_RestoresParent(r) ==
  /\ req[r].op \in {"decline", "withdraw"}
  /\ LET o == req[r].offer
         closed == IF req[r].op = "decline" THEN "DECLINED" ELSE "WITHDRAWN"
     IN  offer' = [x \in Offers |->
           IF x = o THEN [offer[x] EXCEPT !.status = closed]
           ELSE IF x = offer[o].parent THEN [offer[x] EXCEPT !.status = "SENT"]
           ELSE offer[x]]
  /\ req' = [req EXCEPT ![r] = Idle]
  /\ UNCHANGED <<now, load, trip>>
CommitDecision(r) ==
  /\ req[r].op \in {"decline", "withdraw"}
  /\ offer' = [offer EXCEPT ![req[r].offer].status =
                 IF req[r].op = "decline" THEN "DECLINED" ELSE "WITHDRAWN"]
  /\ req' = [req EXCEPT ![r] = Idle]
  /\ UNCHANGED <<now, load, trip>>

-----------------------------------------------------------------------------
(* sweepExpired, run by every page that lists loads or offers: it takes the *)
(* time once, then one conditional UPDATE on the loads, one on the offers.  *)
(* The page then reads the rows it lists (op "list") and answers.           *)

BeginSweep(r, ls) ==
  /\ req[r] = Idle
  /\ req' = [req EXCEPT ![r] = [op |-> "sweep", at |-> now, loads |-> ls]]
  /\ UNCHANGED <<now, load, offer, trip>>

\* The WHERE clause of both updates.
Sweepable_NoClock(status, open, deadline, at) == status \in open
Sweepable(status, open, deadline, at) == status \in open /\ isExpired(deadline, at)

SweepLoads(r) ==
  /\ req[r].op = "sweep"
  /\ load' = [l \in Loads |->
       IF /\ l \in req[r].loads
          /\ Sweepable(load[l].status, OPEN_LOAD_STATUSES, load[l].expires, req[r].at)
       THEN [load[l] EXCEPT !.status = "EXPIRED"] ELSE load[l]]
  /\ req' = [req EXCEPT ![r].op = "swept"]
  /\ UNCHANGED <<now, offer, trip>>

SweepOffers(r) ==
  /\ req[r].op = "swept"
  /\ offer' = [o \in Offers |->
       IF /\ offer[o].load \in req[r].loads
          /\ Sweepable(offer[o].status, OPEN_OFFER_STATUSES, offer[o].expires, req[r].at)
       THEN [offer[o] EXCEPT !.status = "EXPIRED"] ELSE offer[o]]
  /\ req' = [req EXCEPT ![r].op = "list"]
  /\ UNCHANGED <<now, load, trip>>

-----------------------------------------------------------------------------
\* The request was answered or refused, or its process died before the commit.
EndRequest(r) ==
  /\ req[r] # Idle
  /\ req' = [req EXCEPT ![r] = Idle]
  /\ UNCHANGED <<now, load, offer, trip>>

Tick ==
  /\ now < MaxTime
  /\ now' = now + 1
  /\ UNCHANGED <<load, offer, trip, req>>

Next ==
  \/ Tick
  \/ \E l \in Loads, p \in Principals, d \in Deadlines : PostLoad(l, p, d)
  \/ \E r \in Requests :
       \/ \E l \in Loads : ReadLoadToAward(r, l)
       \/ \E w \in Offers : PlanAward(r, w)
       \/ \E t \in Trips : CommitAward(r, t)
       \/ \E l \in Loads : ReadLoadToCancel(r, l)
       \/ CommitCancel(r)
       \/ \E l \in Loads, c \in Principals : ReadLoadToOffer(r, l, c)
       \/ \E o \in Offers, d \in Deadlines : CommitOffer(r, o, d)
       \/ \E o \in Offers, p \in Principals : ReadOfferToDecide(r, o, p)
       \/ \E o \in Offers, d \in Deadlines : CommitCounter(r, o, d)
       \/ CommitDecision(r)
       \/ \E ls \in SUBSET Loads : BeginSweep(r, ls)
       \/ SweepLoads(r)
       \/ SweepOffers(r)
       \/ EndRequest(r)

Spec == Init /\ [][Next]_vars
-----------------------------------------------------------------------------
(* What holds however the requests interleave.                             *)

\* A carrier that is told it won (ACCEPTED) always has a trip of its own, for
\* that load and on the terms it offered, whatever raced with the award.
AcceptedOfferHasItsTrip ==
  \A o \in Offers : offer[o].status = "ACCEPTED" =>
    \E t \in Trips : trip[t] = [org |-> offer[o].carrier, load |-> offer[o].load,
                                terms |-> o]

\* The winner and the trip a load row points at belong to the same award, even
\* after several awards of the load wrote over each other.
AwardRowIsOneAward ==
  \A l \in Loads :
    /\ load[l].trip = None <=> load[l].awarded = None
    /\ load[l].trip # None =>
         trip[load[l].trip] = [org |-> offer[load[l].awarded].carrier, load |-> l,
                               terms |-> load[l].awarded]

\* Each round of a negotiation closes the round before it, for good, changes
\* sides, and keeps the carrier and the load: nobody can take up an answered card.
NegotiationChain ==
  \A o \in Offers : offer[o].parent # None =>
    LET p == offer[o].parent
    IN  /\ offer[p].status \in OFFER_STATUSES \ OPEN_OFFER_STATUSES
        /\ offer[p].side # offer[o].side
        /\ offer[p].carrier = offer[o].carrier
        /\ offer[p].load = offer[o].load

\* An offer that was decided, answered, withdrawn or expired never opens again.
ClosedOffersStayClosed ==
  [][\A o \in Offers :
       offer[o].status \in OFFER_STATUSES \ OPEN_OFFER_STATUSES
         => offer'[o].status \in OFFER_STATUSES \ OPEN_OFFER_STATUSES]_vars

\* Nothing is EXPIRED before its deadline, although the sweep and the
\* decisions it races with write the same column.
ExpiredOnlyAfterDeadline ==
  /\ \A l \in Loads : load[l].status = "EXPIRED" => load[l].expires <= now
  /\ \A o \in Offers : offer[o].status = "EXPIRED" => offer[o].expires <= now

-----------------------------------------------------------------------------
(* What the rules promise, and what overlapping requests break.            *)

\* "A posted load collects offers, is awarded (once)": one trip per load.
AwardedOnce ==
  \A t1, t2 \in Trips :
    trip[t1].load = trip[t2].load /\ trip[t1] # NoTrip => t1 = t2

=============================================================================
