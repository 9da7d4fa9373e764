-------------------------- MODULE MarketplaceProofs --------------------------
(***************************************************************************)
(* Proofs about the marketplace for any number of principals, loads,       *)
(* offers, trips and requests: first what holds however requests overlap,  *)
(* then what needs them to be served one at a time, last what the answers  *)
(* of Matching promise each other.                                         *)
(***************************************************************************)
EXTENDS MarketplaceSerial, Matching, TLAPS

\* Every step of the marketplace, one disjunct per action: what the proofs split on.
LEMMA StepCases ==
  ASSUME Next
  PROVE  \/ Tick
         \/ \E l \in Loads, p \in Principals, d \in Deadlines : PostLoad(l, p, d)
         \/ \E r \in Requests, l \in Loads : ReadLoadToAward(r, l)
         \/ \E r \in Requests, w \in Offers : PlanAward(r, w)
         \/ \E r \in Requests, t \in Trips : CommitAward(r, t)
         \/ \E r \in Requests, l \in Loads : ReadLoadToCancel(r, l)
         \/ \E r \in Requests : CommitCancel(r)
         \/ \E r \in Requests, l \in Loads, c \in Principals : ReadLoadToOffer(r, l, c)
         \/ \E r \in Requests, o \in Offers, d \in Deadlines : CommitOffer(r, o, d)
         \/ \E r \in Requests, o \in Offers, p \in Principals : ReadOfferToDecide(r, o, p)
         \/ \E r \in Requests, o \in Offers, d \in Deadlines : CommitCounter(r, o, d)
         \/ \E r \in Requests : CommitDecision(r)
         \/ \E r \in Requests, ls \in SUBSET Loads : BeginSweep(r, ls)
         \/ \E r \in Requests : SweepLoads(r)
         \/ \E r \in Requests : SweepOffers(r)
         \/ \E r \in Requests : EndRequest(r)
BY Zenon DEF Next

-----------------------------------------------------------------------------
(* Type correctness.                                                       *)

LEMMA InitTypeOK == Init => TypeOK
BY ClockAssumption DEF Init, TypeOK, LoadRow, OfferRow, TripRow, Request, Idle,
   NoLoad, NoOffer, NoTrip, OFFER_SIDES

LEMMA CounterRowType ==
  ASSUME TypeOK, NEW p \in Offers, NEW d \in Nat
  PROVE  CounterRow(p, d) \in OfferRow
<1> DEFINE flipped == IF offer[p].side = "carrier" THEN "shipper" ELSE "carrier"
<1>1. offer[p] \in OfferRow
  BY DEF TypeOK
<1>2. flipped \in OFFER_SIDES
  BY DEF OFFER_SIDES
<1>3. CounterRow(p, d) = [offer[p] EXCEPT !.status = "SENT", !.parent = p,
                                         !.expires = d, !.side = flipped]
  BY DEF CounterRow
<1> HIDE DEF flipped
<1> QED BY <1>1, <1>2, <1>3 DEF OfferRow, OFFER_STATUSES

\* A row of a table may be replaced by a row of its type.
LEMMA StepTypeOK ==
  ASSUME TypeOK, Next
  PROVE  TypeOK'
<1> USE DEF TypeOK
<1>1. CASE Tick
  BY <1>1, ClockAssumption DEF Tick
<1>2. ASSUME NEW l \in Loads, NEW p \in Principals, NEW d \in Deadlines, PostLoad(l, p, d)
      PROVE  TypeOK'
  BY <1>2, ClockAssumption DEF PostLoad, LoadRow, LOAD_STATUSES, NoLoad
<1>3. ASSUME NEW r \in Requests, NEW l \in Loads, ReadLoadToAward(r, l)
      PROVE  TypeOK'
  <2>1. [op |-> "award", load |-> l, seen |-> load[l].status,
         expires |-> load[l].expires] \in Request
    BY <1>3 DEF ReadLoadToAward, Request, LoadRow
  <2> QED BY <1>3, <2>1 DEF ReadLoadToAward
<1>4. ASSUME NEW r \in Requests, NEW w \in Offers, PlanAward(r, w)
      PROVE  TypeOK'
  <2>1. req[r].load \in Loads
    BY <1>4 DEF PlanAward, Request, Idle
  <2>2. DeclinedIds(req[r].load, w) \in SUBSET Offers
    BY DEF DeclinedIds, OpenOffersOf, OffersOf
  <2>3. [op |-> "awarding", load |-> req[r].load, offer |-> w,
         declined |-> DeclinedIds(req[r].load, w)] \in Request
    BY <2>1, <2>2 DEF Request
  <2> QED BY <1>4, <2>3 DEF PlanAward
<1>5. ASSUME NEW r \in Requests, NEW t \in Trips, CommitAward(r, t)
      PROVE  TypeOK'
  <2>1. req[r].load \in Loads /\ req[r].offer \in Offers
    BY <1>5 DEF CommitAward, Request, Idle
  <2>2. buildAwardTripData(req[r].load, req[r].offer) \in TripRow
    BY <2>1 DEF buildAwardTripData, TripRow, OfferRow
  <2>3. AwardedLoad(load[req[r].load], req[r].offer, t) \in LoadRow
    BY <2>1 DEF AwardedLoad, LoadRow, LOAD_STATUSES
  <2>4. Idle \in Request
    BY DEF Request
  <2>5. offer' \in [Offers -> OfferRow]
    BY <1>5 DEF CommitAward, OfferRow, OFFER_STATUSES
  <2> QED BY <1>5, <2>1, <2>2, <2>3, <2>4, <2>5 DEF CommitAward
<1>6. ASSUME NEW r \in Requests, NEW l \in Loads, ReadLoadToCancel(r, l)
      PROVE  TypeOK'
  BY <1>6 DEF ReadLoadToCancel, Request
<1>7. ASSUME NEW r \in Requests, CommitCancel(r)
      PROVE  TypeOK'
  <2>1. req[r].load \in Loads
    BY <1>7 DEF CommitCancel, Request, Idle
  <2>2. load' \in [Loads -> LoadRow]
    BY <1>7, <2>1 DEF CommitCancel, LoadRow, LOAD_STATUSES
  <2>3. offer' \in [Offers -> OfferRow]
    BY <1>7 DEF CommitCancel, OfferRow, OFFER_STATUSES
  <2> QED BY <1>7, <2>2, <2>3 DEF CommitCancel, Request
<1>8. ASSUME NEW r \in Requests, NEW l \in Loads, NEW c \in Principals,
             ReadLoadToOffer(r, l, c)
      PROVE  TypeOK'
  <2>1. [op |-> "offer", load |-> l, carrier |-> c, seen |-> load[l].status] \in Request
    BY <1>8 DEF ReadLoadToOffer, CanOffer, isLoadOpen, Request
  <2> QED BY <1>8, <2>1 DEF ReadLoadToOffer
<1>9. ASSUME NEW r \in Requests, NEW o \in Offers, NEW d \in Deadlines, CommitOffer(r, o, d)
      PROVE  TypeOK'
  <2>1. req[r].load \in Loads /\ req[r].carrier \in Principals
    BY <1>9 DEF CommitOffer, Request, Idle
  <2>2. offer' \in [Offers -> OfferRow]
    BY <1>9, <2>1, ClockAssumption DEF CommitOffer, OfferRow, OFFER_STATUSES, OFFER_SIDES
  <2>3. load' \in [Loads -> LoadRow]
    BY <1>9, <2>1 DEF CommitOffer, LoadRow, LOAD_STATUSES
  <2> QED BY <1>9, <2>2, <2>3 DEF CommitOffer, Request
<1>10. ASSUME NEW r \in Requests, NEW o \in Offers, NEW p \in Principals,
              ReadOfferToDecide(r, o, p)
       PROVE  TypeOK'
  <2>1. PICK op \in {"counter", "decline", "withdraw"} :
          req' = [req EXCEPT ![r] = [op |-> op, offer |-> o]]
    BY <1>10 DEF ReadOfferToDecide
  <2>2. [op |-> op, offer |-> o] \in Request
    BY <2>1 DEF Request
  <2> QED BY <1>10, <2>1, <2>2 DEF ReadOfferToDecide
<1>11. ASSUME NEW r \in Requests, NEW o \in Offers, NEW d \in Deadlines,
              CommitCounter(r, o, d)
       PROVE  TypeOK'
  <2>1. req[r].offer \in Offers
    BY <1>11 DEF CommitCounter, Request, Idle
  <2>2. CounterRow(req[r].offer, d) \in OfferRow
    BY <2>1, CounterRowType, ClockAssumption
  <2>3. offer' \in [Offers -> OfferRow]
    BY <1>11, <2>1, <2>2 DEF CommitCounter, OfferRow, OFFER_STATUSES
  <2> QED BY <1>11, <2>3 DEF CommitCounter, Request
<1>12. ASSUME NEW r \in Requests, CommitDecision(r)
       PROVE  TypeOK'
  <2>1. req[r].offer \in Offers
    BY <1>12 DEF CommitDecision, Request, Idle
  <2>2. offer' \in [Offers -> OfferRow]
    BY <1>12, <2>1 DEF CommitDecision, OfferRow, OFFER_STATUSES
  <2> QED BY <1>12, <2>2 DEF CommitDecision, Request
<1>13. ASSUME NEW r \in Requests, NEW ls \in SUBSET Loads, BeginSweep(r, ls)
       PROVE  TypeOK'
  BY <1>13 DEF BeginSweep, Request
<1>14. ASSUME NEW r \in Requests, SweepLoads(r)
       PROVE  TypeOK'
  <2>1. [req[r] EXCEPT !.op = "swept"] \in Request
    BY <1>14 DEF SweepLoads, Request, Idle
  <2>2. load' \in [Loads -> LoadRow]
    BY <1>14 DEF SweepLoads, LoadRow, LOAD_STATUSES
  <2> QED BY <1>14, <2>1, <2>2 DEF SweepLoads
<1>15. ASSUME NEW r \in Requests, SweepOffers(r)
       PROVE  TypeOK'
  <2>1. [req[r] EXCEPT !.op = "list"] \in Request
    BY <1>15 DEF SweepOffers, Request, Idle
  <2>2. offer' \in [Offers -> OfferRow]
    BY <1>15 DEF SweepOffers, OfferRow, OFFER_STATUSES
  <2> QED BY <1>15, <2>1, <2>2 DEF SweepOffers
<1>16. ASSUME NEW r \in Requests, EndRequest(r)
       PROVE  TypeOK'
  BY <1>16 DEF EndRequest, Request
<1> QED
  BY <1>1, <1>2, <1>3, <1>4, <1>5, <1>6, <1>7, <1>8, <1>9, <1>10, <1>11, <1>12,
     <1>13, <1>14, <1>15, <1>16, StepCases

\* Every column of every table and every request in flight keeps its type.
THEOREM TypeCorrect == Spec => []TypeOK
<1>1. TypeOK /\ UNCHANGED vars => TypeOK'
  BY DEF TypeOK, vars
<1> QED BY <1>1, InitTypeOK, StepTypeOK, PTL DEF Spec

-----------------------------------------------------------------------------
(* Rows are never lost or rewritten: once an offer exists, its load, its   *)
(* carrier, its side, its parent and its deadline are fixed, and so is a   *)
(* trip.  Every invariant below rests on these two lemmas.                 *)

SameOffer(o) ==
  /\ offer'[o].status # "ABSENT"
  /\ offer'[o].load = offer[o].load
  /\ offer'[o].carrier = offer[o].carrier
  /\ offer'[o].side = offer[o].side
  /\ offer'[o].parent = offer[o].parent
  /\ offer'[o].expires = offer[o].expires

LEMMA OffersKept ==
  ASSUME TypeOK, Next, NEW o \in Offers, offer[o].status # "ABSENT"
  PROVE  SameOffer(o)
<1> USE DEF TypeOK, SameOffer
<1>1. CASE UNCHANGED offer
  BY <1>1
<1>2. ASSUME NEW r \in Requests, NEW t \in Trips, CommitAward(r, t)
      PROVE  SameOffer(o)
  BY <1>2 DEF CommitAward, OfferRow
<1>3. ASSUME NEW r \in Requests, CommitCancel(r)
      PROVE  SameOffer(o)
  BY <1>3 DEF CommitCancel, OfferRow
<1>4. ASSUME NEW r \in Requests, NEW x \in Offers, NEW d \in Deadlines, CommitOffer(r, x, d)
      PROVE  SameOffer(o)
  BY <1>4 DEF CommitOffer
<1>5. ASSUME NEW r \in Requests, NEW x \in Offers, NEW d \in Deadlines,
             CommitCounter(r, x, d)
      PROVE  SameOffer(o)
  BY <1>5 DEF CommitCounter, OfferRow
<1>6. ASSUME NEW r \in Requests, CommitDecision(r)
      PROVE  SameOffer(o)
  BY <1>6 DEF CommitDecision, OfferRow
<1>7. ASSUME NEW r \in Requests, SweepOffers(r)
      PROVE  SameOffer(o)
  BY <1>7 DEF SweepOffers, OfferRow
<1> QED
  BY <1>1, <1>2, <1>3, <1>4, <1>5, <1>6, <1>7, StepCases
     DEF Tick, PostLoad, ReadLoadToAward, PlanAward, ReadLoadToCancel,
         ReadLoadToOffer, ReadOfferToDecide, BeginSweep, SweepLoads, EndRequest

LEMMA TripsKept ==
  ASSUME TypeOK, Next, NEW t \in Trips, trip[t] # NoTrip
  PROVE  trip'[t] = trip[t]
<1>1. ASSUME NEW r \in Requests, NEW x \in Trips, CommitAward(r, x)
      PROVE  trip'[t] = trip[t]
  BY <1>1 DEF CommitAward, TypeOK
<1> QED
  BY <1>1, StepCases
     DEF Tick, PostLoad, ReadLoadToAward, PlanAward, ReadLoadToCancel, CommitCancel,
         ReadLoadToOffer, CommitOffer, ReadOfferToDecide, CommitCounter,
         CommitDecision, BeginSweep, SweepLoads, SweepOffers, EndRequest

-----------------------------------------------------------------------------
(* What a request in flight may rely on although nothing is locked: the    *)
(* rows it read still exist, and the offer it is about to award belongs to *)
(* the load it is about to close.                                          *)

RequestsAreSound ==
  \A r \in Requests :
    /\ req[r].op = "awarding" =>
         /\ offer[req[r].offer].status # "ABSENT"
         /\ offer[req[r].offer].load = req[r].load
    /\ req[r].op \in {"counter", "decline", "withdraw"} =>
         offer[req[r].offer].status # "ABSENT"

LEMMA RequestsStaySound ==
  ASSUME TypeOK, RequestsAreSound, Next
  PROVE  RequestsAreSound'
<1> SUFFICES ASSUME NEW q \in Requests
             PROVE  /\ req'[q].op = "awarding" =>
                         /\ offer'[req'[q].offer].status # "ABSENT"
                         /\ offer'[req'[q].offer].load = req'[q].load
                    /\ req'[q].op \in {"counter", "decline", "withdraw"} =>
                         offer'[req'[q].offer].status # "ABSENT"
  BY DEF RequestsAreSound
<1>1. /\ req[q].op = "awarding" =>
           /\ req[q].offer \in Offers
           /\ offer[req[q].offer].status # "ABSENT"
           /\ offer[req[q].offer].load = req[q].load
      /\ req[q].op \in {"counter", "decline", "withdraw"} =>
           /\ req[q].offer \in Offers
           /\ offer[req[q].offer].status # "ABSENT"
  BY DEF RequestsAreSound, TypeOK, Request, Idle
<1>2. CASE req'[q] = req[q]
  BY <1>1, <1>2, OffersKept DEF SameOffer
<1>3. CASE req'[q].op \notin {"awarding", "counter", "decline", "withdraw"}
  BY <1>3
<1>4. ASSUME NEW r \in Requests, NEW w \in Offers, PlanAward(r, w)
      PROVE  \/ req'[q] = req[q]
             \/ /\ req'[q].op = "awarding"
                /\ req'[q].offer = w
                /\ req'[q].load = req[r].load
                /\ offer'[w].status # "ABSENT"
                /\ offer'[w].load = req[r].load
  BY <1>4 DEF PlanAward, AwardAllowed, isOfferOpen, OPEN_OFFER_STATUSES, TypeOK
<1>5. ASSUME NEW r \in Requests, NEW o \in Offers, NEW p \in Principals,
             ReadOfferToDecide(r, o, p)
      PROVE  \/ req'[q] = req[q]
             \/ /\ req'[q].op \in {"counter", "decline", "withdraw"}
                /\ req'[q].offer = o
                /\ offer'[o].status # "ABSENT"
  <2>1. PICK op \in {"counter", "decline", "withdraw"} :
          /\ CASE op = "counter"  -> canCounter(o, p)
               [] op = "decline"  -> canDecideOffer(o, p) /\ isOfferOpen(o)
               [] op = "withdraw" -> canWithdrawOffer(o, p)
          /\ req' = [req EXCEPT ![r] = [op |-> op, offer |-> o]]
    BY <1>5 DEF ReadOfferToDecide
  <2>2. isOfferOpen(o)
    BY <2>1 DEF canCounter, canWithdrawOffer
  <2>3. UNCHANGED offer
    BY <1>5 DEF ReadOfferToDecide
  <2> QED
    BY <2>1, <2>2, <2>3 DEF isOfferOpen, OPEN_OFFER_STATUSES, TypeOK
<1>6. ASSUME NEW r \in Requests, SweepLoads(r) \/ SweepOffers(r)
      PROVE  \/ req'[q] = req[q]
             \/ req'[q].op \notin {"awarding", "counter", "decline", "withdraw"}
  <2>1. req[r] \in [op: {"sweep", "swept", "list"}, at: Nat, loads: SUBSET Loads]
    BY <1>6 DEF SweepLoads, SweepOffers, TypeOK, Request, Idle
  <2> QED BY <1>6, <2>1 DEF SweepLoads, SweepOffers, TypeOK
<1>7. ASSUME NEW r \in Requests, req' = [req EXCEPT ![r] = Idle]
      PROVE  req'[q] = req[q] \/ req'[q].op = "idle"
  BY <1>7 DEF Idle, TypeOK
<1>8. CASE \E r \in Requests, l \in Loads, c \in Principals : ReadLoadToOffer(r, l, c)
  BY <1>8, <1>2, <1>3 DEF ReadLoadToOffer, TypeOK
<1>9. CASE \E r \in Requests : req' = [req EXCEPT ![r] = Idle]
  BY <1>9, <1>7, <1>2, <1>3
<1>10. CASE \E r \in Requests, w \in Offers : PlanAward(r, w)
  <2>1. PICK r \in Requests, w \in Offers : PlanAward(r, w)
    BY <1>10
  <2>2. CASE req'[q] # req[q]
    <3>1. /\ req'[q].op = "awarding"
          /\ req'[q].offer = w
          /\ req'[q].load = req[r].load
          /\ offer'[w].status # "ABSENT"
          /\ offer'[w].load = req[r].load
      BY <1>4, <2>1, <2>2
    <3> QED BY <3>1
  <2> QED BY <1>2, <2>2
<1>11. CASE \E r \in Requests, o \in Offers, p \in Principals : ReadOfferToDecide(r, o, p)
  <2>1. PICK r \in Requests, o \in Offers, p \in Principals : ReadOfferToDecide(r, o, p)
    BY <1>11
  <2>2. CASE req'[q] # req[q]
    <3>1. /\ req'[q].op \in {"counter", "decline", "withdraw"}
          /\ req'[q].offer = o
          /\ offer'[o].status # "ABSENT"
      BY <1>5, <2>1, <2>2
    <3> QED BY <3>1
  <2> QED BY <1>2, <2>2
<1>12. CASE UNCHANGED req
  BY <1>12, <1>2
<1>13. CASE \E r \in Requests : SweepLoads(r) \/ SweepOffers(r)
  BY <1>13, <1>6, <1>2, <1>3
<1>14. CASE \E r \in Requests, ls \in SUBSET Loads : BeginSweep(r, ls)
  BY <1>14, <1>2, <1>3 DEF BeginSweep, TypeOK
<1>15. CASE \E r \in Requests, l \in Loads : ReadLoadToAward(r, l) \/ ReadLoadToCancel(r, l)
  BY <1>15, <1>2, <1>3 DEF ReadLoadToAward, ReadLoadToCancel, TypeOK
<1>16. \/ UNCHANGED req
       \/ \E r \in Requests : req' = [req EXCEPT ![r] = Idle]
       \/ \E r \in Requests : SweepLoads(r) \/ SweepOffers(r)
       \/ \E r \in Requests, l \in Loads : ReadLoadToAward(r, l) \/ ReadLoadToCancel(r, l)
       \/ \E r \in Requests, l \in Loads, c \in Principals : ReadLoadToOffer(r, l, c)
       \/ \E r \in Requests, ls \in SUBSET Loads : BeginSweep(r, ls)
       \/ \E r \in Requests, w \in Offers : PlanAward(r, w)
       \/ \E r \in Requests, o \in Offers, p \in Principals : ReadOfferToDecide(r, o, p)
  BY StepCases, Zenon
     DEF Tick, PostLoad, CommitAward, CommitCancel, CommitOffer, CommitCounter,
         CommitDecision, EndRequest
<1> QED
  BY <1>8, <1>9, <1>10, <1>11, <1>12, <1>13, <1>14, <1>15, <1>16

-----------------------------------------------------------------------------
(* The winner's trip.                                                      *)

AwardInv == RequestsAreSound /\ AcceptedOfferHasItsTrip

\* A counter writes two statuses: the round it answers and its own.
LEMMA CounteredStatus ==
  ASSUME TypeOK, NEW r \in Requests, NEW x \in Offers, NEW d \in Deadlines,
         CommitCounter(r, x, d), NEW o \in Offers
  PROVE  offer'[o].status \in {offer[o].status, "SENT", "COUNTERED"}
<1>1. req[r].offer \in Offers
  BY DEF CommitCounter, TypeOK, Request, Idle
<1>2. CounterRow(req[r].offer, d) \in OfferRow
  BY <1>1, CounterRowType, ClockAssumption
<1>3. CounterRow(req[r].offer, d).status = "SENT"
  <2>1. offer[req[r].offer] \in OfferRow
    BY <1>1 DEF TypeOK
  <2> QED BY <2>1 DEF CounterRow, OfferRow
<1>4. offer' = [offer EXCEPT ![x] = CounterRow(req[r].offer, d),
                             ![req[r].offer].status = "COUNTERED"]
  BY DEF CommitCounter
<1> QED BY <1>1, <1>2, <1>3, <1>4 DEF TypeOK, OfferRow

LEMMA StepAcceptedOffer ==
  ASSUME TypeOK, AwardInv, Next
  PROVE  AcceptedOfferHasItsTrip'
<1> SUFFICES ASSUME NEW o \in Offers, offer'[o].status = "ACCEPTED"
             PROVE  \E t \in Trips : trip'[t] = [org |-> offer'[o].carrier,
                                       load |-> offer'[o].load, terms |-> o]
  BY DEF AcceptedOfferHasItsTrip
<1>1. CASE offer[o].status = "ACCEPTED"
  \* It was accepted before: its row and its trip are still there.
  <2>1. PICK t \in Trips : trip[t] = [org |-> offer[o].carrier,
                                      load |-> offer[o].load, terms |-> o]
    BY <1>1 DEF AwardInv, AcceptedOfferHasItsTrip
  <2>2. trip[t] # NoTrip
    BY <2>1, NoneAssumption DEF NoTrip
  <2> QED BY <1>1, <2>1, <2>2, OffersKept, TripsKept DEF SameOffer
<1>2. CASE offer[o].status # "ACCEPTED"
  \* Only an award accepts an offer, and it creates the trip with it.
  <2>1. PICK r \in Requests, t \in Trips : CommitAward(r, t) /\ o = req[r].offer
    <3>1. ASSUME NEW r \in Requests, NEW t \in Trips, CommitAward(r, t), o # req[r].offer
          PROVE  FALSE
      BY <1>2, <3>1 DEF CommitAward, TypeOK, OfferRow
    <3>2. ASSUME NEW r \in Requests, CommitCancel(r)
          PROVE  FALSE
      BY <1>2, <3>2 DEF CommitCancel, TypeOK, OfferRow
    <3>3. ASSUME NEW r \in Requests, CommitDecision(r)
          PROVE  FALSE
      BY <1>2, <3>3 DEF CommitDecision, TypeOK, OfferRow
    <3>4. ASSUME NEW r \in Requests, SweepOffers(r)
          PROVE  FALSE
      BY <1>2, <3>4 DEF SweepOffers, TypeOK, OfferRow
    <3>5. ASSUME NEW r \in Requests, NEW x \in Offers, NEW d \in Deadlines,
                 CommitOffer(r, x, d)
          PROVE  FALSE
      BY <1>2, <3>5 DEF CommitOffer, TypeOK
    <3>6. ASSUME NEW r \in Requests, NEW x \in Offers, NEW d \in Deadlines,
                 CommitCounter(r, x, d)
          PROVE  FALSE
      BY <1>2, <3>6, CounteredStatus DEF CommitCounter
    <3>7. offer' # offer
      BY <1>2
    <3> QED
      BY <3>1, <3>2, <3>3, <3>4, <3>5, <3>6, <3>7, StepCases
         DEF Tick, PostLoad, ReadLoadToAward, PlanAward, ReadLoadToCancel,
             ReadLoadToOffer, ReadOfferToDecide, BeginSweep, SweepLoads, EndRequest
  <2>2. offer[o].status # "ABSENT" /\ offer[o].load = req[r].load
    BY <2>1 DEF AwardInv, RequestsAreSound, CommitAward
  <2>3. trip'[t] = [org |-> offer[o].carrier, load |-> req[r].load, terms |-> o]
    BY <2>1 DEF CommitAward, buildAwardTripData, TypeOK
  <2> QED BY <2>2, <2>3, OffersKept DEF SameOffer
<1> QED BY <1>1, <1>2

\* A carrier that is told it won has a trip of its own, for that load and on the
\* terms it offered, however the requests interleave.
THEOREM AcceptedAlwaysHasItsTrip == Spec => []AcceptedOfferHasItsTrip
<1>1. Init => AwardInv
  BY DEF Init, AwardInv, RequestsAreSound, AcceptedOfferHasItsTrip, Idle, NoOffer
<1>2. TypeOK /\ AwardInv /\ Next => AwardInv'
  BY RequestsStaySound, StepAcceptedOffer DEF AwardInv
<1>3. AwardInv /\ UNCHANGED vars => AwardInv'
  BY DEF AwardInv, RequestsAreSound, AcceptedOfferHasItsTrip, vars
<1>4. AwardInv => AcceptedOfferHasItsTrip
  BY DEF AwardInv
<1> QED BY <1>1, <1>2, <1>3, <1>4, TypeCorrect, PTL DEF Spec

-----------------------------------------------------------------------------
(* Closed offers and the negotiation chain.                                *)

Closed == OFFER_STATUSES \ OPEN_OFFER_STATUSES

LEMMA StaysClosed ==
  ASSUME TypeOK, Next, NEW o \in Offers, offer[o].status \in Closed
  PROVE  offer'[o].status \in Closed
<1> USE DEF TypeOK, Closed, OFFER_STATUSES, OPEN_OFFER_STATUSES
<1>1. CASE UNCHANGED offer
  BY <1>1
<1>2. ASSUME NEW r \in Requests, NEW t \in Trips, CommitAward(r, t)
      PROVE  offer'[o].status \in Closed
  BY <1>2 DEF CommitAward, OfferRow
<1>3. ASSUME NEW r \in Requests, CommitCancel(r)
      PROVE  offer'[o].status \in Closed
  BY <1>3 DEF CommitCancel, OfferRow
<1>4. ASSUME NEW r \in Requests, NEW x \in Offers, NEW d \in Deadlines, CommitOffer(r, x, d)
      PROVE  offer'[o].status \in Closed
  BY <1>4 DEF CommitOffer
<1>5. ASSUME NEW r \in Requests, NEW x \in Offers, NEW d \in Deadlines,
             CommitCounter(r, x, d)
      PROVE  offer'[o].status \in Closed
  BY <1>5 DEF CommitCounter, OfferRow
<1>6. ASSUME NEW r \in Requests, CommitDecision(r)
      PROVE  offer'[o].status \in Closed
  BY <1>6 DEF CommitDecision, OfferRow
<1>7. ASSUME NEW r \in Requests, SweepOffers(r)
      PROVE  offer'[o].status \in Closed
  BY <1>7 DEF SweepOffers, OfferRow
<1> QED
  BY <1>1, <1>2, <1>3, <1>4, <1>5, <1>6, <1>7, StepCases
     DEF Tick, PostLoad, ReadLoadToAward, PlanAward, ReadLoadToCancel,
         ReadLoadToOffer, ReadOfferToDecide, BeginSweep, SweepLoads, EndRequest

\* An offer that was decided, answered, withdrawn or expired never opens again.
THEOREM ClosedForever == Spec => ClosedOffersStayClosed
<1>1. TypeOK /\ [Next]_vars =>
        [\A o \in Offers :
           offer[o].status \in OFFER_STATUSES \ OPEN_OFFER_STATUSES
             => offer'[o].status \in OFFER_STATUSES \ OPEN_OFFER_STATUSES]_vars
  BY StaysClosed DEF Closed
<1> QED BY <1>1, TypeCorrect, PTL DEF Spec, ClosedOffersStayClosed

\* Whatever the step, an offer keeps its columns or is the row just inserted.
SameColumns(o) ==
  /\ offer'[o].load = offer[o].load
  /\ offer'[o].carrier = offer[o].carrier
  /\ offer'[o].side = offer[o].side
  /\ offer'[o].parent = offer[o].parent
  /\ offer'[o].expires = offer[o].expires

LEMMA OfferColumns ==
  ASSUME TypeOK, Next, NEW o \in Offers
  PROVE  \/ SameColumns(o)
         \/ \E r \in Requests, d \in Deadlines : CommitOffer(r, o, d)
         \/ \E r \in Requests, d \in Deadlines : CommitCounter(r, o, d)
<1> USE DEF TypeOK, SameColumns
<1>1. CASE UNCHANGED offer
  BY <1>1
<1>2. ASSUME NEW r \in Requests, NEW t \in Trips, CommitAward(r, t)
      PROVE  SameColumns(o)
  BY <1>2 DEF CommitAward, OfferRow
<1>3. ASSUME NEW r \in Requests, CommitCancel(r)
      PROVE  SameColumns(o)
  BY <1>3 DEF CommitCancel, OfferRow
<1>4. ASSUME NEW r \in Requests, NEW x \in Offers, NEW d \in Deadlines,
             CommitOffer(r, x, d), x # o
      PROVE  SameColumns(o)
  BY <1>4 DEF CommitOffer
<1>5. ASSUME NEW r \in Requests, NEW x \in Offers, NEW d \in Deadlines,
             CommitCounter(r, x, d), x # o
      PROVE  SameColumns(o)
  BY <1>5 DEF CommitCounter, OfferRow
<1>6. ASSUME NEW r \in Requests, CommitDecision(r)
      PROVE  SameColumns(o)
  BY <1>6 DEF CommitDecision, OfferRow
<1>7. ASSUME NEW r \in Requests, SweepOffers(r)
      PROVE  SameColumns(o)
  BY <1>7 DEF SweepOffers, OfferRow
<1> QED
  BY <1>1, <1>2, <1>3, <1>4, <1>5, <1>6, <1>7, StepCases
     DEF Tick, PostLoad, ReadLoadToAward, PlanAward, ReadLoadToCancel,
         ReadLoadToOffer, ReadOfferToDecide, BeginSweep, SweepLoads, EndRequest

ChainInv == RequestsAreSound /\ NegotiationChain

LEMMA StepNegotiationChain ==
  ASSUME TypeOK, ChainInv, Next
  PROVE  NegotiationChain'
<1> DEFINE Linked(o, p) == /\ offer'[p].status \in Closed
                           /\ offer'[p].side # offer'[o].side
                           /\ offer'[p].carrier = offer'[o].carrier
                           /\ offer'[p].load = offer'[o].load
<1> SUFFICES ASSUME NEW o \in Offers, offer'[o].parent # None
             PROVE  Linked(o, offer'[o].parent)
  BY DEF NegotiationChain, Closed
<1>1. CASE SameColumns(o)
  \* An older round: its parent is still closed and keeps its columns.
  <2> DEFINE p == offer[o].parent
  <2>1. p \in Offers /\ offer'[o].parent = p
    BY <1>1 DEF SameColumns, TypeOK, OfferRow
  <2>2. /\ offer[p].status \in Closed
        /\ offer[p].side # offer[o].side
        /\ offer[p].carrier = offer[o].carrier
        /\ offer[p].load = offer[o].load
    BY <2>1 DEF ChainInv, NegotiationChain, Closed
  <2>3. offer[p].status # "ABSENT"
    BY <2>2 DEF Closed, OFFER_STATUSES
  <2> HIDE DEF p
  <2>4. SameOffer(p) /\ offer'[p].status \in Closed
    BY <2>1, <2>2, <2>3, OffersKept, StaysClosed
  <2> QED BY <1>1, <2>1, <2>2, <2>4 DEF SameColumns, SameOffer
<1>2. ASSUME NEW r \in Requests, NEW d \in Deadlines, CommitOffer(r, o, d)
      PROVE  FALSE
  BY <1>2 DEF CommitOffer, TypeOK
<1>3. ASSUME NEW r \in Requests, NEW d \in Deadlines, CommitCounter(r, o, d)
      PROVE  Linked(o, offer'[o].parent)
  \* A new round: it answers a row that exists, so not itself.
  <2> DEFINE p == req[r].offer
  <2>1. p \in Offers /\ offer[p].status # "ABSENT"
    BY <1>3 DEF CommitCounter, ChainInv, RequestsAreSound, TypeOK, Request, Idle
  <2>2. offer[o].status = "ABSENT"
    BY <1>3 DEF CommitCounter
  <2>3. offer' = [offer EXCEPT ![o] = CounterRow(p, d), ![p].status = "COUNTERED"]
    BY <1>3 DEF CommitCounter
  <2> HIDE DEF p
  <2>4. offer[p] \in OfferRow
    BY <2>1 DEF TypeOK
  <2>5. /\ CounterRow(p, d).parent = p
        /\ CounterRow(p, d).carrier = offer[p].carrier
        /\ CounterRow(p, d).load = offer[p].load
        /\ CounterRow(p, d).side # offer[p].side
    BY <2>4 DEF CounterRow, OfferRow, OFFER_SIDES
  <2>6. p # o
    BY <2>1, <2>2
  <2>7. offer'[o] = CounterRow(p, d)
    BY <2>1, <2>3, <2>6 DEF TypeOK
  <2>8. offer'[p] = [offer[p] EXCEPT !.status = "COUNTERED"]
    BY <2>1, <2>3, <2>6 DEF TypeOK
  <2> QED
    BY <2>4, <2>5, <2>7, <2>8
       DEF OfferRow, Closed, OFFER_STATUSES, OPEN_OFFER_STATUSES
<1> QED BY <1>1, <1>2, <1>3, OfferColumns

\* Each round of a negotiation closes the one before it for good, changes sides
\* and keeps the carrier and the load.
THEOREM NegotiationIsAChain == Spec => []NegotiationChain
<1>1. Init => ChainInv
  BY DEF Init, ChainInv, RequestsAreSound, NegotiationChain, Idle, NoOffer
<1>2. TypeOK /\ ChainInv /\ Next => ChainInv'
  BY RequestsStaySound, StepNegotiationChain DEF ChainInv
<1>3. ChainInv /\ UNCHANGED vars => ChainInv'
  BY DEF ChainInv, RequestsAreSound, NegotiationChain, vars
<1>4. ChainInv => NegotiationChain
  BY DEF ChainInv
<1> QED BY <1>1, <1>2, <1>3, <1>4, TypeCorrect, PTL DEF Spec

-----------------------------------------------------------------------------
(* The award columns of a load row.                                        *)

RowInv ==
  /\ RequestsAreSound
  /\ \A l \in Loads : load[l].awarded # None => offer[load[l].awarded].status # "ABSENT"
  /\ AwardRowIsOneAward

\* Only the insert and the award write these two columns, and both write both.
LEMMA LoadColumns ==
  ASSUME TypeOK, Next, NEW l \in Loads
  PROVE  \/ load'[l].trip = load[l].trip /\ load'[l].awarded = load[l].awarded
         \/ load'[l].trip = None /\ load'[l].awarded = None
         \/ \E r \in Requests, t \in Trips : CommitAward(r, t) /\ l = req[r].load
<1> DEFINE Kept == load'[l].trip = load[l].trip /\ load'[l].awarded = load[l].awarded
<1>1. CASE UNCHANGED load
  BY <1>1
<1>2. ASSUME NEW k \in Loads, NEW p \in Principals, NEW d \in Deadlines, PostLoad(k, p, d)
      PROVE  Kept \/ (load'[l].trip = None /\ load'[l].awarded = None)
  BY <1>2 DEF PostLoad, NoLoad, TypeOK
<1>3. ASSUME NEW r \in Requests, NEW t \in Trips, CommitAward(r, t), l # req[r].load
      PROVE  Kept
  BY <1>3 DEF CommitAward, TypeOK
<1>4. ASSUME NEW r \in Requests, CommitCancel(r)
      PROVE  Kept
  BY <1>4 DEF CommitCancel, TypeOK, LoadRow
<1>5. ASSUME NEW r \in Requests, NEW o \in Offers, NEW d \in Deadlines, CommitOffer(r, o, d)
      PROVE  Kept
  BY <1>5 DEF CommitOffer, TypeOK, LoadRow
<1>6. ASSUME NEW r \in Requests, SweepLoads(r)
      PROVE  Kept
  BY <1>6 DEF SweepLoads, TypeOK, LoadRow
<1> QED
  BY <1>1, <1>2, <1>3, <1>4, <1>5, <1>6, StepCases
     DEF Tick, ReadLoadToAward, PlanAward, ReadLoadToCancel, ReadLoadToOffer,
         ReadOfferToDecide, CommitCounter, CommitDecision, BeginSweep, SweepOffers,
         EndRequest

LEMMA StepAwardRow ==
  ASSUME TypeOK, RowInv, Next
  PROVE  RowInv'
<1> DEFINE OneAward(l) ==
      /\ load'[l].awarded # None => offer'[load'[l].awarded].status # "ABSENT"
      /\ load'[l].trip = None <=> load'[l].awarded = None
      /\ load'[l].trip # None =>
           trip'[load'[l].trip] = [org |-> offer'[load'[l].awarded].carrier, load |-> l,
                                   terms |-> load'[l].awarded]
<1>1. ASSUME NEW l \in Loads
      PROVE  OneAward(l)
  <2>1. CASE load'[l].trip = load[l].trip /\ load'[l].awarded = load[l].awarded
    <3>1. CASE load[l].awarded = None
      BY <2>1, <3>1 DEF RowInv, AwardRowIsOneAward
    <3>2. CASE load[l].awarded # None
      <4> DEFINE w == load[l].awarded
                 t == load[l].trip
      <4>1. /\ w \in Offers /\ t \in Trips /\ t # None /\ w # None
            /\ offer[w].status # "ABSENT"
            /\ trip[t] = [org |-> offer[w].carrier, load |-> l, terms |-> w]
        BY <3>2 DEF RowInv, AwardRowIsOneAward, TypeOK, LoadRow
      <4> HIDE DEF w, t
      <4>2. trip[t] # NoTrip
        BY <4>1 DEF NoTrip
      <4>3. SameOffer(w) /\ trip'[t] = trip[t]
        BY <4>1, <4>2, OffersKept, TripsKept
      <4> QED BY <2>1, <4>1, <4>3 DEF SameOffer, w, t
    <3> QED BY <3>1, <3>2
  <2>2. CASE load'[l].trip = None /\ load'[l].awarded = None
    BY <2>2
  <2>3. ASSUME NEW r \in Requests, NEW t \in Trips, CommitAward(r, t), l = req[r].load
        PROVE  OneAward(l)
    <3> DEFINE w == req[r].offer
    <3>1. w \in Offers /\ offer[w].status # "ABSENT"
      BY <2>3 DEF CommitAward, RowInv, RequestsAreSound, TypeOK, Request, Idle
    <3>2. load'[l] = AwardedLoad(load[l], w, t) /\ trip'[t] = buildAwardTripData(l, w)
      BY <2>3 DEF CommitAward, TypeOK
    <3> HIDE DEF w
    <3>3. load'[l].trip = t /\ load'[l].awarded = w
      BY <3>2 DEF AwardedLoad, TypeOK, LoadRow
    <3>4. SameOffer(w)
      BY <3>1, OffersKept
    <3> QED
      BY <3>1, <3>2, <3>3, <3>4, NoneAssumption DEF SameOffer, buildAwardTripData
  <2> QED BY <2>1, <2>2, <2>3, LoadColumns
<1>2. RequestsAreSound'
  BY RequestsStaySound DEF RowInv
<1> QED BY <1>1, <1>2 DEF RowInv, AwardRowIsOneAward

\* The winner and the trip a load row names belong to the same award.
THEOREM LoadNamesOneAward == Spec => []AwardRowIsOneAward
<1>1. Init => RowInv
  BY DEF Init, RowInv, RequestsAreSound, AwardRowIsOneAward, Idle, NoLoad
<1>2. TypeOK /\ RowInv /\ Next => RowInv'
  BY StepAwardRow
<1>3. RowInv /\ UNCHANGED vars => RowInv'
  BY DEF RowInv, RequestsAreSound, AwardRowIsOneAward, vars
<1>4. RowInv => AwardRowIsOneAward
  BY DEF RowInv
<1> QED BY <1>1, <1>2, <1>3, <1>4, TypeCorrect, PTL DEF Spec

-----------------------------------------------------------------------------
(* Expiry.  A sweep may be arbitrarily late, but it never holds a time     *)
(* that is still to come.                                                  *)

SweepsAreInThePast ==
  \A r \in Requests : req[r].op \in {"sweep", "swept", "list"} => req[r].at <= now

ExpiryInv == SweepsAreInThePast /\ ExpiredOnlyAfterDeadline

LEMMA ClockOnlyAdvances ==
  ASSUME TypeOK, Next
  PROVE  now' \in Nat /\ now <= now'
<1>1. CASE Tick
  BY <1>1 DEF Tick, TypeOK
<1>2. CASE UNCHANGED now
  BY <1>2 DEF TypeOK
<1>3. Tick \/ UNCHANGED now
  BY StepCases, Zenon
     DEF PostLoad, ReadLoadToAward, PlanAward, CommitAward, ReadLoadToCancel,
         CommitCancel, ReadLoadToOffer, CommitOffer, ReadOfferToDecide, CommitCounter,
         CommitDecision, BeginSweep, SweepLoads, SweepOffers, EndRequest
<1> QED BY <1>1, <1>2, <1>3

LEMMA StepSweepClock ==
  ASSUME TypeOK, SweepsAreInThePast, Next
  PROVE  SweepsAreInThePast'
<1> USE DEF TypeOK
<1> SUFFICES ASSUME NEW q \in Requests, req'[q].op \in {"sweep", "swept", "list"}
             PROVE  req'[q].at <= now'
  BY DEF SweepsAreInThePast
<1>1. now' \in Nat /\ now <= now'
  BY ClockOnlyAdvances
<1>2. CASE req'[q] = req[q]
  BY <1>1, <1>2 DEF SweepsAreInThePast, Request, Idle
<1>3. ASSUME NEW r \in Requests, NEW ls \in SUBSET Loads, BeginSweep(r, ls),
             req'[q] # req[q]
      PROVE  req'[q].at <= now'
  BY <1>3 DEF BeginSweep
<1>4. ASSUME NEW r \in Requests, SweepLoads(r) \/ SweepOffers(r), req'[q] # req[q]
      PROVE  req'[q].at <= now'
  <2>1. req[r] \in [op: {"sweep", "swept", "list"}, at: Nat, loads: SUBSET Loads]
    BY <1>4 DEF SweepLoads, SweepOffers, Request, Idle
  <2>2. req'[q].at = req[r].at /\ now' = now
    BY <1>4, <2>1 DEF SweepLoads, SweepOffers
  <2> QED BY <2>1, <2>2 DEF SweepsAreInThePast
<1>5. \/ req'[q] = req[q]
      \/ \E r \in Requests, ls \in SUBSET Loads : BeginSweep(r, ls)
      \/ \E r \in Requests : SweepLoads(r) \/ SweepOffers(r)
  <2>1. ASSUME NEW r \in Requests, NEW w \in Offers, PlanAward(r, w)
        PROVE  req'[q] = req[q]
    BY <2>1 DEF PlanAward
  <2>2. ASSUME NEW r \in Requests, NEW o \in Offers, NEW p \in Principals,
               ReadOfferToDecide(r, o, p)
        PROVE  req'[q] = req[q]
    BY <2>2 DEF ReadOfferToDecide
  <2>3. ASSUME NEW r \in Requests, req' = [req EXCEPT ![r] = Idle]
        PROVE  req'[q] = req[q]
    BY <2>3 DEF Idle
  <2>4. ASSUME NEW r \in Requests, NEW l \in Loads,
               ReadLoadToAward(r, l) \/ ReadLoadToCancel(r, l)
        PROVE  req'[q] = req[q]
    BY <2>4 DEF ReadLoadToAward, ReadLoadToCancel
  <2>5. ASSUME NEW r \in Requests, NEW l \in Loads, NEW c \in Principals,
               ReadLoadToOffer(r, l, c)
        PROVE  req'[q] = req[q]
    BY <2>5 DEF ReadLoadToOffer
  <2> QED
    BY <2>1, <2>2, <2>3, <2>4, <2>5, StepCases
       DEF Tick, PostLoad, CommitAward, CommitCancel, CommitOffer, CommitCounter,
           CommitDecision, EndRequest
<1> QED BY <1>2, <1>3, <1>4, <1>5

\* A row that is EXPIRED after a step was so before, or a sweep that is not
\* ahead of the clock found its deadline passed.
LEMMA LoadExpiry ==
  ASSUME TypeOK, SweepsAreInThePast, Next, NEW l \in Loads, load'[l].status = "EXPIRED"
  PROVE  \/ load[l].status = "EXPIRED" /\ load'[l].expires = load[l].expires
         \/ load'[l].expires <= now
<1> DEFINE Goal == \/ load[l].status = "EXPIRED" /\ load'[l].expires = load[l].expires
                   \/ load'[l].expires <= now
<1>1. CASE UNCHANGED load
  BY <1>1
<1>2. ASSUME NEW k \in Loads, NEW p \in Principals, NEW d \in Deadlines, PostLoad(k, p, d)
      PROVE  Goal
  BY <1>2 DEF PostLoad, NoLoad, TypeOK
<1>3. ASSUME NEW r \in Requests, NEW t \in Trips, CommitAward(r, t)
      PROVE  Goal
  BY <1>3 DEF CommitAward, AwardedLoad, TypeOK, LoadRow
<1>4. ASSUME NEW r \in Requests, CommitCancel(r)
      PROVE  Goal
  BY <1>4 DEF CommitCancel, TypeOK, LoadRow
<1>5. ASSUME NEW r \in Requests, NEW o \in Offers, NEW d \in Deadlines, CommitOffer(r, o, d)
      PROVE  Goal
  BY <1>5 DEF CommitOffer, TypeOK, LoadRow
<1>6. ASSUME NEW r \in Requests, SweepLoads(r)
      PROVE  Goal
  <2>1. req[r].at \in Nat /\ req[r].at <= now
    BY <1>6 DEF SweepLoads, SweepsAreInThePast, TypeOK, Request, Idle
  <2>2. load[l].expires \in Nat /\ now \in Nat
    BY DEF TypeOK, LoadRow
  <2>3. \/ load'[l] = load[l]
        \/ load'[l] = [load[l] EXCEPT !.status = "EXPIRED"] /\ load[l].expires <= req[r].at
    BY <1>6 DEF SweepLoads, Sweepable, isExpired
  <2>4. load'[l].expires = load[l].expires
    BY <2>3 DEF TypeOK, LoadRow
  <2> QED BY <2>1, <2>2, <2>3, <2>4
<1> QED
  BY <1>1, <1>2, <1>3, <1>4, <1>5, <1>6, StepCases
     DEF Tick, ReadLoadToAward, PlanAward, ReadLoadToCancel, ReadLoadToOffer,
         ReadOfferToDecide, CommitCounter, CommitDecision, BeginSweep, SweepOffers,
         EndRequest

LEMMA OfferExpiry ==
  ASSUME TypeOK, SweepsAreInThePast, Next, NEW o \in Offers, offer'[o].status = "EXPIRED"
  PROVE  \/ offer[o].status = "EXPIRED" /\ offer'[o].expires = offer[o].expires
         \/ offer'[o].expires <= now
<1> DEFINE Goal == \/ offer[o].status = "EXPIRED" /\ offer'[o].expires = offer[o].expires
                   \/ offer'[o].expires <= now
<1>1. CASE UNCHANGED offer
  BY <1>1
<1>2. ASSUME NEW r \in Requests, NEW t \in Trips, CommitAward(r, t)
      PROVE  Goal
  BY <1>2 DEF CommitAward, TypeOK, OfferRow
<1>3. ASSUME NEW r \in Requests, CommitCancel(r)
      PROVE  Goal
  BY <1>3 DEF CommitCancel, TypeOK, OfferRow
<1>4. ASSUME NEW r \in Requests, NEW x \in Offers, NEW d \in Deadlines, CommitOffer(r, x, d)
      PROVE  Goal
  BY <1>4 DEF CommitOffer, TypeOK
<1>5. ASSUME NEW r \in Requests, NEW x \in Offers, NEW d \in Deadlines,
             CommitCounter(r, x, d)
      PROVE  Goal
  <2>1. offer[o].status = "EXPIRED"
    BY <1>5, CounteredStatus
  <2>2. SameOffer(o)
    BY <2>1, OffersKept
  <2> QED BY <2>1, <2>2 DEF SameOffer
<1>6. ASSUME NEW r \in Requests, CommitDecision(r)
      PROVE  Goal
  BY <1>6 DEF CommitDecision, TypeOK, OfferRow
<1>7. ASSUME NEW r \in Requests, SweepOffers(r)
      PROVE  Goal
  <2>1. req[r].at \in Nat /\ req[r].at <= now
    BY <1>7 DEF SweepOffers, SweepsAreInThePast, TypeOK, Request, Idle
  <2>2. offer[o].expires \in Nat /\ now \in Nat
    BY DEF TypeOK, OfferRow
  <2>3. \/ offer'[o] = offer[o]
        \/ offer'[o] = [offer[o] EXCEPT !.status = "EXPIRED"] /\ offer[o].expires <= req[r].at
    BY <1>7 DEF SweepOffers, Sweepable, isExpired
  <2>4. offer'[o].expires = offer[o].expires
    BY <2>3 DEF TypeOK, OfferRow
  <2> QED BY <2>1, <2>2, <2>3, <2>4
<1> QED
  BY <1>1, <1>2, <1>3, <1>4, <1>5, <1>6, <1>7, StepCases
     DEF Tick, PostLoad, ReadLoadToAward, PlanAward, ReadLoadToCancel,
         ReadLoadToOffer, ReadOfferToDecide, BeginSweep, SweepLoads, EndRequest

LEMMA StepExpiry ==
  ASSUME TypeOK, ExpiryInv, Next
  PROVE  ExpiryInv'
<1>1. SweepsAreInThePast'
  BY StepSweepClock DEF ExpiryInv
<1>2. now \in Nat /\ now' \in Nat /\ now <= now'
  BY ClockOnlyAdvances DEF TypeOK
<1>3. ASSUME NEW l \in Loads, load'[l].status = "EXPIRED"
      PROVE  load'[l].expires <= now'
  <2>1. load'[l].expires \in Nat
    BY StepTypeOK DEF TypeOK, LoadRow
  <2>2. load'[l].expires <= now
    BY <1>3, LoadExpiry DEF ExpiryInv, ExpiredOnlyAfterDeadline
  <2> QED BY <1>2, <2>1, <2>2
<1>4. ASSUME NEW o \in Offers, offer'[o].status = "EXPIRED"
      PROVE  offer'[o].expires <= now'
  <2>1. offer'[o].expires \in Nat
    BY StepTypeOK DEF TypeOK, OfferRow
  <2>2. offer'[o].expires <= now
    BY <1>4, OfferExpiry DEF ExpiryInv, ExpiredOnlyAfterDeadline
  <2> QED BY <1>2, <2>1, <2>2
<1> QED BY <1>1, <1>3, <1>4 DEF ExpiryInv, ExpiredOnlyAfterDeadline

\* Nothing reads EXPIRED before its deadline, however late a sweep commits.
THEOREM ExpiryIsHonest == Spec => []ExpiredOnlyAfterDeadline
<1>1. Init => ExpiryInv
  BY DEF Init, ExpiryInv, SweepsAreInThePast, ExpiredOnlyAfterDeadline, Idle,
         NoLoad, NoOffer
<1>2. TypeOK /\ ExpiryInv /\ Next => ExpiryInv'
  BY StepExpiry
<1>3. ExpiryInv /\ UNCHANGED vars => ExpiryInv'
  BY DEF ExpiryInv, SweepsAreInThePast, ExpiredOnlyAfterDeadline, vars
<1>4. ExpiryInv => ExpiredOnlyAfterDeadline
  BY DEF ExpiryInv
<1> QED BY <1>1, <1>2, <1>3, <1>4, TypeCorrect, PTL DEF Spec

-----------------------------------------------------------------------------
(* One request at a time.  The rules of marketplace.js are enough only if  *)
(* nothing happens between what a request reads and what it writes: with   *)
(* that, the snapshots below are still true when they are used.            *)

OneAtATime == \A r, s \in Requests : r = s

\* A bid that may still be taken up is on a load that was posted and neither
\* awarded nor cancelled: it may have EXPIRED.
BidsAreOnLiveLoads ==
  \A o \in Offers : isOfferOpen(o) =>
    /\ offer[o].load \in Loads
    /\ load[offer[o].load].status \in OPEN_LOAD_STATUSES \cup {"EXPIRED"}

OnlyAwardsHaveWinners ==
  \A l \in Loads : load[l].status # "AWARDED" => load[l].awarded = None

TripsAreAwards ==
  \A t \in Trips : trip[t] # NoTrip =>
    trip[t].load \in Loads /\ load[trip[t].load].status = "AWARDED"

CarriersNameLoads ==
  \A o \in Offers : offer[o].carrier # None => offer[o].load \in Loads

Tables == /\ BidsAreOnLiveLoads /\ OnlyAwardsHaveWinners /\ TripsAreAwards
          /\ CarriersNameLoads /\ AwardedOnce

\* What the request q read is still what the tables say.
StillTrue(q) ==
  /\ q.op = "award" => q.seen = load[q.load].status
  /\ q.op = "awarding" =>
       /\ isLoadOpen(q.load) /\ isOfferOpen(q.offer) /\ offer[q.offer].load = q.load
       /\ q.declined = DeclinedIds(q.load, q.offer)
  /\ q.op = "cancel" => isLoadOpen(q.load)
  /\ q.op = "offer" => isLoadOpen(q.load) /\ q.seen = load[q.load].status
  /\ q.op \in {"counter", "decline", "withdraw"} => isOfferOpen(q.offer)

SerialInv == Tables /\ \A r \in Requests : StillTrue(req[r])

LEMMA InitSerial == Init => SerialInv
BY DEF Init, SerialInv, Tables, BidsAreOnLiveLoads, OnlyAwardsHaveWinners, TripsAreAwards,
       CarriersNameLoads, AwardedOnce, StillTrue, isOfferOpen, OPEN_OFFER_STATUSES,
       NoOffer, NoLoad, Idle

\* A step that leaves the tables alone leaves what is said of them.
LEMMA TablesStay ==
  ASSUME Tables, UNCHANGED <<load, offer, trip>>
  PROVE  Tables'
BY DEF Tables, BidsAreOnLiveLoads, OnlyAwardsHaveWinners, TripsAreAwards, CarriersNameLoads,
       AwardedOnce, isOfferOpen

LEMMA SnapshotsStay ==
  ASSUME UNCHANGED <<load, offer>>, NEW q, StillTrue(q)
  PROVE  StillTrue(q)'
BY DEF StillTrue, isLoadOpen, isOfferOpen, DeclinedIds, OpenOffersOf, OffersOf

LEMMA IdleIsTrue == StillTrue(Idle)'
BY DEF StillTrue, Idle

\* The only request there is wrote q.
LEMMA AloneInFlight ==
  ASSUME OneAtATime, TypeOK, NEW r \in Requests, NEW q, req' = [req EXCEPT ![r] = q],
         StillTrue(q)'
  PROVE  \A s \in Requests : StillTrue(req[s])'
<1> SUFFICES ASSUME NEW s \in Requests PROVE StillTrue(req[s])'
  OBVIOUS
<1>1. req'[s] = q
  BY DEF OneAtATime, TypeOK
<1> QED BY <1>1 DEF StillTrue, isLoadOpen, isOfferOpen, DeclinedIds, OpenOffersOf, OffersOf

\* The open bids after a step that closes some offers and opens none.
LEMMA BidsStay ==
  ASSUME TypeOK, BidsAreOnLiveLoads,
         \A o \in Offers : isOfferOpen(o)' => isOfferOpen(o) /\ offer'[o].load = offer[o].load,
         \A o \in Offers : isOfferOpen(o)' =>
           load'[offer[o].load].status \in {load[offer[o].load].status, "OFFERS", "EXPIRED"}
  PROVE  BidsAreOnLiveLoads'
BY DEF BidsAreOnLiveLoads, OPEN_LOAD_STATUSES

LEMMA CarriersStay ==
  ASSUME TypeOK, Next, CarriersNameLoads
  PROVE  CarriersNameLoads'
<1> SUFFICES ASSUME NEW o \in Offers, offer'[o].carrier # None
             PROVE  offer'[o].load \in Loads
  BY DEF CarriersNameLoads
<1>1. CASE SameColumns(o)
  BY <1>1 DEF SameColumns, CarriersNameLoads
<1>2. ASSUME NEW r \in Requests, NEW d \in Deadlines, CommitOffer(r, o, d)
      PROVE  offer'[o].load \in Loads
  BY <1>2 DEF CommitOffer, TypeOK, Request, Idle
<1>3. ASSUME NEW r \in Requests, NEW d \in Deadlines, CommitCounter(r, o, d)
      PROVE  offer'[o].load \in Loads
  <2> DEFINE p == req[r].offer
  <2>1. p \in Offers /\ offer[p] \in OfferRow /\ CounterRow(p, d) \in OfferRow
    BY <1>3, CounterRowType, ClockAssumption DEF CommitCounter, TypeOK, Request, Idle
  <2>2. offer'[o] \in {CounterRow(p, d), [CounterRow(p, d) EXCEPT !.status = "COUNTERED"]}
    BY <1>3, <2>1 DEF CommitCounter, TypeOK
  <2>3. CounterRow(p, d).carrier = offer[p].carrier /\ CounterRow(p, d).load = offer[p].load
    BY <2>1 DEF CounterRow, OfferRow
  <2> HIDE DEF p
  <2>4. offer'[o].carrier = offer[p].carrier /\ offer'[o].load = offer[p].load
    BY <2>1, <2>2, <2>3 DEF OfferRow
  <2> QED BY <2>1, <2>4 DEF CarriersNameLoads
<1> QED BY <1>1, <1>2, <1>3, OfferColumns

LEMMA AwardsStay ==
  ASSUME TypeOK, Tables, UNCHANGED trip,
         \A l \in Loads : /\ load'[l].status = "AWARDED" <=> load[l].status = "AWARDED"
                          /\ load'[l].awarded \in {load[l].awarded, None}
  PROVE  OnlyAwardsHaveWinners' /\ TripsAreAwards' /\ AwardedOnce'
BY DEF Tables, OnlyAwardsHaveWinners, TripsAreAwards, AwardedOnce

\* The steps that only read, and those that end a request.
LEMMA ReadsAreTrue ==
  ASSUME OneAtATime, TypeOK, SerialInv, NEW r \in Requests,
         \/ \E l \in Loads : ReadLoadToAward(r, l)
         \/ \E w \in Offers : PlanAward(r, w)
         \/ \E l \in Loads : ReadLoadToCancel(r, l)
         \/ \E l \in Loads, c \in Principals : ReadLoadToOffer(r, l, c)
         \/ \E o \in Offers, p \in Principals : ReadOfferToDecide(r, o, p)
         \/ \E ls \in SUBSET Loads : BeginSweep(r, ls)
         \/ EndRequest(r)
  PROVE  SerialInv'
<1> USE DEF TypeOK
<1> SUFFICES ASSUME UNCHANGED <<load, offer, trip>>
             PROVE  \E q : req' = [req EXCEPT ![r] = q] /\ StillTrue(q)'
  <2>1. UNCHANGED <<load, offer, trip>>
    BY DEF ReadLoadToAward, PlanAward, ReadLoadToCancel, ReadLoadToOffer, ReadOfferToDecide,
           BeginSweep, EndRequest
  <2> QED BY <2>1, TablesStay, AloneInFlight DEF SerialInv
<1>1. ASSUME NEW q, StillTrue(q), req' = [req EXCEPT ![r] = q]
      PROVE  \E x : req' = [req EXCEPT ![r] = x] /\ StillTrue(x)'
  BY <1>1, SnapshotsStay
<1>2. ASSUME NEW l \in Loads, ReadLoadToAward(r, l)
      PROVE  \E q : req' = [req EXCEPT ![r] = q] /\ StillTrue(q)'
  <2> DEFINE q == [op |-> "award", load |-> l, seen |-> load[l].status, expires |-> load[l].expires]
  <2>1. StillTrue(q)
    BY DEF StillTrue
  <2> QED BY <1>1, <1>2, <2>1 DEF ReadLoadToAward
<1>3. ASSUME NEW w \in Offers, PlanAward(r, w)
      PROVE  \E q : req' = [req EXCEPT ![r] = q] /\ StillTrue(q)'
  <2> DEFINE q == [op |-> "awarding", load |-> req[r].load, offer |-> w,
                   declined |-> DeclinedIds(req[r].load, w)]
  <2>1. req[r].seen = load[req[r].load].status
    BY <1>3 DEF PlanAward, SerialInv, StillTrue
  <2>2. StillTrue(q)
    BY <1>3, <2>1 DEF StillTrue, PlanAward, AwardAllowed, isLoadOpen
  <2> QED BY <1>1, <1>3, <2>2 DEF PlanAward
<1>4. ASSUME NEW l \in Loads, ReadLoadToCancel(r, l)
      PROVE  \E q : req' = [req EXCEPT ![r] = q] /\ StillTrue(q)'
  <2>1. StillTrue([op |-> "cancel", load |-> l])
    BY <1>4 DEF StillTrue, ReadLoadToCancel
  <2> QED BY <1>1, <1>4, <2>1 DEF ReadLoadToCancel
<1>5. ASSUME NEW l \in Loads, NEW c \in Principals, ReadLoadToOffer(r, l, c)
      PROVE  \E q : req' = [req EXCEPT ![r] = q] /\ StillTrue(q)'
  <2>1. StillTrue([op |-> "offer", load |-> l, carrier |-> c, seen |-> load[l].status])
    BY <1>5 DEF StillTrue, ReadLoadToOffer, CanOffer
  <2> QED BY <1>1, <1>5, <2>1 DEF ReadLoadToOffer
<1>6. ASSUME NEW o \in Offers, NEW p \in Principals, ReadOfferToDecide(r, o, p)
      PROVE  \E q : req' = [req EXCEPT ![r] = q] /\ StillTrue(q)'
  <2>1. PICK op \in {"counter", "decline", "withdraw"} :
          /\ CASE op = "counter"  -> canCounter(o, p)
               [] op = "decline"  -> canDecideOffer(o, p) /\ isOfferOpen(o)
               [] op = "withdraw" -> canWithdrawOffer(o, p)
          /\ req' = [req EXCEPT ![r] = [op |-> op, offer |-> o]]
    BY <1>6 DEF ReadOfferToDecide
  <2>2. isOfferOpen(o)
    BY <2>1 DEF canCounter, canWithdrawOffer
  <2>3. StillTrue([op |-> op, offer |-> o])
    BY <2>1, <2>2 DEF StillTrue
  <2> QED BY <1>1, <2>1, <2>3
<1>7. ASSUME NEW ls \in SUBSET Loads, BeginSweep(r, ls)
      PROVE  \E q : req' = [req EXCEPT ![r] = q] /\ StillTrue(q)'
  <2>1. StillTrue([op |-> "sweep", at |-> now, loads |-> ls])
    BY DEF StillTrue
  <2> QED BY <1>1, <1>7, <2>1 DEF BeginSweep
<1>8. CASE EndRequest(r)
  BY <1>8, IdleIsTrue DEF EndRequest
<1> QED BY <1>2, <1>3, <1>4, <1>5, <1>6, <1>7, <1>8

\* An award that read true closes the load for good: no bid on it stays open.
LEMMA AwardStep ==
  ASSUME OneAtATime, TypeOK, SerialInv, Next, NEW r \in Requests, NEW t \in Trips,
         CommitAward(r, t)
  PROVE  SerialInv'
<1> DEFINE l == req[r].load
           w == req[r].offer
<1>1. l \in Loads /\ w \in Offers
  BY DEF CommitAward, TypeOK, Request, Idle
<1>2. /\ isLoadOpen(l) /\ isOfferOpen(w) /\ offer[w].load = l
      /\ req[r].declined = DeclinedIds(l, w)
  BY DEF CommitAward, SerialInv, StillTrue
<1>3. /\ trip' = [trip EXCEPT ![t] = buildAwardTripData(l, w)]
      /\ load' = [load EXCEPT ![l] = AwardedLoad(load[l], w, t)]
      /\ offer' = [o \in Offers |->
           IF o = w THEN [offer[o] EXCEPT !.status = "ACCEPTED"]
           ELSE IF o \in DeclinedIds(l, w)
                THEN [offer[o] EXCEPT !.status = "DECLINED"]
                ELSE offer[o]]
      /\ req' = [req EXCEPT ![r] = Idle] /\ trip[t] = NoTrip
  BY <1>2 DEF CommitAward
<1> HIDE DEF l, w
<1>4. /\ load'[l].status = "AWARDED" /\ load[l].status # "AWARDED"
      /\ \A k \in Loads \ {l} : load'[k] = load[k]
  BY <1>1, <1>2, <1>3 DEF AwardedLoad, isLoadOpen, OPEN_LOAD_STATUSES, TypeOK, LoadRow
<1>5. ASSUME NEW o \in Offers, isOfferOpen(o)'
      PROVE  isOfferOpen(o) /\ offer[o].load # l /\ offer'[o] = offer[o]
  <2>1. offer[o] \in OfferRow
    BY DEF TypeOK
  <2>2. o # w /\ o \notin DeclinedIds(l, w)
    BY <1>3, <1>5, <2>1 DEF isOfferOpen, OPEN_OFFER_STATUSES, OfferRow
  <2>3. offer'[o] = offer[o]
    BY <1>3, <2>2
  <2> QED BY <1>5, <2>2, <2>3 DEF isOfferOpen, DeclinedIds, OpenOffersOf, OffersOf
<1>6. BidsAreOnLiveLoads'
  BY <1>4, <1>5 DEF SerialInv, Tables, BidsAreOnLiveLoads
<1>7. OnlyAwardsHaveWinners'
  BY <1>4 DEF SerialInv, Tables, OnlyAwardsHaveWinners
<1>8. trip'[t].load = l /\ \A x \in Trips \ {t} : trip'[x] = trip[x]
  BY <1>3 DEF buildAwardTripData, TypeOK
<1>9. \A x \in Trips : trip[x].load # l
  BY <1>1, <1>4, NoneAssumption DEF SerialInv, Tables, TripsAreAwards, NoTrip
<1>10. TripsAreAwards'
  BY <1>1, <1>4, <1>8, <1>9 DEF SerialInv, Tables, TripsAreAwards
<1>11. AwardedOnce'
  BY <1>1, <1>8, <1>9 DEF SerialInv, Tables, AwardedOnce
<1>12. CarriersNameLoads' /\ \A s \in Requests : StillTrue(req[s])'
  BY <1>3, CarriersStay, AloneInFlight, IdleIsTrue DEF SerialInv, Tables
<1> QED BY <1>6, <1>7, <1>10, <1>11, <1>12 DEF SerialInv, Tables

LEMMA CancelStep ==
  ASSUME OneAtATime, TypeOK, SerialInv, Next, NEW r \in Requests, CommitCancel(r)
  PROVE  SerialInv'
<1> DEFINE l == req[r].load
<1>1. l \in Loads /\ isLoadOpen(l)
  BY DEF CommitCancel, TypeOK, Request, Idle, SerialInv, StillTrue
<1>2. /\ load' = [load EXCEPT ![l].status = "CANCELLED"] /\ UNCHANGED trip
      /\ offer' = [o \in Offers |-> IF o \in OpenOffersOf(l)
                                    THEN [offer[o] EXCEPT !.status = "DECLINED"]
                                    ELSE offer[o]]
      /\ req' = [req EXCEPT ![r] = Idle]
  BY DEF CommitCancel
<1> HIDE DEF l
<1>3. /\ load'[l].status = "CANCELLED" /\ load[l].status # "AWARDED"
      /\ load'[l].awarded = load[l].awarded
      /\ \A k \in Loads \ {l} : load'[k] = load[k]
  BY <1>1, <1>2 DEF isLoadOpen, OPEN_LOAD_STATUSES, TypeOK, LoadRow
<1>4. ASSUME NEW o \in Offers, isOfferOpen(o)'
      PROVE  isOfferOpen(o) /\ offer[o].load # l /\ offer'[o] = offer[o]
  <2>1. offer[o] \in OfferRow
    BY DEF TypeOK
  <2>2. o \notin OpenOffersOf(l)
    BY <1>2, <1>4, <2>1 DEF isOfferOpen, OPEN_OFFER_STATUSES, OfferRow
  <2> QED BY <1>2, <1>4, <2>2 DEF isOfferOpen, OpenOffersOf, OffersOf
<1>5. BidsAreOnLiveLoads'
  BY <1>3, <1>4 DEF SerialInv, Tables, BidsAreOnLiveLoads
<1>6. OnlyAwardsHaveWinners' /\ TripsAreAwards' /\ AwardedOnce'
  BY <1>2, <1>3, AwardsStay DEF SerialInv
<1>7. CarriersNameLoads' /\ \A s \in Requests : StillTrue(req[s])'
  BY <1>2, CarriersStay, AloneInFlight, IdleIsTrue DEF SerialInv, Tables
<1> QED BY <1>5, <1>6, <1>7 DEF SerialInv, Tables

LEMMA PostStep ==
  ASSUME TypeOK, SerialInv, Next, NEW l \in Loads, NEW p \in Principals, NEW d \in Deadlines,
         PostLoad(l, p, d)
  PROVE  SerialInv'
<1>1. /\ load[l].status = "ABSENT" /\ load'[l].status = "POSTED" /\ load'[l].awarded = None
      /\ \A k \in Loads \ {l} : load'[k] = load[k]
      /\ UNCHANGED <<offer, trip, req>>
  BY DEF PostLoad, NoLoad, TypeOK
<1>2. BidsAreOnLiveLoads'
  BY <1>1 DEF SerialInv, Tables, BidsAreOnLiveLoads, isOfferOpen, OPEN_LOAD_STATUSES
<1>3. OnlyAwardsHaveWinners' /\ TripsAreAwards' /\ AwardedOnce'
  BY <1>1, AwardsStay DEF SerialInv
<1>4. ASSUME NEW q \in Request, StillTrue(q) PROVE StillTrue(q)'
  <2>1. q.op \in {"award", "awarding", "cancel", "offer"} => q.load \in Loads \ {l}
    BY <1>1, <1>4 DEF StillTrue, isLoadOpen, OPEN_LOAD_STATUSES, Request, Idle, LOAD_STATUSES
  <2> QED
    BY <1>1, <1>4, <2>1 DEF StillTrue, isLoadOpen, isOfferOpen, DeclinedIds, OpenOffersOf, OffersOf
<1>5. CarriersNameLoads'
  BY CarriersStay DEF SerialInv, Tables
<1> QED BY <1>1, <1>2, <1>3, <1>4, <1>5 DEF SerialInv, Tables, TypeOK

LEMMA OfferStep ==
  ASSUME OneAtATime, TypeOK, SerialInv, Next, NEW r \in Requests, NEW o \in Offers,
         NEW d \in Deadlines, CommitOffer(r, o, d)
  PROVE  SerialInv'
<1> DEFINE l == req[r].load
<1>1. l \in Loads /\ isLoadOpen(l) /\ req[r].seen = load[l].status
  BY DEF CommitOffer, TypeOK, Request, Idle, SerialInv, StillTrue
<1>2. /\ load' = IF load[l].status = "POSTED" THEN [load EXCEPT ![l].status = "OFFERS"] ELSE load
      /\ offer'[o].load = l /\ \A x \in Offers \ {o} : offer'[x] = offer[x]
      /\ UNCHANGED trip /\ req' = [req EXCEPT ![r] = Idle]
  BY <1>1 DEF CommitOffer, TypeOK
<1> HIDE DEF l
<1>3. /\ load'[l].status = "OFFERS" /\ load[l].status # "AWARDED"
      /\ load'[l].awarded = load[l].awarded
      /\ \A k \in Loads \ {l} : load'[k] = load[k]
  BY <1>1, <1>2 DEF isLoadOpen, OPEN_LOAD_STATUSES, TypeOK, LoadRow
<1>4. BidsAreOnLiveLoads'
  BY <1>1, <1>2, <1>3 DEF SerialInv, Tables, BidsAreOnLiveLoads, isOfferOpen, OPEN_LOAD_STATUSES
<1>5. OnlyAwardsHaveWinners' /\ TripsAreAwards' /\ AwardedOnce'
  BY <1>2, <1>3, AwardsStay DEF SerialInv
<1>6. CarriersNameLoads' /\ \A s \in Requests : StillTrue(req[s])'
  BY <1>2, CarriersStay, AloneInFlight, IdleIsTrue DEF SerialInv, Tables
<1> QED BY <1>4, <1>5, <1>6 DEF SerialInv, Tables

\* The new round of a negotiation is on the load of the round it answers.
LEMMA CounterRows ==
  ASSUME TypeOK, SerialInv, NEW r \in Requests, NEW o \in Offers, NEW d \in Deadlines,
         CommitCounter(r, o, d), NEW p, p = req[r].offer
  PROVE  /\ p \in Offers \ {o} /\ isOfferOpen(p) /\ ~isOfferOpen(o)
         /\ isOfferOpen(o)' /\ offer'[o].load = offer[p].load /\ ~isOfferOpen(p)'
         /\ \A x \in Offers \ {o, p} : offer'[x] = offer[x]
<1>1. p \in Offers /\ isOfferOpen(p)
  BY DEF CommitCounter, TypeOK, Request, Idle, SerialInv, StillTrue
<1>2. offer[p] \in OfferRow
  BY <1>1 DEF TypeOK
<1>3. offer' = [offer EXCEPT ![o] = CounterRow(p, d), ![p].status = "COUNTERED"]
  BY DEF CommitCounter
<1>4. offer[o].status = "ABSENT"
  BY DEF CommitCounter
<1>5. p # o /\ ~isOfferOpen(o)
  BY <1>1, <1>4 DEF isOfferOpen, OPEN_OFFER_STATUSES
<1>6. /\ offer'[o] = CounterRow(p, d) /\ offer'[p] = [offer[p] EXCEPT !.status = "COUNTERED"]
      /\ \A x \in Offers \ {o, p} : offer'[x] = offer[x]
  BY <1>1, <1>3, <1>5 DEF TypeOK
<1>7. CounterRow(p, d).status = "SENT" /\ CounterRow(p, d).load = offer[p].load
  BY <1>2 DEF CounterRow, OfferRow
<1>8. isOfferOpen(o)' /\ ~isOfferOpen(p)'
  BY <1>2, <1>6, <1>7 DEF isOfferOpen, OPEN_OFFER_STATUSES, OfferRow
<1> QED BY <1>1, <1>5, <1>6, <1>7, <1>8

LEMMA CounterStep ==
  ASSUME OneAtATime, TypeOK, SerialInv, Next, NEW r \in Requests, NEW o \in Offers,
         NEW d \in Deadlines, CommitCounter(r, o, d)
  PROVE  SerialInv'
<1>1. UNCHANGED <<load, trip>> /\ req' = [req EXCEPT ![r] = Idle]
  BY DEF CommitCounter
<1>2. BidsAreOnLiveLoads'
  BY <1>1, CounterRows DEF SerialInv, Tables, BidsAreOnLiveLoads, isOfferOpen
<1>3. OnlyAwardsHaveWinners' /\ TripsAreAwards' /\ AwardedOnce'
  BY <1>1, AwardsStay DEF SerialInv
<1>4. CarriersNameLoads' /\ \A s \in Requests : StillTrue(req[s])'
  BY <1>1, CarriersStay, AloneInFlight, IdleIsTrue DEF SerialInv, Tables
<1> QED BY <1>2, <1>3, <1>4 DEF SerialInv, Tables

\* What a decision or the sweep of the offers leaves open was open before.
LEMMA EndedBids ==
  ASSUME TypeOK, NEW r \in Requests, CommitDecision(r) \/ SweepOffers(r),
         NEW o \in Offers
  PROVE  /\ UNCHANGED <<load, trip>>
         /\ offer'[o].load = offer[o].load
         /\ isOfferOpen(o)' => isOfferOpen(o) /\ offer'[o] = offer[o]
<1>1. offer[o] \in OfferRow
  BY DEF TypeOK
<1>2. CASE CommitDecision(r)
  BY <1>1, <1>2 DEF CommitDecision, isOfferOpen, OPEN_OFFER_STATUSES, OfferRow, TypeOK
<1>3. CASE SweepOffers(r)
  BY <1>1, <1>3 DEF SweepOffers, isOfferOpen, OPEN_OFFER_STATUSES, OfferRow
<1> QED BY <1>2, <1>3

LEMMA EndStep ==
  ASSUME OneAtATime, TypeOK, SerialInv, Next, NEW r \in Requests,
         CommitDecision(r) \/ SweepOffers(r)
  PROVE  SerialInv'
<1>1. \E q : req' = [req EXCEPT ![r] = q] /\ StillTrue(q)'
  <2>1. CASE CommitDecision(r)
    BY <2>1, IdleIsTrue DEF CommitDecision
  <2>2. CASE SweepOffers(r)
    <3>1. req[r] \in [op: {"sweep", "swept", "list"}, at: Nat, loads: SUBSET Loads]
      BY <2>2 DEF SweepOffers, TypeOK, Request, Idle
    <3>2. StillTrue([req[r] EXCEPT !.op = "list"])'
      BY <3>1 DEF StillTrue
    <3> QED BY <2>2, <3>2 DEF SweepOffers
  <2> QED BY <2>1, <2>2
<1>2. UNCHANGED <<load, trip>>
  <2>1. CASE CommitDecision(r)
    BY <2>1 DEF CommitDecision
  <2>2. CASE SweepOffers(r)
    BY <2>2 DEF SweepOffers
  <2> QED BY <2>1, <2>2
<1>3. BidsAreOnLiveLoads'
  BY <1>2, EndedBids DEF SerialInv, Tables, BidsAreOnLiveLoads
<1>4. OnlyAwardsHaveWinners' /\ TripsAreAwards' /\ AwardedOnce'
  BY <1>2, AwardsStay DEF SerialInv
<1>5. CarriersNameLoads' /\ \A s \in Requests : StillTrue(req[s])'
  BY <1>1, CarriersStay, AloneInFlight DEF SerialInv, Tables
<1> QED BY <1>3, <1>4, <1>5 DEF SerialInv, Tables

\* The loads that a sweep of the loads expires were open.
LEMMA SweptLoads ==
  ASSUME TypeOK, NEW r \in Requests, SweepLoads(r), NEW l \in Loads
  PROVE  \/ load'[l] = load[l]
         \/ /\ load[l].status \in OPEN_LOAD_STATUSES /\ load'[l].status = "EXPIRED"
            /\ load'[l].awarded = load[l].awarded
BY DEF SweepLoads, Sweepable, TypeOK, LoadRow

LEMMA SweepStep ==
  ASSUME OneAtATime, TypeOK, SerialInv, Next, NEW r \in Requests, SweepLoads(r)
  PROVE  SerialInv'
<1>1. UNCHANGED <<offer, trip>> /\ req' = [req EXCEPT ![r] = [req[r] EXCEPT !.op = "swept"]]
  BY DEF SweepLoads, TypeOK
<1>2. StillTrue([req[r] EXCEPT !.op = "swept"])'
  <2>1. req[r] \in [op: {"sweep", "swept", "list"}, at: Nat, loads: SUBSET Loads]
    BY DEF SweepLoads, TypeOK, Request, Idle
  <2> QED BY <2>1 DEF StillTrue
<1>3. BidsAreOnLiveLoads'
  BY <1>1, SweptLoads DEF SerialInv, Tables, BidsAreOnLiveLoads, isOfferOpen
<1>4. OnlyAwardsHaveWinners' /\ TripsAreAwards' /\ AwardedOnce'
  BY <1>1, AwardsStay, SweptLoads DEF SerialInv, OPEN_LOAD_STATUSES
<1>5. CarriersNameLoads' /\ \A s \in Requests : StillTrue(req[s])'
  BY <1>1, <1>2, CarriersStay, AloneInFlight DEF SerialInv, Tables
<1> QED BY <1>3, <1>4, <1>5 DEF SerialInv, Tables

LEMMA StepSerial ==
  ASSUME OneAtATime, TypeOK, SerialInv, Next
  PROVE  SerialInv'
<1>1. CASE Tick
  BY <1>1, TablesStay, SnapshotsStay DEF Tick, SerialInv
<1>2. CASE \E r \in Requests :
              \/ \E l \in Loads : ReadLoadToAward(r, l)
              \/ \E w \in Offers : PlanAward(r, w)
              \/ \E l \in Loads : ReadLoadToCancel(r, l)
              \/ \E l \in Loads, c \in Principals : ReadLoadToOffer(r, l, c)
              \/ \E o \in Offers, p \in Principals : ReadOfferToDecide(r, o, p)
              \/ \E ls \in SUBSET Loads : BeginSweep(r, ls)
              \/ EndRequest(r)
  BY <1>2, ReadsAreTrue
<1> QED
  BY <1>1, <1>2, StepCases, PostStep, AwardStep, CancelStep, OfferStep, CounterStep, EndStep,
     SweepStep

-----------------------------------------------------------------------------
(* The pages: their sweep and their answer are steps of the marketplace.   *)

Views == {"none", "load", "mine", "loadSent", "mineSent"}
PageTypes == page \in [Requests -> [view: Views, at: Nat, open: SUBSET Offers]]

\* The open offers of the loads a swept request lists expire after its sweep, and
\* a page of loads is the page of that sweep.
PagesAreSwept ==
  \A r \in Requests :
    /\ req[r].op = "list" =>
         \A o \in Offers : isOfferOpen(o) /\ offer[o].load \in req[r].loads
                             => offer[o].expires > req[r].at
    /\ page[r].view = "load" =>
         req[r] = Idle \/ (req[r].op \in {"sweep", "swept", "list"} /\ req[r].at = page[r].at)
    /\ page[r].view = "loadSent" => req[r] = Idle

PageInv == PageTypes /\ PagesAreSwept /\ LoadPageIsSwept

SerialPageInv == TypeOK /\ SerialInv /\ PageInv

\* Every step of the pages is a step of the marketplace.
LEMMA PageStepIsStep ==
  ASSUME CarriersNameLoads, TypeOK, PageNext
  PROVE  Next
<1>1. ASSUME NEW r \in Requests, NEW ls \in SUBSET Loads, OpenLoadPage(r, ls)
      PROVE  Next
  BY <1>1 DEF OpenLoadPage, Next
<1>2. ASSUME NEW r \in Requests, NEW c \in Principals, OpenMyOffersPage(r, c)
      PROVE  Next
  <2> DEFINE ls == {offer[o].load : o \in {x \in Offers : offer[x].carrier = c}}
  <2>1. ls \in SUBSET Loads
    BY NoneAssumption DEF CarriersNameLoads
  <2>2. BeginSweep(r, ls)
    BY <1>2 DEF OpenMyOffersPage
  <2> HIDE DEF ls
  <2> QED BY <2>1, <2>2 DEF Next
<1>3. ASSUME NEW r \in Requests, AnswerPage(r)
      PROVE  Next
  <2>1. req[r] # Idle
    BY <1>3 DEF AnswerPage, Idle
  <2> QED BY <1>3, <2>1 DEF AnswerPage, EndRequest, Next
<1> QED BY <1>1, <1>2, <1>3 DEF PageNext, OtherStep

\* What was open and swept stays so while nobody writes an offer.
LEMMA SweptOffers ==
  ASSUME OneAtATime, TypeOK, SerialPageInv, Next, NEW r \in Requests, req'[r].op = "list",
         NEW o \in Offers, isOfferOpen(o)', offer'[o].load \in req'[r].loads
  PROVE  offer'[o].expires > req'[r].at
<1> USE DEF TypeOK
<1>1. CASE SweepOffers(r)
  <2>1. req[r] \in [op: {"sweep", "swept", "list"}, at: Nat, loads: SUBSET Loads]
    BY <1>1 DEF SweepOffers, Request, Idle
  <2>2. req'[r].at = req[r].at /\ req'[r].loads = req[r].loads
    BY <1>1, <2>1 DEF SweepOffers
  <2>3. isOfferOpen(o) /\ offer'[o] = offer[o]
    BY <1>1, EndedBids
  <2>4. ~(/\ offer[o].load \in req[r].loads
          /\ Sweepable(offer[o].status, OPEN_OFFER_STATUSES, offer[o].expires, req[r].at))
    BY <1>1, <2>3 DEF SweepOffers, isOfferOpen, OPEN_OFFER_STATUSES, OfferRow
  <2>5. offer[o].expires \in Nat /\ req[r].at \in Nat
    BY <2>1 DEF OfferRow
  <2> QED BY <2>2, <2>3, <2>4, <2>5 DEF Sweepable, isExpired, isOfferOpen
<1>2. CASE UNCHANGED <<req, offer>>
  BY <1>2 DEF SerialPageInv, PageInv, PagesAreSwept, isOfferOpen
<1> QED
  <2>1. ASSUME NEW s \in Requests, NEW q, q.op # "list", req' = [req EXCEPT ![s] = q]
        PROVE  FALSE
    BY <2>1 DEF OneAtATime
  <2>2. Idle.op # "list"
    BY DEF Idle
  <2>3. ASSUME NEW s \in Requests, SweepLoads(s)
        PROVE  FALSE
    <3>1. req[s] \in [op: {"sweep", "swept", "list"}, at: Nat, loads: SUBSET Loads]
      BY <2>3 DEF SweepLoads, Request, Idle
    <3> QED BY <2>3, <3>1 DEF SweepLoads, OneAtATime
  <2>4. ASSUME NEW s \in Requests, NEW x \in Offers, NEW p \in Principals,
               ReadOfferToDecide(s, x, p)
        PROVE  FALSE
    <3>1. PICK op \in {"counter", "decline", "withdraw"} :
            req' = [req EXCEPT ![s] = [op |-> op, offer |-> x]]
      BY <2>4 DEF ReadOfferToDecide
    <3> QED BY <2>1, <3>1
  <2>5. ASSUME NEW s \in Requests,
               \/ \E l \in Loads : ReadLoadToAward(s, l)
               \/ \E w \in Offers : PlanAward(s, w)
               \/ \E l \in Loads : ReadLoadToCancel(s, l)
               \/ \E l \in Loads, c \in Principals : ReadLoadToOffer(s, l, c)
               \/ \E ls \in SUBSET Loads : BeginSweep(s, ls)
        PROVE  FALSE
    BY <2>1, <2>5 DEF ReadLoadToAward, PlanAward, ReadLoadToCancel, ReadLoadToOffer, BeginSweep
  <2>6. ASSUME NEW s \in Requests, req' = [req EXCEPT ![s] = Idle]
        PROVE  FALSE
    BY <2>1, <2>2, <2>6
  <2>7. \A s \in Requests : s = r
    BY DEF OneAtATime
  <2> QED
    BY <1>1, <1>2, <2>3, <2>4, <2>5, <2>6, <2>7, StepCases
       DEF Tick, PostLoad, CommitAward, CommitCancel, CommitOffer, CommitCounter,
           CommitDecision, EndRequest

\* A request that sweeps goes on with the time it took, or ends.
LEMMA SweepsGoOn ==
  ASSUME OneAtATime, TypeOK, Next, NEW r \in Requests, req[r].op \in {"sweep", "swept", "list"}
  PROVE  req'[r] = Idle \/ (req'[r].op \in {"sweep", "swept", "list"} /\ req'[r].at = req[r].at)
<1>1. req[r] \in [op: {"sweep", "swept", "list"}, at: Nat, loads: SUBSET Loads] /\ req[r] # Idle
  BY DEF TypeOK, Request, Idle
<1>2. \A s \in Requests : s = r
  BY DEF OneAtATime
<1>3. CASE SweepLoads(r) \/ SweepOffers(r)
  BY <1>1, <1>3 DEF SweepLoads, SweepOffers, TypeOK
<1>4. CASE req' = [req EXCEPT ![r] = Idle] \/ UNCHANGED req
  BY <1>4 DEF TypeOK
<1> QED
  BY <1>1, <1>2, <1>3, <1>4, StepCases
     DEF Tick, PostLoad, ReadLoadToAward, PlanAward, CommitAward, ReadLoadToCancel, CommitCancel,
         ReadLoadToOffer, CommitOffer, ReadOfferToDecide, CommitCounter, CommitDecision,
         BeginSweep, EndRequest

LEMMA StepPage ==
  ASSUME OneAtATime, SerialPageInv, PageNext
  PROVE  PageInv'
<1> USE DEF SerialPageInv, PageInv
<1>1. Next /\ TypeOK
  BY PageStepIsStep DEF SerialInv, Tables
<1>2. \A r \in Requests : req'[r].op = "list" =>
        \A o \in Offers : isOfferOpen(o)' /\ offer'[o].load \in req'[r].loads
                            => offer'[o].expires > req'[r].at
  BY <1>1, SweptOffers
<1>3. ASSUME NEW r \in Requests, NEW ls \in SUBSET Loads, OpenLoadPage(r, ls)
      PROVE  PageInv'
  <2>1. /\ page' = [page EXCEPT ![r] = [view |-> "load", at |-> now, open |-> {}]]
        /\ req' = [req EXCEPT ![r] = [op |-> "sweep", at |-> now, loads |-> ls]]
        /\ UNCHANGED offer
    BY <1>3 DEF OpenLoadPage, BeginSweep
  <2>2. PageTypes'
    BY <1>1, <2>1 DEF PageTypes, Views, TypeOK
  <2>3. PagesAreSwept' /\ LoadPageIsSwept'
    BY <1>1, <1>2, <2>1 DEF PagesAreSwept, LoadPageIsSwept, PageTypes, OneAtATime, TypeOK
  <2> QED BY <2>2, <2>3
<1>4. ASSUME NEW r \in Requests, NEW c \in Principals, OpenMyOffersPage(r, c)
      PROVE  PageInv'
  <2> DEFINE mine == {o \in Offers : offer[o].carrier = c}
             open == {o \in mine : isOfferOpen(o)}
             ls == {offer[o].load : o \in mine}
  <2>1. /\ page' = [page EXCEPT ![r] = [view |-> "mine", at |-> now, open |-> open]]
        /\ req' = [req EXCEPT ![r] = [op |-> "sweep", at |-> now, loads |-> ls]]
        /\ UNCHANGED offer /\ open \subseteq Offers
    BY <1>4 DEF OpenMyOffersPage, BeginSweep
  <2> HIDE DEF mine, open, ls
  <2>2. PageTypes'
    BY <1>1, <2>1 DEF PageTypes, Views, TypeOK
  <2>3. PagesAreSwept' /\ LoadPageIsSwept'
    BY <1>1, <1>2, <2>1 DEF PagesAreSwept, LoadPageIsSwept, PageTypes, OneAtATime, TypeOK
  <2> QED BY <2>2, <2>3
<1>5. ASSUME NEW r \in Requests, AnswerPage(r)
      PROVE  PageInv'
  <2> DEFINE row == [view |-> IF page[r].view = "load" THEN "loadSent" ELSE "mineSent",
                     at |-> page[r].at,
                     open |-> IF page[r].view = "load" THEN ListedOpen(req[r].loads)
                                                       ELSE page[r].open]
  <2>1. page[r] \in [view: Views, at: Nat, open: SUBSET Offers]
    BY DEF PageTypes
  <2>2. page' = [page EXCEPT ![r] = row] /\ req' = [req EXCEPT ![r] = Idle] /\ UNCHANGED offer
    <3>1. page' = [page EXCEPT ![r] = [page[r] EXCEPT
                     !.view = IF page[r].view = "load" THEN "loadSent" ELSE "mineSent",
                     !.open = IF page[r].view = "load" THEN ListedOpen(req[r].loads)
                                                       ELSE page[r].open]]
      BY <1>5 DEF AnswerPage, PageTypes
    <3> QED BY <1>5, <2>1, <3>1 DEF AnswerPage
  <2>3. ListedOpen(req[r].loads) \subseteq Offers
    BY DEF ListedOpen, OpenOffersOf, OffersOf
  <2>4. row \in [view: Views, at: Nat, open: SUBSET Offers]
    BY <2>1, <2>3 DEF Views
  <2>5. row.view = "loadSent" => \A o \in row.open : offer[o].expires > row.at
    <3>1. page[r].view = "load" => req[r].at = page[r].at /\ req[r].op = "list"
      BY <1>5 DEF AnswerPage, PagesAreSwept, Idle
    <3> QED BY <3>1 DEF PagesAreSwept, ListedOpen, OpenOffersOf, OffersOf
  <2> HIDE DEF row
  <2>6. PageTypes'
    BY <2>2, <2>4 DEF PageTypes
  <2>7. row.view # "load" /\ Idle.op # "list"
    BY DEF row, Idle
  <2>8. PagesAreSwept' /\ LoadPageIsSwept'
    BY <1>1, <2>2, <2>5, <2>7 DEF PagesAreSwept, LoadPageIsSwept, PageTypes, OneAtATime, TypeOK
  <2> QED BY <2>6, <2>8
<1>6. CASE OtherStep
  <2>1. page' = [r \in Requests |-> IF req[r] = Idle THEN NoPage ELSE page[r]]
    BY <1>6 DEF OtherStep
  <2>2. PageTypes'
    BY <2>1 DEF PageTypes, Views, NoPage
  <2>3. LoadPageIsSwept'
    BY <2>1 DEF LoadPageIsSwept, PagesAreSwept, NoPage
  <2>4. ASSUME NEW r \in Requests, page'[r].view = "load"
        PROVE  /\ req[r].op \in {"sweep", "swept", "list"} /\ req[r].at = page'[r].at
               /\ req[r] # Idle
    BY <2>1, <2>4 DEF PagesAreSwept, NoPage
  <2>5. ASSUME NEW r \in Requests, req[r].op \in {"sweep", "swept", "list"}
        PROVE  req'[r] = Idle \/ (/\ req'[r].op \in {"sweep", "swept", "list"}
                                  /\ req'[r].at = req[r].at)
    BY <1>1, <2>5, SweepsGoOn
  <2> QED BY <1>2, <2>1, <2>2, <2>3, <2>4, <2>5 DEF PagesAreSwept, NoPage
<1> QED BY <1>3, <1>4, <1>5, <1>6 DEF PageNext

LEMMA SerialPages ==
  ASSUME OneAtATime
  PROVE  PageSpec => []SerialPageInv
<1>1. PageInit => SerialPageInv
  <2>1. PageInit => PageInv
    BY DEF PageInit, Init, PageInv, PageTypes, Views, PagesAreSwept, LoadPageIsSwept, NoPage, Idle
  <2> QED BY <2>1, InitTypeOK, InitSerial DEF PageInit, SerialPageInv
<1>2. SerialPageInv /\ PageNext => SerialPageInv'
  <2> SUFFICES ASSUME SerialPageInv, PageNext PROVE SerialPageInv'
    OBVIOUS
  <2>1. TypeOK /\ SerialInv /\ Next
    BY PageStepIsStep DEF SerialPageInv, SerialInv, Tables
  <2> QED BY <2>1, StepTypeOK, StepSerial, StepPage DEF SerialPageInv
<1>3. SerialPageInv /\ UNCHANGED <<vars, page>> => SerialPageInv'
  <2> SUFFICES ASSUME SerialPageInv, UNCHANGED <<vars, page>> PROVE SerialPageInv'
    OBVIOUS
  <2>1. UNCHANGED <<now, load, offer, trip, req, page>>
    BY DEF vars
  <2>2. TypeOK'
    BY <2>1 DEF SerialPageInv, TypeOK
  <2>3. SerialInv'
    BY <2>1, TablesStay, SnapshotsStay DEF SerialPageInv, SerialInv
  <2>4. PageInv'
    BY <2>1 DEF SerialPageInv, PageInv, PageTypes, PagesAreSwept, LoadPageIsSwept, isOfferOpen
  <2> QED BY <2>2, <2>3, <2>4 DEF SerialPageInv
<1> QED BY <1>1, <1>2, <1>3, PTL DEF PageSpec

\* "Awarded (once)": served one request at a time, no load ever has two trips.
THEOREM OneAwardWhenSerial ==
  ASSUME OneAtATime
  PROVE  PageSpec => []AwardedOnce
<1>1. SerialPageInv => AwardedOnce
  BY DEF SerialPageInv, SerialInv, Tables
<1> QED BY <1>1, SerialPages, PTL

\* A page that lists loads swept first: nothing it shows as open is past its
\* deadline, if nobody bids between the sweep and the list.
THEOREM LoadPagesAreSwept ==
  ASSUME OneAtATime
  PROVE  PageSpec => []LoadPageIsSwept
<1>1. SerialPageInv => LoadPageIsSwept
  BY DEF SerialPageInv, PageInv
<1> QED BY <1>1, SerialPages, PTL

-----------------------------------------------------------------------------
(* The auction behind the rows.                                            *)

\* A step that writes neither table does nothing in the auction.
LEMMA AuctionStays ==
  ASSUME UNCHANGED <<load, offer>>
  PROVE  UNCHANGED <<stage, live, awardedTo>>
BY DEF stage, live, awardedTo, OpenOffersOf, OffersOf, isOfferOpen

\* What each status of a load row is in the auction.
LEMMA Stages ==
  /\ StageOf("ABSENT") = "none" /\ StageOf("AWARDED") = "awarded"
  /\ StageOf("CANCELLED") = "cancelled" /\ StageOf("EXPIRED") = "expired"
  /\ \A s \in OPEN_LOAD_STATUSES : StageOf(s) = "open"
BY DEF StageOf, OPEN_LOAD_STATUSES

LEMMA AuctionInit == Init => Auction!Init
BY Stages DEF Init, Auction!Init, stage, live, awardedTo, OpenOffersOf, OffersOf, isOfferOpen,
              OPEN_OFFER_STATUSES, NoLoad, NoOffer

LEMMA AuctionPost ==
  ASSUME TypeOK, SerialInv, NEW l \in Loads, NEW p \in Principals, NEW d \in Deadlines,
         PostLoad(l, p, d)
  PROVE  Auction!Next
<1>1. /\ load[l].status = "ABSENT" /\ load'[l].status = "POSTED" /\ load'[l].awarded = None
      /\ \A k \in Loads \ {l} : load'[k] = load[k]
      /\ UNCHANGED offer
  BY DEF PostLoad, NoLoad, TypeOK
<1>2. load[l].awarded = None
  BY <1>1 DEF SerialInv, Tables, OnlyAwardsHaveWinners
<1>3. stage[l] = "none" /\ stage' = [stage EXCEPT ![l] = "open"]
  BY <1>1, Stages DEF stage, OPEN_LOAD_STATUSES
<1>4. UNCHANGED live
  BY <1>1 DEF live, OpenOffersOf, OffersOf, isOfferOpen
<1>5. UNCHANGED awardedTo
  BY <1>1, <1>2 DEF awardedTo
<1> QED BY <1>3, <1>4, <1>5 DEF Auction!Next, Auction!Post

LEMMA AuctionBid ==
  ASSUME TypeOK, SerialInv, NEW r \in Requests, NEW o \in Offers, NEW d \in Deadlines,
         CommitOffer(r, o, d)
  PROVE  Auction!Next
<1> DEFINE l == req[r].load
<1>1. l \in Loads /\ isLoadOpen(l) /\ req[r].seen = load[l].status
  BY DEF CommitOffer, TypeOK, Request, Idle, SerialInv, StillTrue
<1>2. /\ load' = IF load[l].status = "POSTED" THEN [load EXCEPT ![l].status = "OFFERS"] ELSE load
      /\ offer'[o].load = l /\ offer'[o].status = "SENT"
      /\ \A x \in Offers \ {o} : offer'[x] = offer[x]
      /\ offer[o].status = "ABSENT"
  BY <1>1 DEF CommitOffer, TypeOK
<1> HIDE DEF l
<1>3. /\ load'[l].status = "OFFERS" /\ load[l].status \in OPEN_LOAD_STATUSES
      /\ load'[l].awarded = load[l].awarded
      /\ \A k \in Loads \ {l} : load'[k] = load[k]
  BY <1>1, <1>2 DEF isLoadOpen, OPEN_LOAD_STATUSES, TypeOK, LoadRow
<1>4. stage[l] = "open" /\ UNCHANGED <<stage, awardedTo>>
  BY <1>1, <1>3, Stages DEF stage, awardedTo, OPEN_LOAD_STATUSES
<1>5. o \notin UNION {live[k] : k \in Loads}
  BY <1>2 DEF live, OpenOffersOf, OffersOf, isOfferOpen, OPEN_OFFER_STATUSES
<1>6. live' = [live EXCEPT ![l] = live[l] \cup {o}]
  <2>1. ASSUME NEW k \in Loads
        PROVE  OpenOffersOf(k)' = IF k = l THEN OpenOffersOf(k) \cup {o} ELSE OpenOffersOf(k)
    BY <1>2 DEF OpenOffersOf, OffersOf, isOfferOpen, OPEN_OFFER_STATUSES
  <2> QED BY <1>1, <2>1 DEF live
<1> QED BY <1>1, <1>4, <1>5, <1>6 DEF Auction!Next, Auction!Bid

LEMMA AuctionCounter ==
  ASSUME TypeOK, SerialInv, NEW r \in Requests, NEW o \in Offers, NEW d \in Deadlines,
         CommitCounter(r, o, d)
  PROVE  Auction!Next
<1> DEFINE p == req[r].offer
           l == offer[p].load
<1>1. /\ p \in Offers \ {o} /\ isOfferOpen(p) /\ ~isOfferOpen(o)
      /\ offer'[o].load = l /\ \A x \in Offers \ {o, p} : offer'[x] = offer[x]
      /\ offer'[o].status \in OPEN_OFFER_STATUSES /\ offer'[p].status \notin OPEN_OFFER_STATUSES
  BY CounterRows DEF isOfferOpen
<1> HIDE DEF p
<1>2. l \in Loads
  BY <1>1 DEF SerialInv, Tables, BidsAreOnLiveLoads
<1>3. UNCHANGED <<stage, awardedTo>>
  BY DEF CommitCounter, stage, awardedTo
<1>4. p \in live[l]
  BY <1>1, <1>2 DEF live, OpenOffersOf, OffersOf
<1>5. o \notin UNION {live[k] : k \in Loads}
  BY <1>1 DEF live, OpenOffersOf
<1>6. live' = [live EXCEPT ![l] = (live[l] \ {p}) \cup {o}]
  <2>1. ASSUME NEW k \in Loads
        PROVE  OpenOffersOf(k)' = IF k = l THEN (OpenOffersOf(k) \ {p}) \cup {o}
                                           ELSE OpenOffersOf(k)
    BY <1>1 DEF OpenOffersOf, OffersOf, isOfferOpen
  <2> HIDE DEF l
  <2> QED BY <1>2, <2>1 DEF live
<1> QED BY <1>1, <1>2, <1>3, <1>4, <1>5, <1>6 DEF Auction!Next, Auction!Counter

LEMMA AuctionAward ==
  ASSUME TypeOK, SerialInv, NEW r \in Requests, NEW t \in Trips, CommitAward(r, t)
  PROVE  Auction!Next
<1> DEFINE l == req[r].load
           w == req[r].offer
<1>1. l \in Loads /\ w \in Offers
  BY DEF CommitAward, TypeOK, Request, Idle
<1>2. isLoadOpen(l) /\ isOfferOpen(w) /\ offer[w].load = l /\ req[r].declined = DeclinedIds(l, w)
  BY DEF CommitAward, SerialInv, StillTrue
<1>3. /\ load' = [load EXCEPT ![l] = AwardedLoad(load[l], w, t)]
      /\ offer' = [o \in Offers |->
           IF o = w THEN [offer[o] EXCEPT !.status = "ACCEPTED"]
           ELSE IF o \in DeclinedIds(l, w)
                THEN [offer[o] EXCEPT !.status = "DECLINED"]
                ELSE offer[o]]
  BY <1>2 DEF CommitAward
<1> HIDE DEF l, w
<1>4. /\ load'[l].status = "AWARDED" /\ load'[l].awarded = w
      /\ \A k \in Loads \ {l} : load'[k] = load[k]
  BY <1>1, <1>3 DEF AwardedLoad, TypeOK, LoadRow
<1>5. stage[l] = "open" /\ stage' = [stage EXCEPT ![l] = "awarded"]
  BY <1>1, <1>2, <1>4, Stages DEF stage, isLoadOpen
<1>6. w \in live[l]
  BY <1>1, <1>2 DEF live, OpenOffersOf, OffersOf
<1>7. awardedTo' = [awardedTo EXCEPT ![l] = w]
  BY <1>1, <1>4 DEF awardedTo
<1>8. live' = [live EXCEPT ![l] = {}]
  <2>1. ASSUME NEW o \in Offers
        PROVE  /\ offer'[o].load = offer[o].load
               /\ offer'[o].status \in OPEN_OFFER_STATUSES
                    <=> offer[o].status \in OPEN_OFFER_STATUSES /\ offer[o].load # l
    <3>1. offer[o] \in OfferRow
      BY DEF TypeOK
    <3> QED BY <1>2, <1>3, <3>1 DEF DeclinedIds, OpenOffersOf, OffersOf, isOfferOpen, OfferRow,
                             OPEN_OFFER_STATUSES
  <2>2. ASSUME NEW k \in Loads
        PROVE  OpenOffersOf(k)' = IF k = l THEN {} ELSE OpenOffersOf(k)
    BY <2>1 DEF OpenOffersOf, OffersOf, isOfferOpen
  <2> QED BY <1>1, <2>2 DEF live
<1> QED BY <1>1, <1>5, <1>6, <1>7, <1>8 DEF Auction!Next, Auction!Award

LEMMA AuctionCancel ==
  ASSUME TypeOK, SerialInv, NEW r \in Requests, CommitCancel(r)
  PROVE  Auction!Next
<1> DEFINE l == req[r].load
<1>1. l \in Loads /\ isLoadOpen(l)
  BY DEF CommitCancel, TypeOK, Request, Idle, SerialInv, StillTrue
<1>2. /\ load' = [load EXCEPT ![l].status = "CANCELLED"]
      /\ offer' = [o \in Offers |-> IF o \in OpenOffersOf(l)
                                    THEN [offer[o] EXCEPT !.status = "DECLINED"]
                                    ELSE offer[o]]
  BY DEF CommitCancel
<1> HIDE DEF l
<1>3. /\ load'[l].status = "CANCELLED" /\ load'[l].awarded = load[l].awarded
      /\ \A k \in Loads \ {l} : load'[k] = load[k]
  BY <1>1, <1>2 DEF TypeOK, LoadRow
<1>4. /\ stage[l] = "open" /\ stage' = [stage EXCEPT ![l] = "cancelled"] /\ UNCHANGED awardedTo
  BY <1>1, <1>3, Stages DEF stage, awardedTo, isLoadOpen
<1>5. live' = [live EXCEPT ![l] = {}]
  <2>1. ASSUME NEW o \in Offers
        PROVE  /\ offer'[o].load = offer[o].load
               /\ offer'[o].status \in OPEN_OFFER_STATUSES
                    <=> offer[o].status \in OPEN_OFFER_STATUSES /\ offer[o].load # l
    <3>1. offer[o] \in OfferRow
      BY DEF TypeOK
    <3> QED BY <1>2, <3>1 DEF OpenOffersOf, OffersOf, isOfferOpen, OfferRow, OPEN_OFFER_STATUSES
  <2>2. ASSUME NEW k \in Loads
        PROVE  OpenOffersOf(k)' = IF k = l THEN {} ELSE OpenOffersOf(k)
    BY <2>1 DEF OpenOffersOf, OffersOf, isOfferOpen
  <2> QED BY <1>1, <2>2 DEF live
<1> QED BY <1>1, <1>4, <1>5 DEF Auction!Next, Auction!Cancel

LEMMA AuctionSweep ==
  ASSUME TypeOK, NEW r \in Requests, SweepLoads(r)
  PROVE  Auction!Next
<1> DEFINE ls == {l \in Loads : load'[l] # load[l]}
<1>1. \A l \in ls : stage[l] = "open"
  BY SweptLoads, Stages DEF stage
<1>2. stage' = [l \in Loads |-> IF l \in ls THEN "expired" ELSE stage[l]]
  BY SweptLoads, Stages DEF stage
<1>3. UNCHANGED awardedTo
  BY SweptLoads DEF awardedTo
<1>4. UNCHANGED live
  BY DEF SweepLoads, live, OpenOffersOf, OffersOf, isOfferOpen
<1> QED BY <1>1, <1>2, <1>3, <1>4 DEF Auction!Next, Auction!ExpireLoads

LEMMA AuctionEnd ==
  ASSUME TypeOK, NEW r \in Requests, CommitDecision(r) \/ SweepOffers(r)
  PROVE  Auction!Next
<1> DEFINE bs == {o \in Offers : offer'[o].status \notin OPEN_OFFER_STATUSES}
<1>1. ASSUME NEW o \in Offers
      PROVE  /\ offer'[o].load = offer[o].load
             /\ offer'[o].status \in OPEN_OFFER_STATUSES => offer[o].status \in OPEN_OFFER_STATUSES
  BY EndedBids DEF isOfferOpen
<1>2. UNCHANGED <<stage, awardedTo>>
  <2>1. CASE CommitDecision(r)
    BY <2>1 DEF CommitDecision, stage, awardedTo
  <2>2. CASE SweepOffers(r)
    BY <2>2 DEF SweepOffers, stage, awardedTo
  <2> QED BY <2>1, <2>2
<1>3. ASSUME NEW l \in Loads
      PROVE  OpenOffersOf(l)' = OpenOffersOf(l) \ bs
  BY <1>1 DEF OpenOffersOf, OffersOf, isOfferOpen
<1>4. live' = [l \in Loads |-> live[l] \ bs]
  <2> HIDE DEF bs
  <2> QED BY <1>3 DEF live
<1> QED BY <1>2, <1>4 DEF Auction!Next, Auction!EndBids

LEMMA AuctionStep ==
  ASSUME OneAtATime, TypeOK, SerialInv, Next
  PROVE  Auction!Next \/ UNCHANGED <<stage, live, awardedTo>>
<1>1. ASSUME ~UNCHANGED <<load, offer>>
      PROVE  \/ \E l \in Loads, p \in Principals, d \in Deadlines : PostLoad(l, p, d)
             \/ \E r \in Requests, t \in Trips : CommitAward(r, t)
             \/ \E r \in Requests : CommitCancel(r)
             \/ \E r \in Requests, o \in Offers, d \in Deadlines : CommitOffer(r, o, d)
             \/ \E r \in Requests, o \in Offers, d \in Deadlines : CommitCounter(r, o, d)
             \/ \E r \in Requests : CommitDecision(r) \/ SweepOffers(r)
             \/ \E r \in Requests : SweepLoads(r)
  BY <1>1, StepCases
     DEF Tick, ReadLoadToAward, PlanAward, ReadLoadToCancel, ReadLoadToOffer,
         ReadOfferToDecide, BeginSweep, EndRequest
<1> QED
  BY <1>1, AuctionStays, AuctionPost, AuctionAward, AuctionCancel, AuctionBid, AuctionCounter,
     AuctionEnd, AuctionSweep

\* Served one request at a time, the routes run the auction: the initial tables
\* are its initial state, and every step is one of its steps or none.
THEOREM RoutesRunTheAuction ==
  ASSUME OneAtATime
  PROVE  PageSpec => ImplementsAuction
<1>1. PageInit => Auction!Init
  BY AuctionInit DEF PageInit
<1>2. SerialPageInv /\ [PageNext]_<<vars, page>> => [Auction!Next]_<<stage, live, awardedTo>>
  <2> SUFFICES ASSUME SerialPageInv, [PageNext]_<<vars, page>>
               PROVE  Auction!Next \/ UNCHANGED <<stage, live, awardedTo>>
    OBVIOUS
  <2>1. CASE PageNext
    <3>1. TypeOK /\ SerialInv /\ Next
      BY <2>1, PageStepIsStep DEF SerialPageInv, SerialInv, Tables
    <3> QED BY <3>1, AuctionStep
  <2>2. CASE UNCHANGED <<vars, page>>
    BY <2>2, AuctionStays DEF vars
  <2> QED BY <2>1, <2>2
<1> QED BY <1>1, <1>2, SerialPages, PTL DEF PageSpec, ImplementsAuction, Auction!Spec

-----------------------------------------------------------------------------
(* What the marketplace's answers promise each other, for every set of     *)
(* rows: the feed against the filter, a saved search against the feed, the *)
(* order of a comparison, and the notices of an award.                     *)

\* The feed of GET /marketplace/loads, which asks the database, never shows a
\* load that filterLoads refuses.  (It leaves out some that filterLoads keeps.)
THEOREM FeedIsNeverWider ==
  ASSUME NEW loads, NEW filter, NEW org, NEW at
  PROVE  FeedIsNoWider(loads, filter, org, at)
<1> SUFFICES ASSUME NEW l \in FeedLoads(loads, filter, org, at)
             PROVE  l \in filterLoads(loads, filter)
  BY DEF FeedIsNoWider
<1>1. /\ l \in loads /\ laneMatches(l, filter) /\ equipmentFits(l, filter.equipment)
      /\ filter.readyFrom # Null =>
           filter.readyFrom \in Int /\ l.loadReadyAt # Null /\ l.loadReadyAt >= filter.readyFrom
      /\ filter.readyTo # Null =>
           filter.readyTo \in Int /\ l.loadReadyAt # Null /\ l.loadReadyAt <= filter.readyTo
  BY DEF FeedLoads
<1>2. Null \notin Int
  BY TextAssumption
<1>3. dateFits(l, filter)
  BY <1>1, <1>2 DEF dateFits
<1> QED BY <1>1, <1>3 DEF filterLoads

\* A saved search (solo-core.js) gives the feed (marketplace.js) the filter
\* that was typed: the two files drop the same fields.
THEOREM SavedSearchIsKept ==
  ASSUME NEW query
  PROVE  SearchIsKept(query)
<1> SUFFICES ASSUME Settled(Cut(query.origin, 100), 100),
                    Settled(Cut(query.destination, 100), 100)
             PROVE  parseMatchFilter(normalizeSearchFilter(query)) = parseMatchFilter(query)
  BY DEF SearchIsKept
<1> DEFINE saved == normalizeSearchFilter(query)
<1>1. /\ saved.origin = OrNull(Cut(query.origin, 100))
      /\ saved.destination = OrNull(Cut(query.destination, 100))
      /\ saved.readyFrom = query.readyFrom /\ saved.readyTo = query.readyTo
      /\ saved.equipment = IF query.equipment \in EQUIPMENT THEN query.equipment ELSE Null
  BY DEF normalizeSearchFilter
<1> HIDE DEF saved
<1>2. ASSUME NEW t, Settled(Cut(t, 100), 100)
      PROVE  OrNull(Cut(OrNull(Cut(t, 100)), 100)) = OrNull(Cut(t, 100))
  BY <1>2, TextAssumption DEF OrNull, Settled
<1>3. /\ OrNull(Cut(saved.origin, 100)) = OrNull(Cut(query.origin, 100))
      /\ OrNull(Cut(saved.destination, 100)) = OrNull(Cut(query.destination, 100))
  BY <1>1, <1>2
<1>4. Null \notin EQUIPMENT
  BY TextAssumption
<1>5. (IF saved.equipment \in EQUIPMENT THEN saved.equipment ELSE Null)
        = IF query.equipment \in EQUIPMENT THEN query.equipment ELSE Null
  BY <1>1, <1>4
<1> QED BY <1>1, <1>3, <1>5 DEF parseMatchFilter, saved

\* NULL, later and dearer than everything, orders prices and deliveries.
LEMMA BelowIsAnOrder ==
  ASSUME NEW a \in Int \cup {Null}, NEW b \in Int \cup {Null}, NEW c \in Int \cup {Null}
  PROVE  /\ a # b => (Below(a, b) <=> ~Below(b, a))
         /\ ~Below(a, a)
         /\ Below(a, b) /\ Below(b, c) => Below(a, c)
<1>1. Null \notin Int
  BY TextAssumption
<1> QED BY <1>1 DEF Below

\* The compare screen has one order: two rows of different offers come in one
\* way only, whatever is missing of their price or delivery, and the row that
\* leads it carries the flag of the cheapest.
THEOREM ComparisonOrder ==
  ASSUME NEW rows \in SUBSET [id : Int, priceEur : Int \cup {Null},
                              deliveryEtaAt : Int \cup {Null}],
         \A a, b \in rows : a # b => a.id # b.id
  PROVE  ComparisonIsAnOrder(rows)
<1>0. \A row \in rows : /\ row.id \in Int /\ row.priceEur \in Int \cup {Null}
                        /\ row.deliveryEtaAt \in Int \cup {Null}
  OBVIOUS
<1>1. ASSUME NEW a \in rows, NEW b \in rows, a # b
      PROVE  RowBefore(a, b) <=> ~RowBefore(b, a)
  <2>1. a.id # b.id
    BY <1>1
  <2>2. CASE a.priceEur # b.priceEur
    BY <1>0, <2>2, BelowIsAnOrder DEF RowBefore
  <2>3. CASE a.priceEur = b.priceEur /\ a.deliveryEtaAt # b.deliveryEtaAt
    BY <1>0, <2>3, BelowIsAnOrder DEF RowBefore
  <2>4. CASE a.priceEur = b.priceEur /\ a.deliveryEtaAt = b.deliveryEtaAt
    <3>1. a.id < b.id <=> ~(b.id < a.id)
      BY <1>0, <2>1
    <3>2. /\ ~Below(a.priceEur, b.priceEur) /\ ~Below(b.priceEur, a.priceEur)
          /\ ~Below(a.deliveryEtaAt, b.deliveryEtaAt)
          /\ ~Below(b.deliveryEtaAt, a.deliveryEtaAt)
      BY <1>0, <2>4, BelowIsAnOrder
    <3> QED BY <2>4, <3>1, <3>2 DEF RowBefore
  <2> QED BY <2>2, <2>3, <2>4
<1>2. ASSUME NEW a \in rows, NEW b \in rows, NEW c \in rows,
             RowBefore(a, b), RowBefore(b, c)
      PROVE  RowBefore(a, c)
  <2>1. CASE Below(a.priceEur, b.priceEur) \/ Below(b.priceEur, c.priceEur)
    <3>1. Below(a.priceEur, c.priceEur)
      BY <1>0, <1>2, <2>1, BelowIsAnOrder DEF RowBefore
    <3> QED BY <3>1 DEF RowBefore
  <2>2. CASE /\ ~Below(a.priceEur, b.priceEur) /\ ~Below(b.priceEur, c.priceEur)
             /\ Below(a.deliveryEtaAt, b.deliveryEtaAt) \/ Below(b.deliveryEtaAt, c.deliveryEtaAt)
    <3>1. a.priceEur = c.priceEur /\ Below(a.deliveryEtaAt, c.deliveryEtaAt)
      BY <1>0, <1>2, <2>2, BelowIsAnOrder DEF RowBefore
    <3> QED BY <3>1 DEF RowBefore
  <2>3. CASE /\ ~Below(a.priceEur, b.priceEur) /\ ~Below(b.priceEur, c.priceEur)
             /\ ~Below(a.deliveryEtaAt, b.deliveryEtaAt)
             /\ ~Below(b.deliveryEtaAt, c.deliveryEtaAt)
    BY <1>0, <1>2, <2>3 DEF RowBefore
  <2> QED BY <2>1, <2>2, <2>3
<1>3. ASSUME NEW row \in rows, \A other \in rows : row # other => RowBefore(row, other)
      PROVE  CompareRow(row, rows, Null).cheapest
  <2>1. \A other \in rows : ~Below(other.priceEur, row.priceEur)
    <3> TAKE other \in rows
    <3>1. CASE other = row
      BY <1>0, <3>1, BelowIsAnOrder
    <3>2. CASE other # row
      <4>1. RowBefore(row, other)
        BY <1>3, <3>2
      <4> QED BY <1>0, <4>1, BelowIsAnOrder DEF RowBefore
    <3> QED BY <3>1, <3>2
  <2>2. CompareRow(row, rows, Null).cheapest
          = (\A other \in rows : ~Below(other.priceEur, row.priceEur))
    BY Zenon DEF CompareRow
  <2> QED BY <2>1, <2>2
<1> QED BY <1>1, <1>2, <1>3 DEF ComparisonIsAnOrder

\* The notices of an award do not depend on its answer arriving: what it tells
\* the winner and each rival, carrierOutcomeNotifications reads again from the
\* rows the award left, the winner's with its trip.
THEOREM NoticesSurviveARefresh ==
  ASSUME NEW Ids, NEW Statuses, {"ACCEPTED", "DECLINED"} \subseteq Statuses,
         NEW offers \in SUBSET [id : Ids, status : Statuses],
         NEW posted \in [id : Ids, tripId : Ids \cup {Null}],
         NEW winner \in offers, NEW created \in Ids
  PROVE  NoticesAreReadBack(posted, offers, winner, created)
<1> DEFINE declined == {o \in offers \ {winner} : OfferOpen(o)}
           after == [posted EXCEPT !.tripId = created]
           left == AwardedOffers(offers, winner)
<1>1. after.id = posted.id /\ after.tripId = created
  OBVIOUS
<1>2. [winner EXCEPT !.status = "ACCEPTED"] \in left
  BY DEF AwardedOffers
<1>3. \A o \in declined : [o EXCEPT !.status = "DECLINED"] \in left
  BY DEF AwardedOffers
<1>4. \A o \in offers : /\ [o EXCEPT !.status = "ACCEPTED"].id = o.id
                        /\ [o EXCEPT !.status = "ACCEPTED"].status = "ACCEPTED"
                        /\ [o EXCEPT !.status = "DECLINED"].id = o.id
                        /\ [o EXCEPT !.status = "DECLINED"].status = "DECLINED"
  OBVIOUS
<1> HIDE DEF after, left
<1>5. Notice("carrier", "awarded", posted, winner, created)
        \in carrierOutcomeNotifications(left, after)
  <2>1. Notice("carrier", "awarded", posted, winner, created)
          = Notice("carrier", "awarded", after, [winner EXCEPT !.status = "ACCEPTED"], after.tripId)
    BY <1>1, <1>4 DEF Notice
  <2> QED BY <1>2, <1>4, <2>1 DEF carrierOutcomeNotifications
<1>6. \A o \in declined : Notice("carrier", "declined", posted, o, Null)
                            \in carrierOutcomeNotifications(left, after)
  <2> TAKE o \in declined
  <2>1. Notice("carrier", "declined", posted, o, Null)
          = Notice("carrier", "declined", after, [o EXCEPT !.status = "DECLINED"], Null)
    BY <1>1, <1>4 DEF Notice
  <2> QED BY <1>3, <1>4, <2>1 DEF carrierOutcomeNotifications
<1>7. \A n \in awardOutcomeNotifications(posted, winner, created, declined) :
        n.audience = "carrier" =>
          \/ n = Notice("carrier", "awarded", posted, winner, created)
          \/ \E o \in declined : n = Notice("carrier", "declined", posted, o, Null)
  BY DEF awardOutcomeNotifications, Notice
<1> QED BY <1>5, <1>6, <1>7 DEF NoticesAreReadBack, after, left

=============================================================================
