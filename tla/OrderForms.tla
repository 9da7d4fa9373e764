------------------------------ MODULE OrderForms ------------------------------
(***************************************************************************)
(* The rules an order passes, wherever it comes from: the wizard of the    *)
(* customer portal, the fleet's own form, a solo driver's quick job, the   *)
(* repetition of an older order, and the load posted for it.  A form is    *)
(* refused at the first conjunct it fails; which field the refusal names   *)
(* and in what words is left out.                                          *)
(*                                                                         *)
(* Free texts are opaque; Cut(t, n) is what a rule keeps of one, trimmed   *)
(* and cut to n characters.  The words of a fixed vocabulary are strings,  *)
(* "" when the field is empty.  Amounts are cents, dates are instants, and *)
(* Unreadable is anything that does not parse as the one or the other.     *)
(***************************************************************************)
EXTENDS Integers

CONSTANTS
  Empty,       \* the text with nothing in it
  Cut(_, _),
  Unreadable,
  Null         \* SQL NULL

EQUIPMENT == {"curtainsider", "reefer", "flatbed", "box", "tanker", "tail_lift", "adr", "container"}
PRICING_MODES == {"instant", "quotes", "budget"}
PAYERS == {"me", "consignee", "third_party"}
PAYMENT_METHODS == {"invoice", "card", "sepa", "pay_on_delivery"}
MarketplaceChoices == {"fleet", "solo", "auto", "recurring"}
BookableChoices == {"own_carrier", "off_platform"}
SUPPLY_CHOICE_IDS == MarketplaceChoices \cup BookableChoices
MAX_STOPS == 5
MAX_TEXT == 500
Route == 200    \* characters of an address, and of a cargo

ASSUME TextAssumption ==
  /\ \A n \in {60, 100, 120, Route, MAX_TEXT} : Cut(Empty, n) = Empty /\ Cut(Null, n) = Empty
  /\ Unreadable \notin Int /\ Null \notin Int /\ Null # Unreadable
  /\ Null \notin PRICING_MODES \cup EQUIPMENT \cup {""}

-----------------------------------------------------------------------------
(* The helpers of the rules.                                               *)

optionalNumber(v) == v = Null \/ v \in Nat
optionalInt(v) == v = Null \/ (v \in Nat /\ v % 100 = 0)
optionalDate(v) == v = Null \/ v \in Int
OrDefault(word, default) == IF word \in {"", Null} THEN default ELSE word
OrNull(t) == IF t = Empty THEN Null ELSE t
WordOrNull(word) == IF word = "" THEN Null ELSE word

\* A place to load and another one to unload, as they are stored.
RouteGiven(form) ==
  LET origin == Cut(form.origin, Route)
      destination == Cut(form.destination, Route)
  IN  origin # Empty /\ destination # Empty /\ origin # destination

\* Both ends of the window parse, and it does not end before it begins.
WindowOrdered(form) ==
  /\ optionalDate(form.loadReadyAt) /\ optionalDate(form.deliverByAt)
  /\ form.loadReadyAt # Null /\ form.deliverByAt # Null =>
       form.loadReadyAt <= form.deliverByAt

EquipmentKnown(form) == form.equipment \in EQUIPMENT \cup {"", Null}

isMarketplaceChoice(choice) == choice \in MarketplaceChoices
isBookableChoice(choice) == choice \in BookableChoices

-----------------------------------------------------------------------------
(* The wizard: customer-core.js, which the page and the server share.      *)

StopsGiven(form) ==
  /\ form.stops = Null \/ DOMAIN form.stops \subseteq 1 .. MAX_STOPS
  /\ form.stops # Null =>
       \A i \in DOMAIN form.stops : Cut(form.stops[i].address, Route) # Empty

BookingAccepted(form) ==
  /\ RouteGiven(form)
  /\ form.supplyChoice \in SUPPLY_CHOICE_IDS
  /\ StopsGiven(form)
  /\ EquipmentKnown(form)
  /\ WindowOrdered(form)
  /\ OrDefault(form.pricingMode, "instant") \in PRICING_MODES
  /\ optionalNumber(form.budgetEur)
  /\ OrDefault(form.payer, "me") \in PAYERS
  /\ OrDefault(form.paymentMethod, "invoice") \in PAYMENT_METHODS  \* not "escrow"
  /\ optionalNumber(form.weightKg)
  /\ optionalInt(form.pallets)
  /\ optionalNumber(form.insuranceValueEur)

\* A stop of no known kind is a checkpoint.
Stops(form) ==
  IF form.stops = Null THEN << >>
  ELSE [i \in DOMAIN form.stops |->
         [kind |-> IF form.stops[i].kind \in {"pickup", "delivery"}
                   THEN form.stops[i].kind ELSE "checkpoint",
          address |-> Cut(form.stops[i].address, Route)]]

normalizeBooking(form) ==
  [supplyChoice |-> form.supplyChoice,
   origin |-> Cut(form.origin, Route), destination |-> Cut(form.destination, Route),
   stops |-> Stops(form), cargo |-> Cut(form.cargo, Route),
   weightKg |-> form.weightKg, pallets |-> form.pallets, equipment |-> form.equipment,
   loadReadyAt |-> form.loadReadyAt, deliverByAt |-> form.deliverByAt,
   specialRequirements |-> Cut(form.specialRequirements, MAX_TEXT),
   notes |-> Cut(form.notes, MAX_TEXT),
   pricingMode |-> OrDefault(form.pricingMode, "instant"), budgetEur |-> form.budgetEur,
   payer |-> OrDefault(form.payer, "me"),
   paymentMethod |-> OrDefault(form.paymentMethod, "invoice"),
   insuranceValueEur |-> form.insuranceValueEur,
   marketplace |-> isMarketplaceChoice(form.supplyChoice),
   bookable |-> isBookableChoice(form.supplyChoice)]

\* An order is its Order row and its OrderBooking row together; the details
\* the wizard keeps besides are the booking's own.
buildOrderData(value, customer) ==
  [customerId |-> customer, origin |-> value.origin, destination |-> value.destination,
   cargo |-> OrNull(value.cargo), status |-> "BOOKED", plannedAt |-> value.deliverByAt,
   supplyChoice |-> value.supplyChoice, equipment |-> WordOrNull(value.equipment),
   loadReadyAt |-> value.loadReadyAt, deliverByAt |-> value.deliverByAt,
   notes |-> OrNull(value.notes)]

\* What a bookable choice adds: a trip for the carrier to dispatch.
buildTripData(org, order) ==
  [orgId |-> org, orderId |-> order, status |-> "DRAFT",
   driverId |-> Null, truckId |-> Null, rateEur |-> Null]

-----------------------------------------------------------------------------
(* The marketplace: the load posted for a booking, and the rules of a load *)
(* that is posted directly.                                                *)

Price(value) == value.budgetEur

\* An instant load must name its rate; without one it asks for quotes.
PricingOf(value) ==
  IF value.pricingMode \notin PRICING_MODES
     \/ (value.pricingMode = "instant" /\ (Price(value) = Null \/ Price(value) <= 0))
  THEN "quotes" ELSE value.pricingMode

buildLoadPostingData(value, order, customer, expiresAt) ==
  [customerId |-> customer, orderId |-> order, expiresAt |-> expiresAt,
   origin |-> value.origin, destination |-> value.destination,
   cargo |-> OrNull(value.cargo), equipment |-> WordOrNull(value.equipment),
   loadReadyAt |-> value.loadReadyAt, deliverByAt |-> value.deliverByAt,
   pricingMode |-> PricingOf(value), priceEur |-> Price(value), status |-> "POSTED"]

LoadAccepted(form) ==
  /\ RouteGiven(form)
  /\ EquipmentKnown(form)
  /\ WindowOrdered(form)
  /\ OrDefault(form.pricingMode, "quotes") \in PRICING_MODES
  /\ optionalNumber(form.priceEur)
  /\ OrDefault(form.pricingMode, "quotes") = "instant" =>
       form.priceEur # Null /\ form.priceEur > 0
  /\ optionalDate(form.expiresAt)

normalizeLoadPosting(form) ==
  [origin |-> Cut(form.origin, Route), destination |-> Cut(form.destination, Route),
   cargo |-> OrNull(Cut(form.cargo, Route)), equipment |-> WordOrNull(form.equipment),
   loadReadyAt |-> form.loadReadyAt, deliverByAt |-> form.deliverByAt,
   pricingMode |-> OrDefault(form.pricingMode, "quotes"), priceEur |-> form.priceEur,
   expiresAt |-> form.expiresAt, orderId |-> form.orderId]

-----------------------------------------------------------------------------
(* The solo driver's quick job.                                            *)

QuickJobAccepted(form) ==
  /\ Cut(form.customerId, 60) # Empty \/ Cut(form.customerName, 120) # Empty
  /\ RouteGiven(form)
  /\ optionalNumber(form.rateEur)
  /\ WindowOrdered(form)
  /\ EquipmentKnown(form)

normalizeQuickJob(form) ==
  [customerId |-> OrNull(Cut(form.customerId, 60)),
   customerName |-> OrNull(Cut(form.customerName, 120)),
   origin |-> Cut(form.origin, Route), destination |-> Cut(form.destination, Route),
   cargo |-> OrNull(Cut(form.cargo, Route)), rateEur |-> form.rateEur,
   loadReadyAt |-> form.loadReadyAt, deliverByAt |-> form.deliverByAt,
   equipment |-> WordOrNull(form.equipment)]

buildQuickJobOrder(value, customer) ==
  [customerId |-> customer, origin |-> value.origin, destination |-> value.destination,
   cargo |-> value.cargo, status |-> "BOOKED", plannedAt |-> value.deliverByAt,
   supplyChoice |-> "solo", equipment |-> value.equipment,
   loadReadyAt |-> value.loadReadyAt, deliverByAt |-> value.deliverByAt,
   notes |-> "Own-customer quick job"]

buildQuickJobTrip(value, org, driver) ==
  [orgId |-> org, driverId |-> driver, status |-> "ASSIGNED", rateEur |-> value.rateEur]

-----------------------------------------------------------------------------
(* The fleet's own form, in the page and in the server.                    *)

validateOrderForm(form) ==
  /\ form.customerId # Empty
  /\ form.origin # Empty /\ form.destination # Empty /\ form.origin # form.destination

\* The page asks for no loading window, and sends its fields as they are.
OrderFormBody(form) ==
  [customerId |-> form.customerId, origin |-> form.origin,
   destination |-> form.destination, cargo |-> form.cargo, plannedAt |-> form.plannedAt,
   equipment |-> form.equipment, notes |-> form.notes,
   loadReadyAt |-> Null, deliverByAt |-> Null]

FleetOrderAccepted(body) ==
  /\ RouteGiven(body)
  /\ optionalDate(body.plannedAt)
  /\ WindowOrdered(body)
  /\ EquipmentKnown(body)

normalizeFleetOrder(body, customer) ==
  [customerId |-> customer,
   origin |-> Cut(body.origin, Route), destination |-> Cut(body.destination, Route),
   cargo |-> OrNull(Cut(body.cargo, Route)), status |-> "BOOKED",
   plannedAt |-> body.plannedAt, equipment |-> WordOrNull(body.equipment),
   loadReadyAt |-> body.loadReadyAt, deliverByAt |-> body.deliverByAt,
   notes |-> OrNull(Cut(body.notes, MAX_TEXT))]

buildFleetOrderRows(value) ==
  [customerId |-> value.customerId, origin |-> value.origin,
   destination |-> value.destination, cargo |-> value.cargo, status |-> value.status,
   plannedAt |-> value.plannedAt, supplyChoice |-> "fleet", equipment |-> value.equipment,
   loadReadyAt |-> value.loadReadyAt, deliverByAt |-> value.deliverByAt,
   notes |-> value.notes]

\* The order again: its customer, lane, cargo and equipment, and what the
\* caller gives instead; what he leaves out or leaves empty is Null.  Dates
\* and notes are never taken over.
repeatOrderBody(source, override) ==
  LET Or(v, old) == IF v = Null THEN old ELSE v
  IN  [customerId |-> source.customerId,
       origin |-> Or(override.origin, source.origin),
       destination |-> Or(override.destination, source.destination),
       cargo |-> Or(override.cargo, source.cargo),
       equipment |-> Or(override.equipment, source.equipment),
       plannedAt |-> override.plannedAt, loadReadyAt |-> override.loadReadyAt,
       deliverByAt |-> override.deliverByAt, notes |-> override.notes]

-----------------------------------------------------------------------------
(* What the rules promise each other.                                      *)

\* A text that a rule stores as it is.  One that was cut just after a blank is
\* not: it is trimmed when it is read again.
Settled(t, n) == Cut(t, n) = t
LaneSettled(order) == Settled(order.origin, Route) /\ Settled(order.destination, Route)

\* The orders there can be: booked in the portal, by the fleet, by a driver.
WizardOrders(forms, customer) ==
  {buildOrderData(normalizeBooking(f), customer) : f \in {g \in forms : BookingAccepted(g)}}
FleetOrders(forms, customer) ==
  {buildFleetOrderRows(normalizeFleetOrder(f, customer)) :
     f \in {g \in forms : FleetOrderAccepted(g)}}
QuickJobOrders(forms, customer) ==
  {buildQuickJobOrder(normalizeQuickJob(f), customer) :
     f \in {g \in forms : QuickJobAccepted(g)}}

AsItIs == [origin |-> Null, destination |-> Null, cargo |-> Null, equipment |-> Null,
           plannedAt |-> Null, loadReadyAt |-> Null, deliverByAt |-> Null, notes |-> Null]

\* "Book it again" works for every order, whoever booked it: the fleet's rules
\* accept it, and the new order is for the same customer on the same lane with
\* the same equipment.
Repeatable(order) ==
  LaneSettled(order) =>
    LET body == repeatOrderBody(order, AsItIs)
        again == buildFleetOrderRows(normalizeFleetOrder(body, body.customerId))
    IN  /\ FleetOrderAccepted(body)
        /\ again.customerId = order.customerId
        /\ again.origin = order.origin /\ again.destination = order.destination
        /\ again.equipment = order.equipment

\* The load posted for a booking obeys the rules of a load posted directly, and
\* carries the lane, window and amount that were booked.
PostedAsBooked(form, order, customer, expiresAt) ==
  LET value == normalizeBooking(form)
      load == buildLoadPostingData(value, order, customer, expiresAt)
  IN  BookingAccepted(form) /\ LaneSettled(value) =>
        /\ LoadAccepted(load)
        /\ \A field \in {"origin", "destination", "equipment", "loadReadyAt",
                         "deliverByAt", "pricingMode", "priceEur", "expiresAt"} :
             normalizeLoadPosting(load)[field] = load[field]

\* What the fleet's page lets through, with a date that parses, a known
\* equipment and a lane short enough, the server accepts and stores as typed.
PageIsNoLooser(form) ==
  LET body == OrderFormBody(form)
  IN  /\ validateOrderForm(form) /\ LaneSettled(form)
      /\ optionalDate(form.plannedAt) /\ EquipmentKnown(form)
      => /\ FleetOrderAccepted(body)
         /\ normalizeFleetOrder(body, form.customerId).origin = form.origin
         /\ normalizeFleetOrder(body, form.customerId).destination = form.destination

=============================================================================
