----------------------------- MODULE TripStatus -----------------------------
(***************************************************************************)
(* The status machine of diagram 07 as trip-status.js states it: the       *)
(* lifecycle, the four alternate endings with one recovery edge each, and  *)
(* who may take which edge.  The driver apps mirror the same table.        *)
(***************************************************************************)

Disruptions == {"REFUSED", "BREAKDOWN", "DELAYED", "CUSTOMS_HOLD"}
DRIVER_REPORTABLE_ENDINGS == {"REFUSED", "BREAKDOWN"}
EnRouteToDelivery == {"EN_ROUTE", "AT_PICKUP", "LOADED", "IN_TRANSIT", "AT_DELIVERY"}
ACTIVE_ASSIGNMENT_STATUSES == {"ASSIGNED"} \cup EnRouteToDelivery \cup Disruptions
Billing == {"POD_UPLOADED", "INVOICED", "SETTLED"}
TRIP_STATUSES == {"DRAFT", "DELIVERED", "CANCELLED"}
                   \cup ACTIVE_ASSIGNMENT_STATUSES \cup Billing

Edges == {
  <<"DRAFT", "ASSIGNED">>, <<"DRAFT", "CANCELLED">>,
  <<"ASSIGNED", "EN_ROUTE">>, <<"ASSIGNED", "LOADED">>, <<"ASSIGNED", "CANCELLED">>,
  <<"EN_ROUTE", "AT_PICKUP">>, <<"EN_ROUTE", "BREAKDOWN">>,
  <<"AT_PICKUP", "LOADED">>, <<"AT_PICKUP", "REFUSED">>,
  <<"LOADED", "IN_TRANSIT">>,
  <<"IN_TRANSIT", "AT_DELIVERY">>, <<"IN_TRANSIT", "DELIVERED">>,
  <<"IN_TRANSIT", "DELAYED">>,
  <<"AT_DELIVERY", "DELIVERED">>, <<"AT_DELIVERY", "CUSTOMS_HOLD">>,
  <<"DELIVERED", "POD_UPLOADED">>, <<"POD_UPLOADED", "INVOICED">>,
  <<"INVOICED", "SETTLED">>,
  <<"REFUSED", "LOADED">>, <<"BREAKDOWN", "EN_ROUTE">>,
  <<"DELAYED", "IN_TRANSIT">>, <<"CUSTOMS_HOLD", "AT_DELIVERY">>}

-----------------------------------------------------------------------------
canTransition(from, to) == <<from, to>> \in Edges
isTerminal(status) == \A to \in TRIP_STATUSES : ~canTransition(status, to)
isActiveAssignment(status) == status \in ACTIVE_ASSIGNMENT_STATUSES
requiresCarrierActor_Endings(from, to) ==
  to \in Disruptions /\ to \notin DRIVER_REPORTABLE_ENDINGS
requiresCarrierActor(from, to) ==
  IF to \in Disruptions THEN to \notin DRIVER_REPORTABLE_ENDINGS
                        ELSE from \in Disruptions

=============================================================================
