--------------------------- MODULE MCFleetCustomers ---------------------------
(* Constants of the TLC run of FleetCustomers, and the rules for orders    *)
(* evaluated on small forms.                                               *)
EXTENDS FleetCustomers, OrderForms

\* Four rows and two names, so names are shared and pages of two end inside a
\* group of one name.
MCCustomers == 1..4
MCNames == 1..2

-----------------------------------------------------------------------------
\* Texts: "long" is cut just after a blank, and what is left of it is trimmed
\* to "a" when it is read again.
MCCut(t, n) ==
  CASE t = Null -> "" [] t = "long" -> "a_" [] t = "a_" -> "a" [] OTHER -> t

\* One form with the fields of all of them; each rule reads its own.
MCForms ==
  {[origin |-> o, destination |-> d, equipment |-> e, loadReadyAt |-> w[1],
    deliverByAt |-> w[2], plannedAt |-> w[2], pricingMode |-> p, budgetEur |-> b,
    priceEur |-> b, rateEur |-> b, supplyChoice |-> "solo", stops |-> Null,
    cargo |-> "a", payer |-> "", paymentMethod |-> "invoice", weightKg |-> Null,
    pallets |-> 200, insuranceValueEur |-> 0, specialRequirements |-> "", notes |-> "b",
    customerId |-> "c", customerName |-> "", expiresAt |-> Null, orderId |-> Null] :
      o \in {"", "a", "long"}, d \in {"a", "b", "long"}, e \in {"", "box", "boat"},
      w \in {<<Null, Null>>, <<0, 0>>, <<1, 0>>, <<0, Unreadable>>},
      p \in {"", "instant", "budget", "barter"}, b \in {Null, -1, 0, 500}}

MCOrders == WizardOrders(MCForms, "c") \cup FleetOrders(MCForms, "c")
              \cup QuickJobOrders(MCForms, "c")

\* The promises of OrderForms, which FleetCustomersProofs proves for every form;
\* forms of each kind are accepted and refused.
ASSUME OrderPromises ==
  /\ \A order \in MCOrders : Repeatable(order)
  /\ \A form \in MCForms : PostedAsBooked(form, "o", "c", 2) /\ PageIsNoLooser(form)
  /\ {BookingAccepted(f) : f \in MCForms} = BOOLEAN
  /\ {LoadAccepted(f) : f \in MCForms} = BOOLEAN
  /\ {QuickJobAccepted(f) : f \in MCForms} = BOOLEAN
  /\ {FleetOrderAccepted(f) : f \in MCForms} = BOOLEAN

\* An order whose place to load was cut just after a blank, and is then the
\* place to unload, cannot be repeated: that the lane is settled is needed.
ASSUME CutLaneIsRefused ==
  \E order \in MCOrders : ~FleetOrderAccepted(repeatOrderBody(order, AsItIs))
=============================================================================
