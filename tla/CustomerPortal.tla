--------------------------- MODULE CustomerPortal ---------------------------
(***************************************************************************)
(* The handlers of the customer portal (customer.js).  Every panel has an  *)
(* element of its own, filled by whichever answer comes last; no answer is *)
(* compared with anything, and only the sign-in looks at a 401.            *)
(***************************************************************************)
EXTENDS PageHandlers

onSubmitLogin == Entry("login", "token")
onSubmitSignup == Entry("signup", "token")
\* Who the token is: the second request of a sign-in, the first of the page.
loadMe(at) == [Entry(at, "enter") EXCEPT !.expires = TRUE]

renderShipments == Loader("shipments")
renderOffers == Loader("offers")
renderAutoMatch == Loader("autoMatch")
renderAccount == Loader("account")
renderReviews == Loader("reviews")
openShipment == [Loader("shipment") EXCEPT !.starts = "open", !.ok = "detail"]

mintTrackLink == Press("shipment", "reopen")
onSubmitBooking == Press("book", "booked")
sendCounter == Press("offers", "reload")
declineOffer == Press("offers", "reload")
awardOffer == Press("offers", "awarded")
onSubmitAutoMatch == Press("autoMatch", "reload")
onSubmitProfile == Press("account", "note")
onSubmitAddress == Press("account", "reload")
removeAddress == Press("account", "reload")
onSubmitTeam == Press("account", "note")
submitReviewPrompt == Press("reviews", "reload")

\* What each panel offers, besides the loader that fills it.
renderBook == {onSubmitBooking}
renderShipment == {mintTrackLink}
onOffersClick == {sendCounter, declineOffer, awardOffer}
autoMatchForm == {onSubmitAutoMatch}
accountForms == {onSubmitProfile, onSubmitAddress, removeAddress, onSubmitTeam}
onReviewsClick == {submitReviewPrompt}

CustomerHandlers ==
  {renderShipments, renderOffers, renderAutoMatch, renderAccount, renderReviews}
    \cup renderBook \cup renderShipment \cup onOffersClick \cup autoMatchForm
    \cup accountForms \cup onReviewsClick
CustomerPanels == {"shipments", "book", "offers", "autoMatch", "reviews", "account"}

=============================================================================
