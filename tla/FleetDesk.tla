----------------------------- MODULE FleetDesk -----------------------------
(***************************************************************************)
(* The handlers of the fleet app (app.js).  request() never fails: a lost  *)
(* answer is an answer too.  Most loaders compare the render token they    *)
(* were given with the current one; the parts of a trip's page compare the *)
(* element they were to fill; two panels count their own renderings; the   *)
(* forms compare nothing.                                                  *)
(***************************************************************************)
EXTENDS PageHandlers

\* The route table: which roles may open a panel.
ROUTES ==
  LET office == {"owner", "dispatcher"} IN
  [overview |-> office \cup {"accountant", "driver"}, trips |-> office, trip |-> office,
   dispatch |-> office, documents |-> office, tracking |-> office, reviews |-> office,
   customers |-> office, finance |-> {"owner", "accountant"}, my_trips |-> {"driver"}]
ROLE_HOME(role) == IF role = "driver" THEN "my_trips" ELSE "overview"
canOpen(role, p) == role \in ROUTES[p]
canReadReports(role) == role \in {"owner", "dispatcher", "accountant"}
canManageTrips(role) == role \in {"owner", "dispatcher"}
canManageUsers(role) == role = "owner"

\* The panel a role gets when it asks for panel p.
guardDecision(role, p) == IF canOpen(role, p) THEN p ELSE ROLE_HOME(role)

\* The sign-in form, the sign-up form and the start of the page.
login == Entry("login", "enter")
register == Entry("signup", "enter")
restoreSession == [Entry("boot", "enter") EXCEPT !.expires = TRUE]

\* Loaders that compare the render token.
FleetLoader(p) == [Loader(p) EXCEPT !.check = "outlet", !.expires = TRUE]
renderDashboard == FleetLoader("overview")
loadTrips == FleetLoader("trips")
loadDriverOptions == [loadTrips EXCEPT !.expires = FALSE, !.ok = "part"]
renderTripDetail == [FleetLoader("trip") EXCEPT !.ok = "detail"]
renderDocuments == FleetLoader("documents")
renderMyTrips == FleetLoader("my_trips")
loadTrackingList == FleetLoader("tracking")

\* Parts of a trip's page, started when its answer has been drawn.
FleetPart == [FleetLoader("trip") EXCEPT !.starts = "detail", !.ok = "part"]
loadAssignControl == FleetPart
loadTrackingControl == FleetPart
mintTrackingLink == [FleetPart EXCEPT !.starts = "press"]
revokeTrackingLink == [FleetPart EXCEPT !.starts = "press"]

\* Two panels count their own renderings: leaving them does not count.
loadDispatchReference == [FleetLoader("dispatch") EXCEPT !.check = "panel"]
loadCustomers == [FleetLoader("customers") EXCEPT !.check = "panel"]
loadMoreCustomers == [loadCustomers EXCEPT !.starts = "press", !.ok = "part"]

\* The links' worklist.
mintWorkLink == [FleetLoader("tracking") EXCEPT !.starts = "press", !.ok = "reload"]
revokeWorkLink == mintWorkLink

\* The reviews panel sends the render token where the session's belongs.
loadReviewPrompts == [FleetLoader("reviews") EXCEPT !.expires = FALSE, !.bearer = FALSE]
submitReviewPrompt == [loadReviewPrompts EXCEPT !.starts = "press", !.ok = "reload"]

\* The forms: a good answer draws the trip again, whatever is on the screen.
FleetForm(p, what) == [Press(p, what) EXCEPT !.expires = TRUE]
submitEnding == FleetForm("trip", "detail")
submitAssign == FleetForm("trip", "detail")
submitDocument == FleetForm("trip", "detail")
submitDocumentStatus == FleetForm("trip", "detail")
submitDispatch == FleetForm("dispatch", "note")
submitCustomer == FleetForm("customers", "reload")
submitFleetOrder == FleetForm("customers", "reload")
repeatFleetOrder == FleetForm("customers", "reload")
submitCustomerInvite == FleetForm("customers", "reload")

-----------------------------------------------------------------------------
(* What each panel is made of: the handlers its rows, buttons and forms     *)
(* start, and those that drawing it starts.                                *)

\* The trips list; applying or resetting its filters draws it anew.
renderTripsList == {loadTrips, loadDriverOptions}
loadDashboard(role) == IF canReadReports(role) THEN {renderDashboard} ELSE {}
renderDispatch == {loadDispatchReference, submitDispatch}
renderReviews == {loadReviewPrompts}
reviewPromptHtml == {submitReviewPrompt}
renderTracking == {loadTrackingList}
trackingWorklistHtml == {mintWorkLink, revokeWorkLink}

\* The customers: who they are, what they ordered, and the owner's invitations.
renderCustomersMore == {loadMoreCustomers}
renderFleetOrders == {repeatFleetOrder}
inviteForm(role) == IF canManageUsers(role) THEN {submitCustomerInvite} ELSE {}
renderCustomers(role) ==
  {loadCustomers, submitCustomer, submitFleetOrder}
    \cup renderCustomersMore \cup renderFleetOrders \cup inviteForm(role)

\* The page of a trip.
trackingBodyHtml == {mintTrackingLink, revokeTrackingLink}
disruptionBoxHtml(role) == IF canManageTrips(role) THEN {submitEnding} ELSE {}
assignBoxHtml(role) == IF canManageTrips(role) THEN {loadAssignControl, submitAssign} ELSE {}
docTableHtml == {submitDocumentStatus}
docUploadFormHtml == {submitDocument}
documentsPanelHtml == docTableHtml \cup docUploadFormHtml
tripDetailHtml(role) ==
  {loadTrackingControl} \cup trackingBodyHtml \cup assignBoxHtml(role)
    \cup disruptionBoxHtml(role) \cup documentsPanelHtml

FleetHandlers(role) ==
  {renderTripDetail, renderDocuments, renderMyTrips}
    \cup renderTripsList \cup loadDashboard(role) \cup renderDispatch \cup renderReviews
    \cup reviewPromptHtml \cup renderTracking \cup trackingWorklistHtml
    \cup renderCustomers(role) \cup tripDetailHtml(role)

=============================================================================
