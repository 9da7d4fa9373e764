------------------------------- MODULE WebApps ------------------------------
(***************************************************************************)
(* One browser tab with one of the three applications in it: the fleet app *)
(* (FleetDesk), the customer portal (CustomerPortal) and the solo driver's *)
(* app (SoloCab).  A tab keeps one session; its handlers send a request    *)
(* and go on when the answer comes, in any order and at any time, while    *)
(* the person opens other panels, signs out and lets someone else sign in. *)
(*                                                                         *)
(* page is what the person sees: a panel, whose rows it shows (of) and     *)
(* which trip, shipment or load (item).  A hidden panel is drawn anew      *)
(* before it is seen again and is not kept.  An answer that would be       *)
(* thrown away is no step: the request is dropped from flight when the     *)
(* drawing it compares itself with changes.                                *)
(***************************************************************************)
EXTENDS Naturals, FiniteSets

CONSTANTS
  Users,     \* the people who use the tab
  Role,      \* their roles in the fleet app
  Items,     \* trips of the fleet app, orders of the portal, loads of the solo app
  TripId,    \* an id that is no order's
  MaxFlight, \* bound: requests in flight, for each application
  None

ASSUME NoneIsNothing == None \notin Users \cup Items \cup {TripId} /\ TripId \notin Items

VARIABLES
  app,     \* the application the tab shows
  session, \* whose token the page (and the tab's storage) holds
  screen,  \* "blank" while the page starts, "login" or "app"
  page,    \* what the app's part of the page shows
  held,    \* the item the forms post to: assignTrip, state.shipmentId, state.detail
  live,    \* the item of the open position stream the page can still close
  flight   \* requests in flight

tab == <<app, session, screen, page, held, live, flight>>

Fleet == INSTANCE FleetDesk
Customer == INSTANCE CustomerPortal
Solo == INSTANCE SoloCab

Page(p, what, u, i) == [panel |-> p, what |-> what, of |-> u, item |-> i]
NoPage == Page("none", "error", None, None)
Someone == Users \cup {None}
FleetPanels == DOMAIN Fleet!ROUTES
RoleOf(u) == IF u = None THEN "none" ELSE Role[u]
\* The request carries the token the page holds when it is sent.
Sent(h, u, i) == [h |-> h, user |-> IF h.bearer THEN u ELSE None, item |-> i]

TabInit ==
  /\ app \in {"fleet", "customer", "solo"} /\ session = None /\ screen = "login"
  /\ page = NoPage /\ held = None /\ live = None /\ flight = {}

-----------------------------------------------------------------------------
(* Drawing.  rest: the requests in flight that are not being answered.     *)

\* The answer is still used when panel p is drawn anew.
Outlives_Everything(r, p) == TRUE
Outlives(r, p) == r.h.check = "none" \/ (r.h.check = "panel" /\ r.h.at # p)

\* The fleet app draws a panel: a new render token, and the stream is stopped.
renderPanel(p, i, u, rest) ==
  LET loaders == {h \in Fleet!FleetHandlers(RoleOf(u)) : h.starts = "render" /\ h.at = p}
      waits == \E h \in loaders : h.ok \in {"page", "detail"} IN
  /\ page' = Page(p, IF waits THEN "loading" ELSE "rows", u, i)
  /\ flight' = {r \in rest : Outlives(r, p)} \cup {Sent(h, u, i) : h \in loaders}
  /\ live' = None

\* A form of a trip draws it again: a new token, the stream is not stopped.
redrawTrip_OldToken(i, rest) ==
  /\ page' = Page("trip", "loading", session, i)
  /\ flight' = {r \in rest : Outlives(r, "trip")}
redrawTrip(i, rest) ==
  /\ page' = Page("trip", "loading", session, i)
  /\ flight' = {r \in rest : Outlives(r, "trip")} \cup {Sent(Fleet!renderTripDetail, session, i)}

\* The portal shows a panel and fetches its rows.
showPanel(p, u, rest) ==
  LET loaders == {h \in Customer!CustomerHandlers : h.starts = "render" /\ h.at = p} IN
  /\ page' = Page(p, IF loaders = {} THEN "rows" ELSE "loading", u, None)
  /\ flight' = rest \cup {Sent(h, u, None) : h \in loaders}
  /\ live' = IF p = "shipments" THEN None ELSE live

\* The solo app draws a panel from what it holds.
render(p, u) == page' = Page(p, "rows", u, IF p = "load" THEN held' ELSE None)

-----------------------------------------------------------------------------
(* Entering and leaving.                                                   *)

\* The forms of the sign-in screen; the fleet app and the portal disable the
\* button while the request is under way.
SubmitEntry ==
  /\ screen = "login" /\ Cardinality(flight) < MaxFlight[app]
  /\ \E u \in Users :
       LET forms == CASE app = "fleet" -> {Fleet!login, Fleet!register}
                      [] app = "customer" -> {Customer!onSubmitLogin, Customer!onSubmitSignup}
                      [] app = "solo" -> {Solo!signIn, Solo!signUp} IN
       \E h \in forms :
         /\ app # "solo" => \A r \in flight : r.h.starts = "enter" => r.h.at # h.at
         /\ flight' = flight \cup {Sent(h, u, None)}
  /\ UNCHANGED <<app, session, screen, page, held, live>>

\* The page is loaded (again): memory is gone, the storage's session is kept
\* and is checked with the server before anything is shown.
Boot(a, u) ==
  LET check == CASE a = "fleet" -> Fleet!restoreSession
                 [] a = "customer" -> Customer!loadMe("boot")
                 [] a = "solo" -> Solo!refreshMe("boot") IN
  /\ app' = a /\ session' = u
  /\ screen' = IF u = None THEN "login" ELSE "blank"
  /\ flight' = IF u = None THEN {} ELSE {Sent(check, u, None)}
  /\ page' = NoPage /\ held' = None /\ live' = None
Reload == screen # "blank" /\ Boot(app, session)

\* A good answer to the last request of a sign-in.
EnterFleet(r, rest) ==
  /\ app = "fleet" /\ r.h.starts = "enter"
  /\ \/ /\ session' = r.user /\ screen' = "app"
        /\ \E p \in FleetPanels \ {"trip"} :
             renderPanel(Fleet!guardDecision(Role[r.user], p), None, r.user, rest)
        /\ UNCHANGED <<app, held>>
     \* Another kind of account: its token is handed over to its own app.
     \/ r.h = Fleet!register /\ \E a \in {"customer", "solo"} : Boot(a, r.user)
EnterPortal(r, rest) ==
  /\ app = "customer" /\ r.h.ok = "enter"
  /\ screen' = "app"
  /\ showPanel(IF r.h.at = "signup" THEN "book" ELSE "shipments", session, rest)
  /\ UNCHANGED <<app, session, held>>
EnterSolo(r, rest) ==
  /\ app = "solo" /\ r.h.ok = "enter"
  /\ screen' = "app"
  /\ flight' = rest \cup {Sent(Solo!openPanel("feed"), session, None)}
  /\ UNCHANGED <<app, session, page, held, live>>
\* The portal and the solo app ask who the token is before they show anything.
TakeToken(r, rest) ==
  /\ r.h.ok = "token"
  /\ session' = r.user
  /\ flight' = rest \cup {Sent(IF app = "solo" THEN Solo!refreshMe(r.h.at)
                                              ELSE Customer!loadMe(r.h.at), r.user, None)}
  /\ UNCHANGED <<app, screen, page, held, live>>

\* The app keeps the token unless it was refused; the solo app drops it after
\* any failure but that of a sign-up, and does not leave the screen it is on.
EntryFails(r, rest, refused) ==
  /\ r.h.starts = "enter"
  /\ flight' = rest
  /\ session' = IF (IF app = "solo" THEN r.h.at # "signup" ELSE refused /\ r.h.expires)
                THEN None ELSE session
  /\ screen' = IF \/ r.h.at = "boot"
                  \/ (app = "customer" /\ r.h.ok = "enter")
                  \/ (app = "fleet" /\ r.h.at = "login")
               THEN "login" ELSE screen
  /\ UNCHANGED <<app, page, held, live>>

\* Nothing in flight is stopped, and nothing that was fetched is forgotten.
logout ==
  /\ screen = "app"
  /\ session' = None /\ screen' = "login"
  /\ held' = IF app = "customer" THEN None ELSE held
  /\ UNCHANGED <<app, page, live, flight>>
handleExpired(rest) ==
  /\ session' = None /\ screen' = "login"
  /\ flight' = rest
  /\ UNCHANGED <<app, page, held, live>>

-----------------------------------------------------------------------------
(* What the person does.                                                   *)

\* The fleet app's guard and its panels; also the back button and a change of
\* the language, which draw the panel of the current path.
route ==
  /\ app = "fleet" /\ session # None /\ screen # "blank"
  /\ \E p \in FleetPanels : \E i \in IF p = "trip" THEN Items ELSE {None} :
       LET to == Fleet!guardDecision(Role[session], p) IN
       renderPanel(to, IF to = p THEN i ELSE None, session, flight)
  /\ Cardinality(flight') <= MaxFlight[app]
  /\ screen' = "app"
  /\ UNCHANGED <<app, session, held>>

ShowPanel ==
  /\ app = "customer" /\ screen = "app"
  /\ \E p \in Customer!CustomerPanels : showPanel(p, session, flight)
  /\ Cardinality(flight') <= MaxFlight[app]
  /\ UNCHANGED <<app, session, screen, held>>

openShipment(i, rest) ==
  /\ held' = i /\ live' = None
  /\ page' = Page("shipment", "loading", session, i)
  /\ flight' = rest \cup {Sent(Customer!openShipment, session, i)}
OpenShipment ==
  /\ app = "customer" /\ screen = "app" /\ page.panel = "shipments" /\ page.what = "rows"
  /\ \E i \in Items : openShipment(i, flight)
  /\ Cardinality(flight') <= MaxFlight[app]
  /\ UNCHANGED <<app, session, screen>>

OpenPanel ==
  /\ app = "solo" /\ screen = "app"
  /\ \E p \in Solo!SoloPanels : flight' = flight \cup {Sent(Solo!openPanel(p), session, None)}
  /\ Cardinality(flight') <= MaxFlight[app]
  /\ UNCHANGED <<app, session, screen, page, held, live>>
OpenLoad ==
  /\ app = "solo" /\ screen = "app" /\ page.panel = "feed"
  /\ \E i \in Items : flight' = flight \cup {Sent(Solo!openLoad, session, i)}
  /\ Cardinality(flight') <= MaxFlight[app]
  /\ UNCHANGED <<app, session, screen, page, held, live>>

Handlers ==
  CASE app = "fleet" -> Fleet!FleetHandlers(RoleOf(session))
    [] app = "customer" -> Customer!CustomerHandlers
    [] app = "solo" -> Solo!SoloHandlers

\* A button or a form of the panel on the screen.
Press ==
  /\ screen = "app" /\ (page.what = "rows" \/ page.panel = "customers")
  /\ \E h \in Handlers :
       /\ h.starts = "press" /\ h.at = page.panel
       /\ flight' = flight \cup {Sent(h, session, IF app = "solo" THEN None ELSE page.item)}
  /\ Cardinality(flight') <= MaxFlight[app]
  /\ UNCHANGED <<app, session, screen, page, held, live>>

-----------------------------------------------------------------------------
(* Good answers.                                                           *)

\* The panel's rows, when it is the one on the screen.
Fill(r, rest) ==
  /\ app # "solo" /\ r.h.ok = "page"
  /\ page' = IF page.panel = r.h.at THEN [page EXCEPT !.what = "rows", !.of = r.user] ELSE page
  /\ flight' = rest
  /\ UNCHANGED <<app, session, screen, held, live>>

\* A part or a note of the page: nothing another answer depends on.
Note(r, rest) ==
  /\ r.h.ok \in {"part", "note"}
  /\ flight' = rest
  /\ UNCHANGED <<app, session, screen, page, held, live>>

\* The fleet app draws a trip, starts its parts and opens its stream; the one
\* that was open is not closed.
loadLiveTrackingControl(i) ==
  \/ UNCHANGED live
  \/ live' = i
DrawTrip(r, rest) ==
  /\ app = "fleet" /\ r.h = Fleet!renderTripDetail
  /\ page' = [page EXCEPT !.what = "rows", !.of = r.user]
  /\ held' = IF Fleet!canManageTrips(RoleOf(session)) THEN r.item ELSE held
  /\ flight' = rest \cup {Sent(h, session, r.item) :
                            h \in {g \in Handlers : g.starts = "detail"}}
  /\ loadLiveTrackingControl(r.item)
  /\ UNCHANGED <<app, session, screen>>
\* A form of a trip was accepted.
RedrawTrip(r, rest) ==
  /\ app = "fleet" /\ r.h.starts = "press" /\ r.h.ok = "detail"
  /\ redrawTrip(r.item, rest)
  /\ UNCHANGED <<app, session, screen, held, live>>

\* The portal draws a shipment: the open channel is closed, and opened again
\* for a shipment that is on the road.
openLiveChannel_KeepsOpen(i) == live' \in {i, live}
openLiveChannel(i) == live' \in {i, None}
renderShipment(i, u) ==
  /\ page' = IF page.panel = "shipment" THEN Page("shipment", "rows", u, i) ELSE page
  /\ openLiveChannel(i)
DrawShipment(r, rest) ==
  /\ app = "customer" /\ r.h = Customer!openShipment
  /\ renderShipment(r.item, r.user)
  /\ flight' = rest
  /\ UNCHANGED <<app, session, screen, held>>
\* A link was made: the shipment held by then is opened again.
ReopenShipment(r, rest) ==
  /\ r.h.ok = "reopen"
  /\ openShipment(held, rest)
  /\ UNCHANGED <<app, session, screen>>
\* A load was posted, or the order went to a carrier at once.
Booked(r, rest) ==
  /\ r.h.ok = "booked"
  /\ held' \in Items
  /\ \/ showPanel("offers", session, rest)
     \/ /\ page' = Page("shipment", "rows", r.user, held')
        /\ openLiveChannel(held') /\ flight' = rest
  /\ UNCHANGED <<app, session, screen>>

\* The list is fetched again; the portal says so where its rows were, and takes
\* the id of an awarded load's trip for the shipment's.
Refetch(r, rest) ==
  /\ app # "solo" /\ r.h.ok \in {"reload", "awarded"}
  /\ flight' = rest \cup {Sent(h, session, None) :
                  h \in {g \in Handlers : g.starts = "render" /\ g.at = r.h.at /\ g.ok = "page"}}
  /\ page' = IF app = "customer" /\ page.panel = r.h.at
             THEN [page EXCEPT !.what = "loading"] ELSE page
  /\ held' = IF r.h.ok = "awarded" THEN TripId ELSE held
  /\ UNCHANGED <<app, session, screen, live>>

\* The solo app: a change was accepted, and its list, or the load that is held
\* by now, is fetched before the panel is drawn.
FetchAgain(r, rest) ==
  /\ app = "solo" /\ r.h.ok \in {"reload", "again"}
  /\ flight' = rest \cup {IF r.h.ok = "again" THEN Sent(Solo!RefetchLoad, session, held)
                                             ELSE Sent(Solo!Refetch(r.h.at), session, None)}
  /\ UNCHANGED <<app, session, screen, page, held, live>>
DrawLoad(r, rest) ==
  /\ app = "solo" /\ r.h.ok = "detail"
  /\ held' = r.item /\ render("load", r.user)
  /\ flight' = rest
  /\ UNCHANGED <<app, session, screen, live>>
DrawSolo(r, rest) ==
  /\ app = "solo" /\ r.h.ok = "page"
  /\ held' = held /\ render(r.h.at, r.user)
  /\ flight' = rest
  /\ UNCHANGED <<app, session, screen, live>>

GoodAnswer(r) ==
  LET rest == flight \ {r} IN
  /\ r.user # None
  /\ \/ EnterFleet(r, rest) \/ EnterPortal(r, rest) \/ EnterSolo(r, rest) \/ TakeToken(r, rest)
     \/ Fill(r, rest) \/ Note(r, rest) \/ Refetch(r, rest)
     \/ DrawTrip(r, rest) \/ RedrawTrip(r, rest)
     \/ DrawShipment(r, rest) \/ ReopenShipment(r, rest) \/ Booked(r, rest)
     \/ FetchAgain(r, rest) \/ DrawLoad(r, rest) \/ DrawSolo(r, rest)

-----------------------------------------------------------------------------
(* Bad answers: refused (401), or anything else that failed.               *)

\* Only what waits for its rows shows the error in their place; the solo app
\* draws the handler's panel in any case, the feed for a load it cannot open.
Failed(r, rest) ==
  /\ r.h.starts # "enter"
  /\ flight' = rest /\ held' = held
  /\ IF app = "solo"
     THEN render(IF r.h = Solo!openLoad THEN "feed" ELSE r.h.at, session)
     ELSE page' = IF /\ page.panel = r.h.at /\ r.h.starts \in {"render", "open"}
                     /\ r.h.ok \in {"page", "detail"}
                  THEN [page EXCEPT !.what = "error"] ELSE page
  /\ UNCHANGED <<app, session, screen, live>>

BadAnswer(r) ==
  LET rest == flight \ {r} IN
  \/ \E refused \in BOOLEAN : EntryFails(r, rest, refused)
  \/ (r.h.starts # "enter" /\ r.h.expires /\ handleExpired(rest))
  \/ Failed(r, rest)

Answer == \E r \in flight : GoodAnswer(r) \/ BadAnswer(r)

\* The network drops the stream.
StreamEnds ==
  /\ live # None /\ live' = None
  /\ UNCHANGED <<app, session, screen, page, held, flight>>

TabNext ==
  \/ SubmitEntry \/ Reload \/ logout \/ route \/ ShowPanel \/ OpenShipment
  \/ OpenPanel \/ OpenLoad \/ Press \/ Answer \/ StreamEnds
TabSpec == TabInit /\ [][TabNext]_tab

-----------------------------------------------------------------------------
(* Properties.                                                             *)

Detail == page.panel \in {"trip", "shipment", "load"} /\ page.what = "rows"

\* Whoever uses the fleet app sees only rows that were fetched with the token
\* of the session that is open now, however late the answers of an earlier
\* panel or of an earlier session come.
OwnRowsOnly ==
  app = "fleet" /\ screen = "app" /\ page.what = "rows" => page.of = session

\* A panel of the fleet app or the portal that says it is loading has a request
\* under way whose answer will take that word away: no new drawing, sign-in or
\* late answer leaves it waiting for ever.
LoadingIsAwaited ==
  screen = "app" /\ page.what = "loading" =>
    \E r \in flight : /\ r.h.at = page.panel /\ r.h.starts \in {"render", "open"}
                      /\ r.h.ok \in {"page", "detail"} /\ r.item = page.item

\* What a page acts on is what it shows: a driver is assigned to the trip on the
\* screen, a bid is made for the load on the screen, and the positions drawn
\* into a shipment are those of that shipment.
ActsOnWhatIsShown ==
  screen = "app" /\ Detail =>
    /\ app = "fleet" /\ Fleet!canManageTrips(Role[session]) => held = page.item
    /\ app = "customer" => live \in {page.item, None}
    /\ app = "solo" => held = page.item

=============================================================================
