------------------------- MODULE MarketplaceSerial -------------------------
(***************************************************************************)
(* The marketplace seen by someone who sends one request at a time         *)
(* (Requests has one element in the runs): the rules of the API then       *)
(* implement the auction of LoadAuction.  The variable page adds what the  *)
(* sweeping pages list, which the tables alone do not show.                *)
(***************************************************************************)
EXTENDS Marketplace

VARIABLE page  \* of each request: the page it serves and the open offers it lists

NoPage == [view |-> "none", at |-> 0, open |-> {}]

PageInit == Init /\ page = [r \in Requests |-> NoPage]

\* GET .../loads/mine, .../loads/:id and the customer's two sweep and then read.
OpenLoadPage(r, ls) ==
  /\ BeginSweep(r, ls)
  /\ page' = [page EXCEPT ![r] = [view |-> "load", at |-> now, open |-> {}]]

\* GET /marketplace/offers/mine reads the carrier's offers and then sweeps.
OpenMyOffersPage(r, c) ==
  LET mine == {o \in Offers : offer[o].carrier = c}
  IN  /\ BeginSweep(r, {offer[o].load : o \in mine})
      /\ page' = [page EXCEPT ![r] = [view |-> "mine", at |-> now,
                                      open |-> {o \in mine : isOfferOpen(o)}]]

\* The offers a load page lists as open.
ListedOpen_All(ls) == UNION {OffersOf(l) : l \in ls}
ListedOpen(ls) == UNION {OpenOffersOf(l) : l \in ls}

AnswerPage(r) ==
  /\ req[r].op = "list"
  /\ page[r].view \in {"load", "mine"}
  /\ page' = [page EXCEPT
       ![r].view = IF @ = "load" THEN "loadSent" ELSE "mineSent",
       ![r].open = IF page[r].view = "load" THEN ListedOpen(req[r].loads) ELSE @]
  /\ req' = [req EXCEPT ![r] = Idle]
  /\ UNCHANGED <<now, load, offer, trip>>

\* Every other step of the marketplace; a page sent is forgotten.
OtherStep ==
  /\ Next
  /\ page' = [r \in Requests |-> IF req[r] = Idle THEN NoPage ELSE page[r]]

PageNext ==
  \/ \E r \in Requests :
       \/ \E ls \in SUBSET Loads : OpenLoadPage(r, ls)
       \/ \E c \in Principals : OpenMyOffersPage(r, c)
       \/ AnswerPage(r)
  \/ OtherStep

PageSpec == PageInit /\ [][PageNext]_<<vars, page>>

-----------------------------------------------------------------------------
\* The auction behind the rows: a load is open in POSTED and OFFERS, its live
\* bids are its SENT and VIEWED offers.
StageOf(status) ==
  CASE status = "ABSENT"  -> "none"
    [] status = "AWARDED" -> "awarded"
    [] status \in OPEN_LOAD_STATUSES -> "open"
    [] status = "CANCELLED" -> "cancelled"
    [] status = "EXPIRED" -> "expired"

stage == [l \in Loads |-> StageOf(load[l].status)]
live == [l \in Loads |-> OpenOffersOf(l)]
awardedTo == [l \in Loads |-> load[l].awarded]

Auction == INSTANCE LoadAuction WITH Bids <- Offers, winner <- awardedTo

\* Request by request the API runs exactly that auction: one award, to a live
\* bid, which ends every other bid; a closed load never opens again.
ImplementsAuction == Auction!Spec

\* A load page lists no offer as open past its deadline: it swept first.
LoadPageIsSwept ==
  \A r \in Requests : page[r].view = "loadSent" =>
    \A o \in page[r].open : offer[o].expires > page[r].at

=============================================================================
