---------------------------- MODULE LoadAuction ----------------------------
(***************************************************************************)
(* What the marketplace promises about a load, without rows or requests:   *)
(* bids come in while it is open, it is awarded at most once, to a live    *)
(* bid, the award or the cancellation ends every bid, and no closed load   *)
(* opens again.  This is diagram 05 as marketplace.js words it.            *)
(***************************************************************************)
CONSTANTS Loads, Bids, None

VARIABLES
  stage,   \* of each load: "none", "open", "awarded", "cancelled", "expired"
  live,    \* the bids on each load that may still be taken up
  winner   \* the bid each awarded load went to

Init ==
  /\ stage = [l \in Loads |-> "none"]
  /\ live = [l \in Loads |-> {}]
  /\ winner = [l \in Loads |-> None]

Post(l) ==
  /\ stage[l] = "none"
  /\ stage' = [stage EXCEPT ![l] = "open"]
  /\ UNCHANGED <<live, winner>>

Bid(l, b) ==
  /\ stage[l] = "open"
  /\ b \notin UNION {live[k] : k \in Loads}
  /\ live' = [live EXCEPT ![l] = @ \cup {b}]
  /\ UNCHANGED <<stage, winner>>

\* A counter-offer takes the place of the bid it answers, also after the load's
\* deadline: only the bids themselves carry the negotiation.
Counter(l, b, c) ==
  /\ b \in live[l]
  /\ c \notin UNION {live[k] : k \in Loads}
  /\ live' = [live EXCEPT ![l] = (@ \ {b}) \cup {c}]
  /\ UNCHANGED <<stage, winner>>

Award(l, b) ==
  /\ stage[l] = "open"
  /\ b \in live[l]
  /\ stage' = [stage EXCEPT ![l] = "awarded"]
  /\ winner' = [winner EXCEPT ![l] = b]
  /\ live' = [live EXCEPT ![l] = {}]

Cancel(l) ==
  /\ stage[l] = "open"
  /\ stage' = [stage EXCEPT ![l] = "cancelled"]
  /\ live' = [live EXCEPT ![l] = {}]
  /\ UNCHANGED winner

\* Deadlines close loads and bids separately: a bid may outlive its load.
ExpireLoads(ls) ==
  /\ \A l \in ls : stage[l] = "open"
  /\ stage' = [l \in Loads |-> IF l \in ls THEN "expired" ELSE stage[l]]
  /\ UNCHANGED <<live, winner>>

EndBids(bs) ==
  /\ live' = [l \in Loads |-> live[l] \ bs]
  /\ UNCHANGED <<stage, winner>>

Next ==
  \/ \E l \in Loads :
       \/ Post(l)
       \/ \E b \in Bids : Bid(l, b) \/ Award(l, b)
       \/ \E b, c \in Bids : Counter(l, b, c)
       \/ Cancel(l)
  \/ \E ls \in SUBSET Loads : ExpireLoads(ls)
  \/ \E bs \in SUBSET Bids : EndBids(bs)

Spec == Init /\ [][Next]_<<stage, live, winner>>

=============================================================================
