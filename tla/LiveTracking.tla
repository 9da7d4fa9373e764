---------------------------- MODULE LiveTracking ----------------------------
(***************************************************************************)
(* Live tracking from the driver's phone to whoever watches.  The Android  *)
(* app samples positions into a local table and flushes them from two      *)
(* background workers that may run at once; the API stores each batch and  *)
(* publishes it to the streams open on the trip; viewers keep the newest   *)
(* position.  The statuses a trip goes through are those of TripLifecycle, *)
(* cut down to what switches tracking.                                     *)
(***************************************************************************)
EXTENDS Naturals, FiniteSets, FiniteSetsExt

CONSTANTS
  MaxTrips,    \* bound: trips the driver is given
  Viewers,     \* live panels
  Follows,     \* the trip each panel shows
  Guests,      \* those in the customer portal; the others are in the fleet app
  MAX_BATCH_SIZE, \* points per request
  MaxPoints,   \* bound: points ever sampled
  None         \* no trip

Trips == 1 .. MaxTrips           \* in the order they are assigned
Points == 1 .. MaxPoints          \* a point's number is its time
Workers == {"now", "periodic"}

ASSUME Bounds == /\ MaxTrips \in Nat /\ None \notin Trips /\ None \notin Workers
                 /\ Guests \subseteq Viewers /\ Follows \in [Viewers -> Trips]
                 /\ MAX_BATCH_SIZE \in Nat \ {0} /\ MaxPoints \in Nat

VARIABLES
  \* server
  phase,    \* Trip.status: tracking is on exactly while "moving"
  stored,   \* GpsPing rows per point
  \* phone
  local,    \* the rows of the local trip table
  outbox,   \* the status change queued for each trip
  point,    \* the trip of each sampled point
  unsent,   \* points with uploaded = 0
  service,  \* the trip the location service samples
  active,   \* TrackingStateStore.activeTripId, kept over restarts
  work,     \* workers WorkManager has scheduled
  flush,    \* what each running worker still holds
  net,      \* requests to POST /trips/:id/gps on their way
  \* viewers
  view      \* the live panel of each viewer

server == <<phase, stored>>
phone == <<local, outbox, point, unsent, service, active, work, flush, net>>
vars == <<server, phone, view>>

tracking(t) == phase[t] = "moving"

\* The state a live surface shows for a trip.
liveState(t) == CASE phase[t] = "over" -> "completed"
                  [] tracking(t) -> "live"
                  [] OTHER -> "not_started"

IdleWorker == [on |-> FALSE, todo |-> {}, batch |-> {}, answer |-> "none"]
Closed == [state |-> "closed", last |-> 0]

Worker == [on: BOOLEAN, todo: SUBSET Points, batch: SUBSET Points,
           answer: {"none", "ok", "off"}]
Post == [from: Workers \cup {None}, trip: Trips, points: SUBSET Points]

TypeOK ==
  /\ phase \in [Trips -> {"none", "assigned", "moving", "over"}]
  /\ stored \in [Points -> Nat]
  /\ local \in [Trips -> {"none", "assigned", "moving", "over"}]
  /\ outbox \in [Trips -> {"none", "start", "deliver"}]
  /\ point \in [Points -> Trips \cup {None}]
  /\ unsent \subseteq {p \in Points : point[p] # None}
  /\ service \in Trips \cup {None} /\ active \in Trips \cup {None}
  /\ work \subseteq Workers
  /\ flush \in [Workers -> Worker]
  /\ net \subseteq Post
  /\ \A w \in Workers :
       /\ flush[w].answer # "none" => flush[w].batch # {}
       /\ \A q \in net : q.from = w => q.points = flush[w].batch /\ flush[w].answer = "none"
  /\ view \in [Viewers -> [state: {"closed", "waiting", "open"}, last: Points \cup {0}]]

Init ==
  /\ phase = [t \in Trips |-> "none"]
  /\ stored = [p \in Points |-> 0]
  /\ local = [t \in Trips |-> "none"]
  /\ outbox = [t \in Trips |-> "none"]
  /\ point = [p \in Points |-> None]
  /\ unsent = {}
  /\ service = None /\ active = None
  /\ work = {}
  /\ flush = [w \in Workers |-> IdleWorker]
  /\ net = {}
  /\ view = [v \in Viewers |-> Closed]

-----------------------------------------------------------------------------
(* The phone's tracking window.                                            *)

\* Requests whose worker no longer listens still reach the server.
Abandoned_Listening == net
Abandoned == {[q EXCEPT !.from = None] : q \in net}

enqueueFlush == work' = work \cup {"now"}

\* TrackingScheduler.start, with what the service does when it starts.
start(t) ==
  /\ active' = t /\ service' = t
  /\ work' = work \cup {"now", "periodic"}

\* TrackingScheduler.stop cancels both workers, the one that calls it too.
stop ==
  /\ active' = None /\ service' = None
  /\ work' = {}
  /\ flush' = [w \in Workers |-> IdleWorker]
  /\ net' = Abandoned

\* The one trip the tracking service should follow.
activeTrips_Assigned(rows) == {t \in Trips : rows[t] = "assigned"}
activeTrips(rows) == {t \in Trips : rows[t] = "moving"}

\* A trip is given to the driver when no other one is open.
Assign(t) ==
  /\ phase[t] = "none"
  /\ \A u \in Trips : u < t => phase[u] = "over"
  /\ phase' = [phase EXCEPT ![t] = "assigned"]
  /\ UNCHANGED <<stored, phone, view>>

\* The trips screen opens: before its rows are there it sees no active trip and
\* stops tracking; then it starts again for the active one.  The rows are those
\* of the server when the refresh succeeds.
OpenTrips(refreshed) ==
  LET rows == IF refreshed THEN phase ELSE local IN
  /\ local' = rows
  /\ flush' = [w \in Workers |-> IdleWorker]
  /\ net' = Abandoned
  /\ IF activeTrips(rows) = {}
     THEN active' = None /\ service' = None /\ work' = {}
     ELSE \E t \in activeTrips(rows) : start(t)
  /\ UNCHANGED <<server, outbox, point, unsent, view>>

\* Start Trip on the phone: the change is queued, sampling starts at once.
StartTrip(t) ==
  /\ local[t] = "assigned" /\ outbox[t] = "none"
  /\ outbox' = [outbox EXCEPT ![t] = "start"]
  /\ start(t)
  /\ UNCHANGED <<server, local, point, unsent, flush, net, view>>

\* Delivered on the phone: sampling goes on until the rows are read again or
\* the server refuses a batch.
DeliverTrip(t) ==
  /\ local[t] = "moving" /\ outbox[t] = "none"
  /\ outbox' = [outbox EXCEPT ![t] = "deliver"]
  /\ UNCHANGED <<server, local, point, unsent, service, active, work, flush, net, view>>

\* The queued change reaches the server, which refuses one that is not legal.
SyncStatus(t) ==
  /\ outbox[t] # "none"
  /\ outbox' = [outbox EXCEPT ![t] = "none"]
  /\ phase' = [phase EXCEPT ![t] =
       CASE outbox[t] = "start" /\ @ = "assigned" -> "moving"
         [] outbox[t] = "deliver" /\ @ = "moving" -> "over"
         [] OTHER -> @]
  /\ UNCHANGED <<stored, local, point, unsent, service,
                 active, work, flush, net, view>>

\* The process dies; a sticky restart has no intent and stops itself.
Die ==
  /\ service' = None
  /\ flush' = [w \in Workers |-> IdleWorker]
  /\ net' = Abandoned
  /\ UNCHANGED <<server, local, outbox, point, unsent, active, work, view>>

\* The phone boots: the window is opened again when the system lets it.
Boot ==
  /\ flush' = [w \in Workers |-> IdleWorker]
  /\ net' = Abandoned
  /\ \/ active # None /\ service' = active /\ work' = work \cup {"now", "periodic"}
     \/ service' = None /\ enqueueFlush
  /\ UNCHANGED <<server, local, outbox, point, unsent, active, view>>

-----------------------------------------------------------------------------
(* Sampling and flushing.                                                  *)

\* A position fix: the point is stored on the phone before anything is sent.
Sample(p) ==
  /\ service # None
  /\ point[p] = None /\ \A q \in Points : q < p => point[q] # None
  /\ point' = [point EXCEPT ![p] = service]
  /\ unsent' = unsent \cup {p}
  /\ enqueueFlush
  /\ UNCHANGED <<server, local, outbox, service, active, flush, net, view>>

\* A worker reads every unsent point; the one-time worker ends when there is none.
FlushRead(w) ==
  /\ w \in work /\ ~flush[w].on
  /\ IF unsent = {}
     THEN w = "now" /\ work' = work \ {w} /\ UNCHANGED flush
     ELSE flush' = [flush EXCEPT ![w] = [IdleWorker EXCEPT !.on = TRUE, !.todo = unsent]]
          /\ UNCHANGED work
  /\ UNCHANGED <<server, local, outbox, point, unsent, service, active, net, view>>

\* groupBy and chunkForUpload: the trip of the oldest point goes first, and of
\* its points the oldest.
NextBatch(todo) ==
  LET group == {p \in todo : point[p] = point[Min(todo)]}
  IN  {p \in group : Cardinality({q \in group : q <= p}) <= MAX_BATCH_SIZE}

FlushPost(w) ==
  /\ flush[w].on /\ flush[w].batch = {}
  /\ LET batch == NextBatch(flush[w].todo) IN
       /\ flush' = [flush EXCEPT ![w].batch = batch]
       /\ net' = net \cup {[from |-> w, trip |-> point[Min(batch)], points |-> batch]}
  /\ UNCHANGED <<server, local, outbox, point, unsent, service, active, work, view>>

\* markUploaded and purgeUploaded; the worker is done after its last batch.
MarkUploaded(batch) == unsent \ batch

FlushAccepted(w) ==
  /\ flush[w].answer = "ok"
  /\ unsent' = MarkUploaded(flush[w].batch)
  /\ LET todo == flush[w].todo \ flush[w].batch IN
       /\ flush' = [flush EXCEPT ![w] =
            IF todo = {} THEN IdleWorker ELSE [IdleWorker EXCEPT !.on = TRUE, !.todo = todo]]
       /\ work' = IF todo = {} /\ w = "now" THEN work \ {w} ELSE work
  /\ UNCHANGED <<server, local, outbox, point, service, active, net, view>>

\* 409 tracking_off: the flush ends, and the worker stops all tracking.
FlushRefused(w) ==
  /\ flush[w].answer = "off"
  /\ stop
  /\ UNCHANGED <<server, local, outbox, point, unsent, view>>

\* No answer in time: the flush ends and is retried; the request may still arrive.
FlushFails(w) ==
  /\ flush[w].batch # {} /\ flush[w].answer = "none"
  /\ flush' = [flush EXCEPT ![w] = IdleWorker]
  /\ net' = {IF q.from = w THEN [q EXCEPT !.from = None] ELSE q : q \in net}
  /\ UNCHANGED <<server, local, outbox, point, unsent, service, active, work, view>>

LoseRequest(q) ==
  /\ net' = net \ {q}
  /\ UNCHANGED <<server, local, outbox, point, unsent, service, active, work, flush, view>>

-----------------------------------------------------------------------------
(* POST /trips/:id/gps and the streams.                                    *)

\* createMany with skipDuplicates.
Inserted_Replays(points) ==
  [p \in Points |-> IF p \in points THEN stored[p] + 1 ELSE stored[p]]
Inserted(points) ==
  [p \in Points |-> IF p \in points /\ stored[p] = 0 THEN 1 ELSE stored[p]]

\* A point that is not newer than the last known one is ignored.
applyPoint_Latest(last, p) == p
applyPoint(last, p) == IF p <= last THEN last ELSE p

\* The points of a batch, oldest first, one by one through applyPoint.
applyAll(last, points) ==
  LET after[p \in 0 .. MaxPoints] ==
        IF p = 0 THEN last
        ELSE IF p \in points THEN applyPoint(after[p - 1], p) ELSE after[p - 1]
  IN  after[MaxPoints]

publish(t, points) ==
  view' = [v \in Viewers |->
             IF view[v].state = "open" /\ Follows[v] = t
             THEN [view[v] EXCEPT !.last = applyAll(@, points)]
             ELSE view[v]]

answer(q, a) ==
  flush' = IF q.from = None THEN flush ELSE [flush EXCEPT ![q.from].answer = a]

\* The gap between the read of the trip and the insert is TripLifecycle's.
Ingest(q) ==
  /\ tracking(q.trip)
  /\ stored' = Inserted(q.points)
  /\ publish(q.trip, q.points)
  /\ answer(q, "ok")
  /\ net' = net \ {q}
  /\ UNCHANGED <<phase, local, outbox, point, unsent,
                 service, active, work>>

RefuseIngest(q) ==
  /\ ~tracking(q.trip)
  /\ answer(q, "off")
  /\ net' = net \ {q}
  /\ UNCHANGED <<server, local, outbox, point, unsent, service, active, work, view>>

-----------------------------------------------------------------------------
(* Who watches.                                                            *)

SetView(v, panel) == /\ view' = [view EXCEPT ![v] = panel]
                     /\ UNCHANGED <<server, phone>>

\* A panel is drawn from the trip it read; only a live one wants a stream.
OpenPanel(v) ==
  /\ view[v].state = "closed"
  /\ liveState(Follows[v]) = "live"
  /\ SetView(v, [state |-> "waiting", last |-> 0])

\* stopLiveStream, stopLiveChannel: every panel closes the stream of the one before.
LeavePanel(v) == view[v].state # "closed" /\ SetView(v, Closed)

\* The stream opens whatever has become of the trip meanwhile.  The token of a
\* guest may open none any more: no step.
OpenStream(v) ==
  /\ view[v].state = "waiting"
  /\ SetView(v, [view[v] EXCEPT !.state = "open"])

\* EventSource opens the link's stream again and the panel keeps the position it
\* has; the fleet app does not.
StreamDrops(v) ==
  /\ view[v].state = "open"
  /\ SetView(v, IF v \in Guests THEN [view[v] EXCEPT !.state = "waiting"] ELSE Closed)

-----------------------------------------------------------------------------
Driver ==
  \/ \E t \in Trips : StartTrip(t) \/ DeliverTrip(t) \/ SyncStatus(t)
  \/ \E refreshed \in BOOLEAN : OpenTrips(refreshed)
  \/ Die \/ Boot
  \/ \E p \in Points : Sample(p)
Background ==
  \/ \E w \in Workers : FlushRead(w) \/ FlushPost(w) \/ FlushAccepted(w)
                        \/ FlushRefused(w) \/ FlushFails(w)
  \/ \E q \in net : LoseRequest(q) \/ Ingest(q) \/ RefuseIngest(q)
Watching ==
  \E v \in Viewers : OpenPanel(v) \/ OpenStream(v) \/ StreamDrops(v) \/ LeavePanel(v)
Next ==
  \/ \E t \in Trips : Assign(t)
  \/ Driver \/ Background \/ Watching

\* A request for a point is answered while its worker still waits.
AnswerFor(p, q) == q.from # None /\ p \in q.points /\ (Ingest(q) \/ RefuseIngest(q))

\* WorkManager runs what is scheduled and retries with backoff, and a request
\* that is sent again and again gets through.  The driver comes back to the
\* trips screen, where every step of the day is taken.
Fairness ==
  /\ SF_vars(\E w \in Workers : FlushRead(w))
  /\ SF_vars(\E w \in Workers : FlushPost(w))
  /\ \A p \in Points : SF_vars(\E q \in net : AnswerFor(p, q))
  /\ SF_vars(\E w \in Workers : FlushAccepted(w) \/ FlushRefused(w))
  /\ WF_vars(OpenTrips(TRUE))

Spec == Init /\ [][Next]_vars
FairSpec == Spec /\ Fairness

-----------------------------------------------------------------------------
(* Properties.                                                             *)

\* "No point is ever dropped", and none counts twice: what the phone no longer
\* keeps is stored, and workers that send the same points at once, lost answers
\* and late requests never store one twice.
EveryPointOnce ==
  \A p \in Points :
    /\ point[p] # None /\ p \notin unsent => stored[p] = 1
    /\ stored[p] <= 1 /\ (stored[p] = 1 => point[p] # None)

\* "The map never jumps backwards": while a panel shows one trip its position
\* only gets newer, though batches are replayed and overtake each other.
MapNeverJumpsBack ==
  [][\A v \in Viewers :
       view'[v].state # "closed" => view'[v].last >= view[v].last]_vars

\* A point of a trip that stays tracked arrives, unless the phone holds points
\* of a trip that is not tracked.
Arrives(p) == stored[p] = 1
StaysTracked(p) == point[p] # None /\ tracking(point[p])
NothingAhead == \A q \in unsent : tracking(point[q])
PointsArrive == \A p \in Points : <>[](StaysTracked(p) /\ NothingAhead) => <>Arrives(p)

=============================================================================
