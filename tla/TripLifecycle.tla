--------------------------- MODULE TripLifecycle ---------------------------
(***************************************************************************)
(* The trip a carrier executes: the status machine of diagram 07, driver   *)
(* assignment, Start Trip, the proof-of-delivery gate and GPS ingest.      *)
(*                                                                         *)
(* As in Marketplace, no handler locks what it reads.  Each await between  *)
(* two statements is a step boundary: a request reads the trip, then the   *)
(* gate its target needs (documents, or the driver's other trips), then    *)
(* commits one transaction that writes without looking again.              *)
(***************************************************************************)
EXTENDS Naturals, FiniteSets, TripStatus

CONSTANTS
  Drivers,    \* users who may be a trip's driver (trip:status, pod:upload)
  Carriers,   \* users holding trip:* (owner, dispatcher, solo driver)
  Trips,      \* ids of Trip rows
  PodDocs,    \* ids of Document rows of type pod or ecmr
  Points,     \* client ids of sampled GPS points
  Requests,   \* the requests the API serves at the same time
  None        \* SQL NULL

ASSUME NoneIsNoId == None \notin Drivers \cup Trips \cup PodDocs

VARIABLES
  trip,    \* the Trip table
  event,   \* the newest StatusEvent row of each trip
  doc,     \* the Document table
  ping,    \* the GpsPing rows of each trip
  req      \* what each request in flight has read so far

vars == <<trip, event, doc, ping, req>>

DOC_STATUSES == {"PENDING", "UPLOADED", "VERIFIED", "REJECTED"}

\* A row that is not in its table has status "ABSENT".  delivered stands for
\* deliveredAt # NULL.
TripRow == [status: TRIP_STATUSES \cup {"ABSENT"}, driver: Drivers \cup {None},
            tracking: BOOLEAN, delivered: BOOLEAN]
\* file: the bytes are on disk under the row's storageKey.
DocRow == [status: DOC_STATUSES \cup {"ABSENT"}, trip: Trips \cup {None}, file: BOOLEAN]
\* from is "ABSENT" until the trip has its first event; to is then its first status.
EventRow == [from: TRIP_STATUSES \cup {"ABSENT"}, to: TRIP_STATUSES \cup {"ABSENT"}]

Idle == [op |-> "idle"]
Request ==
  {Idle}
  \cup [op: {"start"}, trip: Trips, user: Drivers]
  \cup [op: {"move"}, trip: Trips, from: TRIP_STATUSES, to: TRIP_STATUSES,
        driver: Drivers \cup {None}]
  \cup [op: {"moving"}, trip: Trips, from: TRIP_STATUSES, to: TRIP_STATUSES]
  \cup [op: {"assign", "assigning"}, trip: Trips, from: TRIP_STATUSES, driver: Drivers]
  \cup [op: {"quickJob"}, driver: Drivers]
  \cup [op: {"upload", "written"}, doc: PodDocs]
  \cup [op: {"gps"}, trip: Trips]

TypeOK ==
  /\ trip \in [Trips -> TripRow]
  /\ event \in [Trips -> EventRow]
  /\ doc \in [PodDocs -> DocRow]
  /\ ping \in [Trips -> SUBSET Points]
  /\ req \in [Requests -> Request]

NoTrip == [status |-> "ABSENT", driver |-> None, tracking |-> FALSE,
           delivered |-> FALSE]
NoDoc == [status |-> "ABSENT", trip |-> None, file |-> FALSE]

Init ==
  /\ trip = [t \in Trips |-> NoTrip]
  /\ event = [t \in Trips |-> [from |-> "ABSENT", to |-> "ABSENT"]]
  /\ doc = [d \in PodDocs |-> NoDoc]
  /\ ping = [t \in Trips |-> {}]
  /\ req = [r \in Requests |-> Idle]

-----------------------------------------------------------------------------
(* The rules of trips-core.js and auth/permissions.js.                     *)

canTransitionTrip(u, t) == u \in Carriers \/ u = trip[t].driver

driverHasActiveTrip_AssignedOnly(d, t) ==
  \E x \in Trips : trip[x].driver = d /\ trip[x].status = "ASSIGNED" /\ x # t
driverHasActiveTrip(d, t) ==
  \E x \in Trips \ {t} : trip[x].driver = d /\ isActiveAssignment(trip[x].status)

hasPodDocument(t) ==
  \E d \in PodDocs : doc[d].trip = t /\ doc[d].status \in {"UPLOADED", "VERIFIED"}

-----------------------------------------------------------------------------
(* A trip comes to exist.                                                  *)

\* POST /trips, POST /customer/orders and the award transaction: a DRAFT row, with
\* or without a driver.
CreateTrip(t, d) ==
  /\ trip[t] = NoTrip
  /\ trip' = [trip EXCEPT ![t] = [NoTrip EXCEPT !.status = "DRAFT", !.driver = d]]
  /\ event' = [event EXCEPT ![t].to = "DRAFT"]
  /\ UNCHANGED <<doc, ping, req>>

\* POST /solo/jobs: its transaction first reads the driver's active trips ...
ReadForQuickJob(r, d) ==
  /\ req[r] = Idle
  /\ d \in Carriers
  /\ ~driverHasActiveTrip(d, None)
  /\ req' = [req EXCEPT ![r] = [op |-> "quickJob", driver |-> d]]
  /\ UNCHANGED <<trip, event, doc, ping>>

\* ... then inserts a trip that is ASSIGNED from the start, without an event.
CommitQuickJob(r, t) ==
  /\ req[r].op = "quickJob"
  /\ trip[t] = NoTrip
  /\ trip' = [trip EXCEPT ![t] = [NoTrip EXCEPT !.status = "ASSIGNED",
                                                !.driver = req[r].driver]]
  /\ event' = [event EXCEPT ![t].to = "ASSIGNED"]
  /\ req' = [req EXCEPT ![r] = Idle]
  /\ UNCHANGED <<doc, ping>>

-----------------------------------------------------------------------------
(* transitionTrip: POST /trips/:id/status and POST /trips/:id/start.        *)

\* startTrip reads the row once for its own checks.
ReadTripToStart(r, t, u) ==
  /\ req[r] = Idle
  /\ u = trip[t].driver
  /\ trip[t].status = "ASSIGNED"
  /\ req' = [req EXCEPT ![r] = [op |-> "start", trip |-> t, user |-> u]]
  /\ UNCHANGED <<trip, event, doc, ping>>

\* transitionTrip reads it, for startTrip once more.
MayMove(u, t, to) ==
  /\ canTransitionTrip(u, t)
  /\ canTransition(trip[t].status, to)
  /\ requiresCarrierActor(trip[t].status, to) => u \in Carriers

ReadTripToMove(r, t, u, to) ==
  /\ \/ req[r] = Idle
     \/ req[r] = [op |-> "start", trip |-> t, user |-> u] /\ to = "EN_ROUTE"
  /\ MayMove(u, t, to)
  /\ req' = [req EXCEPT ![r] = [op |-> "move", trip |-> t, from |-> trip[t].status,
                                to |-> to, driver |-> trip[t].driver]]
  /\ UNCHANGED <<trip, event, doc, ping>>

\* The gate of the target: a POD document, or no other active trip of the driver.
CheckMove(r) ==
  /\ req[r].op = "move"
  /\ req[r].to = "POD_UPLOADED" => hasPodDocument(req[r].trip)
  /\ isActiveAssignment(req[r].to) /\ req[r].driver # None
       => ~driverHasActiveTrip(req[r].driver, req[r].trip)
  /\ req' = [req EXCEPT ![r] = [op |-> "moving", trip |-> req[r].trip,
                                from |-> req[r].from, to |-> req[r].to]]
  /\ UNCHANGED <<trip, event, doc, ping>>

\* The columns a move to status to writes.
MovedRow_KeepsTracking(row, to) ==
  [row EXCEPT !.status = to,
              !.tracking = @ \/ to = "EN_ROUTE",
              !.delivered = @ \/ to = "DELIVERED"]
MovedRow_ResetsDelivered(row, to) ==
  [row EXCEPT !.status = to,
              !.tracking = IF to = "EN_ROUTE" THEN TRUE ELSE @ /\ to # "DELIVERED",
              !.delivered = to = "DELIVERED"]
MovedRow(row, to) ==
  [row EXCEPT !.status = to,
              !.tracking = IF to = "EN_ROUTE" THEN TRUE ELSE @ /\ to # "DELIVERED",
              !.delivered = @ \/ to = "DELIVERED"]

CommitMove(r) ==
  /\ req[r].op = "moving"
  /\ LET t == req[r].trip
     IN  /\ trip' = [trip EXCEPT ![t] = MovedRow(@, req[r].to)]
         /\ event' = [event EXCEPT ![t] = [from |-> req[r].from, to |-> req[r].to]]
  /\ req' = [req EXCEPT ![r] = Idle]
  /\ UNCHANGED <<doc, ping>>

-----------------------------------------------------------------------------
(* assignDriver: POST /trips/:id/assign.                                    *)

ReadTripToAssign(r, t, d) ==
  /\ req[r] = Idle
  /\ trip[t].status # "ABSENT"
  /\ ~isTerminal(trip[t].status)
  /\ trip[t].driver # d
  /\ req' = [req EXCEPT ![r] = [op |-> "assign", trip |-> t,
                                from |-> trip[t].status, driver |-> d]]
  /\ UNCHANGED <<trip, event, doc, ping>>

CheckAssign(r) ==
  /\ req[r].op = "assign"
  /\ isActiveAssignment(req[r].from)
       => ~driverHasActiveTrip(req[r].driver, req[r].trip)
  /\ req' = [req EXCEPT ![r].op = "assigning"]
  /\ UNCHANGED <<trip, event, doc, ping>>

\* The status does not move; the event repeats the status the request read.
AssignEvent_Assigned(from) == [from |-> from, to |-> "ASSIGNED"]
AssignEvent(from) == [from |-> from, to |-> from]

CommitAssign(r) ==
  /\ req[r].op = "assigning"
  /\ trip' = [trip EXCEPT ![req[r].trip].driver = req[r].driver]
  /\ event' = [event EXCEPT ![req[r].trip] = AssignEvent(req[r].from)]
  /\ req' = [req EXCEPT ![r] = Idle]
  /\ UNCHANGED <<doc, ping>>

-----------------------------------------------------------------------------
(* Documents: POST /trips/:id/documents and PATCH /documents/:id.           *)

\* createDocument inserts the PENDING row; the bytes are written after it.
CreateDocument_Uploaded(r, d, t, u) ==
  /\ req[r] = Idle
  /\ doc[d] = NoDoc
  /\ trip[t].status # "ABSENT"
  /\ u \in Carriers \/ u = trip[t].driver
  /\ doc' = [doc EXCEPT ![d] = [status |-> "UPLOADED", trip |-> t, file |-> FALSE]]
  /\ req' = [req EXCEPT ![r] = [op |-> "upload", doc |-> d]]
  /\ UNCHANGED <<trip, event, ping>>
CreateDocument(r, d, t, u) ==
  /\ req[r] = Idle
  /\ doc[d] = NoDoc
  /\ trip[t].status # "ABSENT"
  /\ u \in Carriers \/ u = trip[t].driver
  /\ doc' = [doc EXCEPT ![d] = [status |-> "PENDING", trip |-> t, file |-> FALSE]]
  /\ req' = [req EXCEPT ![r] = [op |-> "upload", doc |-> d]]
  /\ UNCHANGED <<trip, event, ping>>

writeDocumentFile(r) ==
  /\ req[r].op = "upload"
  /\ doc' = [doc EXCEPT ![req[r].doc].file = TRUE]
  /\ req' = [req EXCEPT ![r].op = "written"]
  /\ UNCHANGED <<trip, event, ping>>

\* The storage key was refused: the row is deleted.
RollBackUpload_MarksFailed(r) ==
  /\ req[r].op = "upload"
  /\ doc' = [doc EXCEPT ![req[r].doc].status = "FAILED"]
  /\ req' = [req EXCEPT ![r] = Idle]
  /\ UNCHANGED <<trip, event, ping>>
RollBackUpload(r) ==
  /\ req[r].op = "upload"
  /\ doc' = [doc EXCEPT ![req[r].doc] = NoDoc]
  /\ req' = [req EXCEPT ![r] = Idle]
  /\ UNCHANGED <<trip, event, ping>>

\* The bytes are on disk: the row is flipped, whatever it says by now.
CommitUpload(r) ==
  /\ req[r].op = "written"
  /\ doc' = [doc EXCEPT ![req[r].doc].status = "UPLOADED"]
  /\ req' = [req EXCEPT ![r] = Idle]
  /\ UNCHANGED <<trip, event, ping>>

\* A carrier's decision is one unconditional UPDATE: any row, also a PENDING one.
updateDocumentStatus(r, d, status) ==
  /\ req[r] = Idle
  /\ doc[d] # NoDoc
  /\ doc' = [doc EXCEPT ![d].status = status]
  /\ UNCHANGED <<trip, event, ping, req>>

-----------------------------------------------------------------------------
(* ingestGpsPings: POST /trips/:id/gps.                                     *)

ReadTripForGps(r, t, u) ==
  /\ req[r] = Idle
  /\ u = trip[t].driver
  /\ trip[t].tracking
  /\ req' = [req EXCEPT ![r] = [op |-> "gps", trip |-> t]]
  /\ UNCHANGED <<trip, event, doc, ping>>

\* createMany with skipDuplicates: a point sent again changes nothing.
StorePings(r, batch) ==
  /\ req[r].op = "gps"
  /\ ping' = [ping EXCEPT ![req[r].trip] = @ \cup batch]
  /\ req' = [req EXCEPT ![r] = Idle]
  /\ UNCHANGED <<trip, event, doc>>

-----------------------------------------------------------------------------
\* The request was refused, its next step threw (a full disk while the bytes are
\* written), or its process died: nothing undoes what is committed.
EndRequest(r) ==
  /\ req[r] # Idle
  /\ req' = [req EXCEPT ![r] = Idle]
  /\ UNCHANGED <<trip, event, doc, ping>>

Next ==
  \/ \E t \in Trips, d \in Drivers \cup {None} : CreateTrip(t, d)
  \/ \E r \in Requests :
       \/ \E d \in Drivers : ReadForQuickJob(r, d)
       \/ \E t \in Trips : CommitQuickJob(r, t)
       \/ \E t \in Trips, u \in Drivers : ReadTripToStart(r, t, u)
       \/ \E t \in Trips, u \in Drivers \cup Carriers, to \in TRIP_STATUSES :
            ReadTripToMove(r, t, u, to)
       \/ CheckMove(r)
       \/ CommitMove(r)
       \/ \E t \in Trips, d \in Drivers : ReadTripToAssign(r, t, d)
       \/ CheckAssign(r)
       \/ CommitAssign(r)
       \/ \E d \in PodDocs, t \in Trips, u \in Drivers \cup Carriers :
            CreateDocument(r, d, t, u)
       \/ writeDocumentFile(r)
       \/ RollBackUpload(r)
       \/ CommitUpload(r)
       \/ \E d \in PodDocs, s \in {"VERIFIED", "REJECTED"} : updateDocumentStatus(r, d, s)
       \/ \E t \in Trips, u \in Drivers : ReadTripForGps(r, t, u)
       \/ \E batch \in SUBSET Points : StorePings(r, batch)
       \/ EndRequest(r)

Spec == Init /\ [][Next]_vars
-----------------------------------------------------------------------------
(* What holds however the requests interleave.                             *)

\* No customer is billed for a trip that was never delivered: a trip that is in
\* POD_UPLOADED or later, or whose newest event left such a status, has its
\* delivery time, also when a late commit threw it back to an earlier status.
BilledTripWasDelivered ==
  \A t \in Trips :
    trip[t].status \in Billing \/ event[t].from \in Billing => trip[t].delivered

\* The row of a trip that reads DELIVERED is the delivery's: tracking is off and
\* the delivery time is there, whatever other commit raced with it.
DeliveredRowIsComplete ==
  \A t \in Trips :
    trip[t].status = "DELIVERED" => ~trip[t].tracking /\ trip[t].delivered

\* A document that reads UPLOADED has its bytes on disk, although the row is
\* inserted first and a crash or a verdict may come between.
UploadedIsOnDisk == \A d \in PodDocs : doc[d].status = "UPLOADED" => doc[d].file

\* The delivery time the on-time KPI reads is never taken back.
DeliveryIsKept ==
  [][\A t \in Trips : trip[t].delivered => trip'[t].delivered]_vars

-----------------------------------------------------------------------------
(* What the rules promise, and what overlapping requests break.            *)

\* "Exactly one active assignment per driver": otherwise both trips are refused
\* with driver_busy from then on.
OneActiveTripPerDriver ==
  \A x, y \in Trips :
    /\ trip[x].driver # None /\ trip[x].driver = trip[y].driver
    /\ isActiveAssignment(trip[x].status) /\ isActiveAssignment(trip[y].status)
    => x = y

\* Tracking is on only between Start Trip and DELIVERED.
TrackingOnlyOnTheRoad ==
  \A t \in Trips :
    trip[t].tracking => trip[t].status \in EnRouteToDelivery \cup Disruptions

\* "The trip row and its timeline can never disagree."
TimelineAgrees == \A t \in Trips : event[t].to = trip[t].status

=============================================================================
