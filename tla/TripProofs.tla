----------------------------- MODULE TripProofs -----------------------------
(***************************************************************************)
(* Proofs about TripLifecycle for any number of drivers, trips, documents, *)
(* GPS points and overlapping requests.                                    *)
(***************************************************************************)
EXTENDS TripLifecycle, TLAPS

Users == Drivers \cup Carriers

\* One disjunct per action: what the proofs split on.
LEMMA StepCases ==
  ASSUME Next
  PROVE  \/ \E t \in Trips, d \in Drivers \cup {None} : CreateTrip(t, d)
         \/ \E r \in Requests, d \in Drivers : ReadForQuickJob(r, d)
         \/ \E r \in Requests, t \in Trips : CommitQuickJob(r, t)
         \/ \E r \in Requests, t \in Trips, u \in Drivers : ReadTripToStart(r, t, u)
         \/ \E r \in Requests, t \in Trips, u \in Users, to \in TRIP_STATUSES :
              ReadTripToMove(r, t, u, to)
         \/ \E r \in Requests : CheckMove(r)
         \/ \E r \in Requests : CommitMove(r)
         \/ \E r \in Requests, t \in Trips, d \in Drivers : ReadTripToAssign(r, t, d)
         \/ \E r \in Requests : CheckAssign(r)
         \/ \E r \in Requests : CommitAssign(r)
         \/ \E r \in Requests, d \in PodDocs, t \in Trips, u \in Users :
              CreateDocument(r, d, t, u)
         \/ \E r \in Requests : writeDocumentFile(r)
         \/ \E r \in Requests : RollBackUpload(r)
         \/ \E r \in Requests : CommitUpload(r)
         \/ \E r \in Requests, d \in PodDocs, s \in {"VERIFIED", "REJECTED"} :
              updateDocumentStatus(r, d, s)
         \/ \E r \in Requests, t \in Trips, u \in Drivers : ReadTripForGps(r, t, u)
         \/ \E r \in Requests, batch \in SUBSET Points : StorePings(r, batch)
         \/ \E r \in Requests : EndRequest(r)
BY Zenon DEF Next, Users

-----------------------------------------------------------------------------
(* Type correctness, table by table.                                       *)

LEMMA InitTypeOK == Init => TypeOK
BY DEF Init, TypeOK, TripRow, DocRow, EventRow, Request, NoTrip, NoDoc

LEMMA MovedRowType ==
  ASSUME NEW row \in TripRow, NEW to \in TRIP_STATUSES
  PROVE  /\ MovedRow(row, to) \in TripRow
         /\ MovedRow(row, to).status = to
         /\ MovedRow(row, to).driver = row.driver
         /\ MovedRow(row, to).delivered = (row.delivered \/ to = "DELIVERED")
         /\ to = "DELIVERED" => ~MovedRow(row, to).tracking
<1> DEFINE on == IF to = "EN_ROUTE" THEN TRUE ELSE row.tracking /\ to # "DELIVERED"
           dl == row.delivered \/ to = "DELIVERED"
<1>1. MovedRow(row, to) = [row EXCEPT !.status = to, !.tracking = on, !.delivered = dl]
  BY DEF MovedRow
<1>2. on \in BOOLEAN /\ dl \in BOOLEAN /\ (to = "DELIVERED" => ~on)
  BY DEF TripRow
<1> HIDE DEF on, dl
<1>3. MovedRow(row, to).delivered = dl
  BY <1>1 DEF TripRow
<1>4. MovedRow(row, to) \in TripRow
  BY <1>1, <1>2 DEF TripRow
<1>5. MovedRow(row, to).status = to /\ MovedRow(row, to).driver = row.driver
  BY <1>1 DEF TripRow
<1>6. MovedRow(row, to).tracking = on
  BY <1>1 DEF TripRow
<1> QED BY <1>2, <1>3, <1>4, <1>5, <1>6 DEF dl

LEMMA StepTypeOK ==
  ASSUME TypeOK, Next
  PROVE  TypeOK'
<1> USE DEF TypeOK
<1>1. ASSUME NEW t \in Trips, NEW d \in Drivers \cup {None}, CreateTrip(t, d)
      PROVE  TypeOK'
  <2>1. "DRAFT" \in TRIP_STATUSES
    BY DEF TRIP_STATUSES
  <2> QED BY <1>1, <2>1 DEF CreateTrip, TripRow, NoTrip, EventRow
<1>2. ASSUME NEW r \in Requests, NEW d \in Drivers, ReadForQuickJob(r, d)
      PROVE  TypeOK'
  BY <1>2 DEF ReadForQuickJob, Request
<1>3. ASSUME NEW r \in Requests, NEW t \in Trips, CommitQuickJob(r, t)
      PROVE  TypeOK'
  <2>1. req[r].driver \in Drivers
    BY <1>3 DEF CommitQuickJob, Request, Idle
  <2>2. "ASSIGNED" \in TRIP_STATUSES
    BY DEF TRIP_STATUSES, ACTIVE_ASSIGNMENT_STATUSES
  <2>3. trip' \in [Trips -> TripRow]
    BY <1>3, <2>1, <2>2 DEF CommitQuickJob, TripRow, NoTrip
  <2>4. event' \in [Trips -> EventRow]
    BY <1>3, <2>2 DEF CommitQuickJob, EventRow
  <2> QED BY <1>3, <2>3, <2>4 DEF CommitQuickJob, Request
<1>4. ASSUME NEW r \in Requests, NEW t \in Trips, NEW u \in Drivers, ReadTripToStart(r, t, u)
      PROVE  TypeOK'
  BY <1>4 DEF ReadTripToStart, Request
<1>5. ASSUME NEW r \in Requests, NEW t \in Trips, NEW u \in Users, NEW to \in TRIP_STATUSES,
             ReadTripToMove(r, t, u, to)
      PROVE  TypeOK'
  <2>1. trip[t].status # "ABSENT"
    BY <1>5 DEF ReadTripToMove, MayMove, canTransition, Edges
  <2>2. [op |-> "move", trip |-> t, from |-> trip[t].status, to |-> to,
         driver |-> trip[t].driver] \in Request
    BY <2>1 DEF Request, TripRow
  <2> QED BY <1>5, <2>2 DEF ReadTripToMove
<1>6. ASSUME NEW r \in Requests, CheckMove(r)
      PROVE  TypeOK'
  <2>1. req[r].trip \in Trips /\ req[r].from \in TRIP_STATUSES /\ req[r].to \in TRIP_STATUSES
    BY <1>6 DEF CheckMove, Request, Idle
  <2>2. [op |-> "moving", trip |-> req[r].trip, from |-> req[r].from,
         to |-> req[r].to] \in Request
    BY <2>1 DEF Request
  <2> QED BY <1>6, <2>2 DEF CheckMove
<1>7. ASSUME NEW r \in Requests, CommitMove(r)
      PROVE  TypeOK'
  <2>1. req[r].trip \in Trips /\ req[r].from \in TRIP_STATUSES /\ req[r].to \in TRIP_STATUSES
    BY <1>7 DEF CommitMove, Request, Idle
  <2>2. trip' \in [Trips -> TripRow]
    BY <1>7, <2>1, MovedRowType DEF CommitMove
  <2>3. event' \in [Trips -> EventRow]
    BY <1>7, <2>1 DEF CommitMove, EventRow
  <2> QED BY <1>7, <2>2, <2>3 DEF CommitMove, Request
<1>8. ASSUME NEW r \in Requests, NEW t \in Trips, NEW d \in Drivers, ReadTripToAssign(r, t, d)
      PROVE  TypeOK'
  <2>1. [op |-> "assign", trip |-> t, from |-> trip[t].status, driver |-> d] \in Request
    BY <1>8 DEF ReadTripToAssign, Request, TripRow
  <2> QED BY <1>8, <2>1 DEF ReadTripToAssign
<1>9. ASSUME NEW r \in Requests, CheckAssign(r)
      PROVE  TypeOK'
  <2>1. [req[r] EXCEPT !.op = "assigning"] \in Request
    BY <1>9 DEF CheckAssign, Request, Idle
  <2> QED BY <1>9, <2>1 DEF CheckAssign
<1>10. ASSUME NEW r \in Requests, CommitAssign(r)
       PROVE  TypeOK'
  <2>1. req[r].trip \in Trips /\ req[r].driver \in Drivers /\ req[r].from \in TRIP_STATUSES
    BY <1>10 DEF CommitAssign, Request, Idle
  <2>2. trip' \in [Trips -> TripRow]
    BY <1>10, <2>1 DEF CommitAssign, TripRow
  <2>3. event' \in [Trips -> EventRow]
    BY <1>10, <2>1 DEF CommitAssign, AssignEvent, EventRow
  <2> QED BY <1>10, <2>2, <2>3 DEF CommitAssign, Request
<1>11. ASSUME NEW r \in Requests, NEW d \in PodDocs, NEW t \in Trips, NEW u \in Users,
              CreateDocument(r, d, t, u)
       PROVE  TypeOK'
  BY <1>11 DEF CreateDocument, DocRow, DOC_STATUSES, Request
<1>12. ASSUME NEW r \in Requests, CommitUpload(r)
       PROVE  TypeOK'
  <2>1. doc' \in [PodDocs -> DocRow]
    BY <1>12 DEF CommitUpload, DocRow, DOC_STATUSES
  <2> QED BY <1>12, <2>1 DEF CommitUpload, Request
<1>13. ASSUME NEW r \in Requests, RollBackUpload(r)
       PROVE  TypeOK'
  BY <1>13 DEF RollBackUpload, DocRow, NoDoc, Request
<1>14. ASSUME NEW r \in Requests, NEW d \in PodDocs, NEW s \in {"VERIFIED", "REJECTED"},
              updateDocumentStatus(r, d, s)
       PROVE  TypeOK'
  BY <1>14 DEF updateDocumentStatus, DocRow, DOC_STATUSES
<1>15. ASSUME NEW r \in Requests, NEW t \in Trips, NEW u \in Drivers, ReadTripForGps(r, t, u)
       PROVE  TypeOK'
  BY <1>15 DEF ReadTripForGps, Request
<1>16. ASSUME NEW r \in Requests, NEW batch \in SUBSET Points, StorePings(r, batch)
       PROVE  TypeOK'
  BY <1>16 DEF StorePings, Request
<1>17. ASSUME NEW r \in Requests, EndRequest(r)
       PROVE  TypeOK'
  BY <1>17 DEF EndRequest, Request
<1>18. ASSUME NEW r \in Requests, writeDocumentFile(r)
       PROVE  TypeOK'
  <2>1. [req[r] EXCEPT !.op = "written"] \in Request
    BY <1>18 DEF writeDocumentFile, Request, Idle
  <2>2. doc' \in [PodDocs -> DocRow]
    BY <1>18 DEF writeDocumentFile, DocRow
  <2> QED BY <1>18, <2>1, <2>2 DEF writeDocumentFile
<1> QED
  BY <1>1, <1>2, <1>3, <1>4, <1>5, <1>6, <1>7, <1>8, <1>9, <1>10, <1>11, <1>12,
     <1>13, <1>14, <1>15, <1>16, <1>17, <1>18, StepCases

\* Every column of every table and every request in flight keeps its type.
THEOREM TripTypeCorrect == Spec => []TypeOK
<1>1. TypeOK /\ UNCHANGED vars => TypeOK'
  BY DEF TypeOK, vars
<1> QED BY <1>1, InitTypeOK, StepTypeOK, PTL DEF Spec

-----------------------------------------------------------------------------
(* Delivery.  A delivery time once written is kept; and whatever a request *)
(* read before it commits, a snapshot at or after DELIVERED was taken of a *)
(* trip that had been delivered.                                           *)

LEMMA DeliveredKept ==
  ASSUME TypeOK, Next, NEW t \in Trips, trip[t].delivered
  PROVE  trip'[t].delivered
<1> USE DEF TypeOK
<1>1. CASE UNCHANGED trip
  BY <1>1
<1>2. ASSUME NEW x \in Trips, NEW d \in Drivers \cup {None}, CreateTrip(x, d)
      PROVE  trip'[t].delivered
  BY <1>2 DEF CreateTrip, NoTrip
<1>3. ASSUME NEW r \in Requests, NEW x \in Trips, CommitQuickJob(r, x)
      PROVE  trip'[t].delivered
  BY <1>3 DEF CommitQuickJob, NoTrip
<1>4. ASSUME NEW r \in Requests, CommitMove(r)
      PROVE  trip'[t].delivered
  <2>1. req[r].trip \in Trips /\ req[r].to \in TRIP_STATUSES
    BY <1>4 DEF CommitMove, Request, Idle
  <2>2. CASE t # req[r].trip
    BY <1>4, <2>2 DEF CommitMove
  <2>3. CASE t = req[r].trip
    <3>1. trip'[t] = MovedRow(trip[t], req[r].to)
      BY <1>4, <2>3 DEF CommitMove
    <3>2. MovedRow(trip[t], req[r].to).delivered
      BY <2>1, MovedRowType
    <3> QED BY <3>1, <3>2
  <2> QED BY <2>2, <2>3
<1>5. ASSUME NEW r \in Requests, CommitAssign(r)
      PROVE  trip'[t].delivered
  BY <1>5 DEF CommitAssign, TripRow
<1> QED
  BY <1>1, <1>2, <1>3, <1>4, <1>5, StepCases
     DEF ReadForQuickJob, ReadTripToStart, ReadTripToMove, CheckMove, ReadTripToAssign,
         CheckAssign, CreateDocument, writeDocumentFile, CommitUpload, RollBackUpload,
         updateDocumentStatus, ReadTripForGps, StorePings, EndRequest

\* The delivery time the on-time KPI reads is never taken back.
THEOREM DeliveryTimeIsKept == Spec => DeliveryIsKept
<1>1. TypeOK /\ [Next]_vars =>
        [\A t \in Trips : trip[t].delivered => trip'[t].delivered]_vars
  BY DeliveredKept
<1> QED BY <1>1, TripTypeCorrect, PTL DEF Spec, DeliveryIsKept

Done == {"DELIVERED"} \cup Billing

SnapshotsAreSound ==
  \A r \in Requests :
    /\ req[r].op \in {"move", "moving"} => canTransition(req[r].from, req[r].to)
    /\ req[r].op \in {"move", "moving", "assign", "assigning"} /\ req[r].from \in Done
         => trip[req[r].trip].delivered

DoneTripsDelivered ==
  \A t \in Trips :
    /\ trip[t].status \in Done => trip[t].delivered
    /\ event[t].from \in Billing => trip[t].delivered
    /\ trip[t].status = "DELIVERED" => ~trip[t].tracking

DeliveryInv == SnapshotsAreSound /\ DoneTripsDelivered

LEMMA EdgesIntoDone ==
  ASSUME NEW from, NEW to, canTransition(from, to), to \in Billing
  PROVE  from \in Done
BY DEF canTransition, Edges, Billing, Done

LEMMA StepSnapshots ==
  ASSUME TypeOK, DeliveryInv, Next
  PROVE  SnapshotsAreSound'
<1> USE DEF TypeOK
<1> DEFINE Sound(q) ==
      /\ req'[q].op \in {"move", "moving"} => canTransition(req'[q].from, req'[q].to)
      /\ req'[q].op \in {"move", "moving", "assign", "assigning"} /\ req'[q].from \in Done
           => trip'[req'[q].trip].delivered
<1> SUFFICES ASSUME NEW q \in Requests
             PROVE  Sound(q)
  BY DEF SnapshotsAreSound, canTransition
<1>1. /\ req[q].op \in {"move", "moving"} => canTransition(req[q].from, req[q].to)
      /\ req[q].op \in {"move", "moving", "assign", "assigning"} =>
           /\ req[q].trip \in Trips
           /\ req[q].from \in Done => trip[req[q].trip].delivered
  BY DEF DeliveryInv, SnapshotsAreSound, Request, Idle
<1>2. CASE req'[q] = req[q]
  BY <1>1, <1>2, DeliveredKept
<1>3. CASE req'[q].op \notin {"move", "moving", "assign", "assigning"}
  BY <1>3
<1>4. ASSUME NEW r \in Requests, NEW t \in Trips, NEW u \in Users, NEW to \in TRIP_STATUSES,
             ReadTripToMove(r, t, u, to), req'[q] # req[q]
      PROVE  Sound(q)
  <2>1. req'[q] = [op |-> "move", trip |-> t, from |-> trip[t].status, to |-> to,
                   driver |-> trip[t].driver]
    BY <1>4 DEF ReadTripToMove
  <2>2. canTransition(trip[t].status, to)
    BY <1>4 DEF ReadTripToMove, MayMove
  <2>3. trip[t].status \in Done => trip[t].delivered
    BY DEF DeliveryInv, DoneTripsDelivered
  <2>4. trip' = trip
    BY <1>4 DEF ReadTripToMove
  <2> QED BY <2>1, <2>2, <2>3, <2>4
<1>5. ASSUME NEW r \in Requests, CheckMove(r), req'[q] # req[q]
      PROVE  Sound(q)
  <2>1. q = r /\ req[q].op = "move"
    BY <1>5 DEF CheckMove
  <2>2. req'[q] = [op |-> "moving", trip |-> req[q].trip, from |-> req[q].from,
                   to |-> req[q].to]
    BY <1>5, <2>1 DEF CheckMove
  <2>3. trip' = trip
    BY <1>5 DEF CheckMove
  <2> QED BY <1>1, <2>1, <2>2, <2>3
<1>6. ASSUME NEW r \in Requests, NEW t \in Trips, NEW d \in Drivers,
             ReadTripToAssign(r, t, d), req'[q] # req[q]
      PROVE  Sound(q)
  <2>1. req'[q] = [op |-> "assign", trip |-> t, from |-> trip[t].status, driver |-> d]
    BY <1>6 DEF ReadTripToAssign
  <2>2. trip[t].status \in Done => trip[t].delivered
    BY DEF DeliveryInv, DoneTripsDelivered
  <2>3. trip' = trip
    BY <1>6 DEF ReadTripToAssign
  <2> QED BY <2>1, <2>2, <2>3
<1>7. ASSUME NEW r \in Requests, CheckAssign(r), req'[q] # req[q]
      PROVE  Sound(q)
  <2>1. q = r /\ req[q].op = "assign"
    BY <1>7 DEF CheckAssign
  <2>2. req[q] \in [op: {"assign"}, trip: Trips, from: TRIP_STATUSES, driver: Drivers]
    BY <2>1 DEF Request, Idle
  <2>3. req'[q] = [req[q] EXCEPT !.op = "assigning"] /\ trip' = trip
    BY <1>7, <2>1 DEF CheckAssign
  <2>4. req'[q].op = "assigning" /\ req'[q].trip = req[q].trip /\ req'[q].from = req[q].from
    BY <2>2, <2>3
  <2> QED BY <1>1, <2>1, <2>3, <2>4
<1>8. CASE \E r \in Requests, d \in Drivers : ReadForQuickJob(r, d)
  BY <1>8, <1>2, <1>3 DEF ReadForQuickJob
<1>9. CASE \E r \in Requests : req' = [req EXCEPT ![r] = Idle]
  BY <1>9, <1>2, <1>3 DEF Idle
<1>10. CASE UNCHANGED req
  BY <1>10, <1>2
<1>11. CASE \E r \in Requests, t \in Trips, u \in Drivers : ReadTripToStart(r, t, u)
  BY <1>11, <1>2, <1>3 DEF ReadTripToStart
<1>12. CASE \E r \in Requests, t \in Trips, u \in Drivers : ReadTripForGps(r, t, u)
  BY <1>12, <1>2, <1>3 DEF ReadTripForGps
<1>13. CASE \E r \in Requests, d \in PodDocs, t \in Trips, u \in Users :
              CreateDocument(r, d, t, u)
  BY <1>13, <1>2, <1>3 DEF CreateDocument
<1>14. CASE \E r \in Requests, t \in Trips, u \in Users, to \in TRIP_STATUSES :
              ReadTripToMove(r, t, u, to)
  <2>1. CASE req'[q] # req[q]
    BY <1>4, <1>14, <2>1
  <2> QED BY <1>2, <2>1
<1>15. CASE \E r \in Requests : CheckMove(r)
  <2>1. CASE req'[q] # req[q]
    BY <1>5, <1>15, <2>1
  <2> QED BY <1>2, <2>1
<1>16. CASE \E r \in Requests, t \in Trips, d \in Drivers : ReadTripToAssign(r, t, d)
  <2>1. CASE req'[q] # req[q]
    BY <1>6, <1>16, <2>1
  <2> QED BY <1>2, <2>1
<1>17. CASE \E r \in Requests : CheckAssign(r)
  <2>1. CASE req'[q] # req[q]
    BY <1>7, <1>17, <2>1
  <2> QED BY <1>2, <2>1
<1>18. CASE \E r \in Requests : writeDocumentFile(r)
  <2>1. PICK r \in Requests : writeDocumentFile(r)
    BY <1>18
  <2>2. CASE q = r
    <3>1. req[r] \in [op: {"upload", "written"}, doc: PodDocs]
      BY <2>1 DEF writeDocumentFile, Request, Idle
    <3> QED BY <2>1, <2>2, <3>1, <1>3 DEF writeDocumentFile
  <2> QED BY <2>1, <2>2, <1>2 DEF writeDocumentFile
<1>19. \/ UNCHANGED req
       \/ \E r \in Requests : req' = [req EXCEPT ![r] = Idle]
       \/ \E r \in Requests : writeDocumentFile(r)
       \/ \E r \in Requests, d \in Drivers : ReadForQuickJob(r, d)
       \/ \E r \in Requests, t \in Trips, u \in Drivers : ReadTripToStart(r, t, u)
       \/ \E r \in Requests, t \in Trips, u \in Drivers : ReadTripForGps(r, t, u)
       \/ \E r \in Requests, d \in PodDocs, t \in Trips, u \in Users :
            CreateDocument(r, d, t, u)
       \/ \E r \in Requests, t \in Trips, u \in Users, to \in TRIP_STATUSES :
            ReadTripToMove(r, t, u, to)
       \/ \E r \in Requests : CheckMove(r)
       \/ \E r \in Requests, t \in Trips, d \in Drivers : ReadTripToAssign(r, t, d)
       \/ \E r \in Requests : CheckAssign(r)
  BY StepCases, Zenon
     DEF CreateTrip, CommitQuickJob, CommitMove, CommitAssign, CommitUpload,
         RollBackUpload, updateDocumentStatus, StorePings, EndRequest
<1> QED
  BY <1>8, <1>9, <1>10, <1>11, <1>12, <1>13, <1>14, <1>15, <1>16, <1>17, <1>18, <1>19

LEMMA StepDoneTrips ==
  ASSUME TypeOK, DeliveryInv, Next
  PROVE  DoneTripsDelivered'
<1> USE DEF TypeOK
<1> DEFINE Fine(t) == /\ trip'[t].status \in Done => trip'[t].delivered
                      /\ event'[t].from \in Billing => trip'[t].delivered
                      /\ trip'[t].status = "DELIVERED" => ~trip'[t].tracking
<1> SUFFICES ASSUME NEW t \in Trips
             PROVE  Fine(t)
  BY DEF DoneTripsDelivered
<1>1. /\ trip[t].status \in Done => trip[t].delivered
      /\ event[t].from \in Billing => trip[t].delivered
      /\ trip[t].status = "DELIVERED" => ~trip[t].tracking
  BY DEF DeliveryInv, DoneTripsDelivered
<1>2. CASE UNCHANGED <<trip, event>>
  BY <1>1, <1>2
<1>3. ASSUME NEW x \in Trips, NEW d \in Drivers \cup {None}, CreateTrip(x, d)
      PROVE  Fine(t)
  <2>1. CASE t = x
    <3>1. trip[t] = NoTrip /\ trip'[t].status = "DRAFT"
      BY <1>3, <2>1 DEF CreateTrip, NoTrip
    <3>2. event'[t].from = event[t].from
      BY <1>3 DEF CreateTrip, EventRow
    <3>3. event[t].from \notin Billing
      BY <1>1, <3>1 DEF NoTrip
    <3> QED BY <3>1, <3>2, <3>3 DEF Done, Billing
  <2>2. CASE t # x
    BY <1>1, <1>3, <2>2 DEF CreateTrip
  <2> QED BY <2>1, <2>2
<1>4. ASSUME NEW r \in Requests, NEW x \in Trips, CommitQuickJob(r, x)
      PROVE  Fine(t)
  <2>1. CASE t = x
    <3>1. trip[t] = NoTrip /\ trip'[t].status = "ASSIGNED"
      BY <1>4, <2>1 DEF CommitQuickJob, NoTrip
    <3>2. event'[t].from = event[t].from
      BY <1>4 DEF CommitQuickJob, EventRow
    <3>3. event[t].from \notin Billing
      BY <1>1, <3>1 DEF NoTrip
    <3> QED BY <3>1, <3>2, <3>3 DEF Done, Billing
  <2>2. CASE t # x
    BY <1>1, <1>4, <2>2 DEF CommitQuickJob
  <2> QED BY <2>1, <2>2
<1>5. ASSUME NEW r \in Requests, CommitMove(r)
      PROVE  Fine(t)
  <2>1. req[r].trip \in Trips /\ req[r].from \in TRIP_STATUSES /\ req[r].to \in TRIP_STATUSES
    BY <1>5 DEF CommitMove, Request, Idle
  <2>2. CASE t # req[r].trip
    BY <1>1, <1>5, <2>2 DEF CommitMove
  <2>3. CASE t = req[r].trip
    <3>1. trip'[t] = MovedRow(trip[t], req[r].to) /\ event'[t].from = req[r].from
      BY <1>5, <2>3 DEF CommitMove
    <3>2. /\ canTransition(req[r].from, req[r].to)
          /\ req[r].from \in Done => trip[t].delivered
      BY <1>5, <2>3 DEF CommitMove, DeliveryInv, SnapshotsAreSound
    <3>3. req[r].to \in Billing => req[r].from \in Done
      BY <3>2, EdgesIntoDone
    <3>4. /\ trip'[t].status = req[r].to
          /\ trip'[t].delivered = (trip[t].delivered \/ req[r].to = "DELIVERED")
          /\ req[r].to = "DELIVERED" => ~trip'[t].tracking
      BY <2>1, <3>1, MovedRowType
    <3> QED BY <3>1, <3>2, <3>3, <3>4 DEF Done
  <2> QED BY <2>2, <2>3
<1>6. ASSUME NEW r \in Requests, CommitAssign(r)
      PROVE  Fine(t)
  <2>1. CASE t # req[r].trip
    BY <1>1, <1>6, <2>1 DEF CommitAssign
  <2>2. CASE t = req[r].trip
    <3>1. trip'[t] = [trip[t] EXCEPT !.driver = req[r].driver]
      BY <1>6, <2>2 DEF CommitAssign
    <3>2. /\ trip'[t].status = trip[t].status
          /\ trip'[t].delivered = trip[t].delivered
          /\ trip'[t].tracking = trip[t].tracking
      BY <3>1 DEF TripRow
    <3>3. event'[t].from = req[r].from
      BY <1>6, <2>2 DEF CommitAssign, AssignEvent
    <3>4. req[r].from \in Done => trip[t].delivered
      BY <1>6, <2>2 DEF CommitAssign, DeliveryInv, SnapshotsAreSound
    <3> QED BY <1>1, <3>2, <3>3, <3>4 DEF Done
  <2> QED BY <2>1, <2>2
<1> QED
  BY <1>2, <1>3, <1>4, <1>5, <1>6, StepCases
     DEF ReadForQuickJob, ReadTripToStart, ReadTripToMove, CheckMove, ReadTripToAssign,
         CheckAssign, CreateDocument, writeDocumentFile, CommitUpload, RollBackUpload,
         updateDocumentStatus, ReadTripForGps, StorePings, EndRequest

LEMMA DeliveryInvariant == Spec => []DeliveryInv
<1>1. Init => DeliveryInv
  BY DEF Init, DeliveryInv, SnapshotsAreSound, DoneTripsDelivered, Idle, NoTrip,
         Done, Billing
<1>2. TypeOK /\ DeliveryInv /\ Next => DeliveryInv'
  BY StepSnapshots, StepDoneTrips DEF DeliveryInv
<1>3. DeliveryInv /\ UNCHANGED vars => DeliveryInv'
  BY DEF DeliveryInv, SnapshotsAreSound, DoneTripsDelivered, vars
<1> QED BY <1>1, <1>2, <1>3, TripTypeCorrect, PTL DEF Spec

\* No trip that was never delivered reaches the billing statuses, nor did it leave one.
THEOREM OnlyDeliveredTripsAreBilled == Spec => []BilledTripWasDelivered
<1>1. DeliveryInv => BilledTripWasDelivered
  BY DEF DeliveryInv, DoneTripsDelivered, BilledTripWasDelivered, Done
<1> QED BY <1>1, DeliveryInvariant, PTL

\* A trip that reads DELIVERED has stopped tracking and has its delivery time.
THEOREM DeliveredRowsAreComplete == Spec => []DeliveredRowIsComplete
<1>1. DeliveryInv => DeliveredRowIsComplete
  BY DEF DeliveryInv, DoneTripsDelivered, DeliveredRowIsComplete, Done
<1> QED BY <1>1, DeliveryInvariant, PTL

-----------------------------------------------------------------------------
(* Documents.  An upload in flight owns its row: no other request uploads  *)
(* under the same id, so nobody rolls back a row whose bytes are there.    *)

Uploading(r) == req[r].op \in {"upload", "written"}

UploadInv ==
  /\ UploadedIsOnDisk
  /\ \A r \in Requests :
       /\ Uploading(r) => doc[req[r].doc] # NoDoc
       /\ req[r].op = "written" => doc[req[r].doc].file
  /\ \A r, q \in Requests :
       Uploading(r) /\ Uploading(q) /\ req[r].doc = req[q].doc => r = q

LEMMA StepUploadInv ==
  ASSUME TypeOK, UploadInv, Next
  PROVE  UploadInv'
<1> USE DEF TypeOK
<1>1. ASSUME NEW r \in Requests, Uploading(r)
      PROVE  req[r].doc \in PodDocs /\ req[r] = [op |-> req[r].op, doc |-> req[r].doc]
  BY <1>1 DEF Uploading, Request, Idle
<1>2. ASSUME UNCHANGED doc, NEW r \in Requests,
             \A q \in Requests \ {r} : req'[q] = req[q],
             req'[r].op \notin {"upload", "written"}
      PROVE  UploadInv'
  BY <1>2 DEF UploadInv, UploadedIsOnDisk, Uploading
<1>3. CASE UNCHANGED <<doc, req>>
  BY <1>3 DEF UploadInv, UploadedIsOnDisk, Uploading
<1>4. ASSUME NEW r \in Requests, NEW d \in PodDocs, NEW t \in Trips, NEW u \in Users,
             CreateDocument(r, d, t, u)
      PROVE  UploadInv'
  <2>1. doc[d] = NoDoc /\ req'[r] = [op |-> "upload", doc |-> d]
    BY <1>4 DEF CreateDocument
  <2>2. doc'[d] = [status |-> "PENDING", trip |-> t, file |-> FALSE]
    BY <1>4 DEF CreateDocument
  <2>3. \A x \in PodDocs \ {d} : doc'[x] = doc[x]
    BY <1>4 DEF CreateDocument
  <2>4. \A q \in Requests \ {r} : req'[q] = req[q]
    BY <1>4 DEF CreateDocument
  <2>5. \A q \in Requests : Uploading(q) => req[q].doc \in PodDocs \ {d}
    BY <1>1, <2>1 DEF UploadInv
  <2>6. doc'[d] # NoDoc
    BY <2>2 DEF NoDoc
  <2>7. UploadedIsOnDisk'
    BY <2>2, <2>3 DEF UploadInv, UploadedIsOnDisk
  <2>8. \A q \in Requests : /\ Uploading(q)' => (doc[req[q].doc] # NoDoc)'
                            /\ req'[q].op = "written" => doc'[req'[q].doc].file
    BY <2>1, <2>3, <2>4, <2>5, <2>6 DEF UploadInv, Uploading
  <2>9. \A p, q \in Requests :
          Uploading(p)' /\ Uploading(q)' /\ req'[p].doc = req'[q].doc => p = q
    BY <2>1, <2>4, <2>5 DEF UploadInv, Uploading
  <2> QED BY <2>7, <2>8, <2>9 DEF UploadInv
<1>5. ASSUME NEW r \in Requests, writeDocumentFile(r)
      PROVE  UploadInv'
  <2> DEFINE d == req[r].doc
  <2>1. d \in PodDocs /\ Uploading(r) /\ req[r] = [op |-> "upload", doc |-> d]
    BY <1>1, <1>5 DEF writeDocumentFile, Uploading
  <2>2. req'[r] = [op |-> "written", doc |-> d]
    BY <1>5, <2>1 DEF writeDocumentFile
  <2>3. \A q \in Requests \ {r} : req'[q] = req[q]
    BY <1>5 DEF writeDocumentFile
  <2>4. doc'[d] = [doc[d] EXCEPT !.file = TRUE] /\ \A x \in PodDocs \ {d} : doc'[x] = doc[x]
    BY <1>5, <2>1 DEF writeDocumentFile
  <2>5. doc'[d].file /\ doc'[d].status = doc[d].status /\ doc'[d] # NoDoc
    BY <2>1, <2>4 DEF DocRow, NoDoc
  <2> HIDE DEF d
  <2>6. \A q \in Requests \ {r} : Uploading(q) => req[q].doc \in PodDocs \ {d}
    BY <1>1, <2>1 DEF UploadInv
  <2>7. UploadedIsOnDisk'
    BY <2>4, <2>5 DEF UploadInv, UploadedIsOnDisk
  <2>8. \A q \in Requests : /\ Uploading(q)' => (doc[req[q].doc] # NoDoc)'
                            /\ req'[q].op = "written" => doc'[req'[q].doc].file
    <3>1. ASSUME NEW q \in Requests \ {r}
          PROVE  /\ Uploading(q) => doc'[req[q].doc] # NoDoc
                 /\ req[q].op = "written" => doc'[req[q].doc].file
      BY <2>4, <2>6 DEF UploadInv, Uploading
    <3>2. doc'[req'[r].doc].file /\ doc'[req'[r].doc] # NoDoc
      BY <2>2, <2>5
    <3> QED BY <2>3, <3>1, <3>2 DEF Uploading
  <2>9. \A p, q \in Requests :
          Uploading(p)' /\ Uploading(q)' /\ req'[p].doc = req'[q].doc => p = q
    BY <2>2, <2>3, <2>6 DEF UploadInv, Uploading
  <2> QED BY <2>7, <2>8, <2>9 DEF UploadInv
<1>6. ASSUME NEW r \in Requests, RollBackUpload(r) \/ CommitUpload(r)
      PROVE  UploadInv'
  <2> DEFINE d == req[r].doc
  <2>1. d \in PodDocs /\ Uploading(r)
    BY <1>1, <1>6 DEF RollBackUpload, CommitUpload, Uploading
  <2>2. req'[r] = Idle /\ \A q \in Requests \ {r} : req'[q] = req[q]
    BY <1>6 DEF RollBackUpload, CommitUpload
  <2>3. \A x \in PodDocs \ {d} : doc'[x] = doc[x]
    BY <1>6 DEF RollBackUpload, CommitUpload
  <2>4. doc'[d].status = "UPLOADED" => doc'[d].file
    <3>1. CASE RollBackUpload(r)
      BY <2>1, <3>1 DEF RollBackUpload, NoDoc
    <3>2. CASE CommitUpload(r)
      <4>1. doc[d].file /\ doc'[d] = [doc[d] EXCEPT !.status = "UPLOADED"]
        BY <2>1, <3>2 DEF CommitUpload, UploadInv
      <4> QED BY <2>1, <4>1 DEF DocRow
    <3> QED BY <1>6, <3>1, <3>2
  <2>5. \A q \in Requests \ {r} : Uploading(q) => req[q].doc \in PodDocs \ {d}
    BY <1>1, <2>1 DEF UploadInv
  <2> HIDE DEF d
  <2>6. UploadedIsOnDisk'
    BY <2>3, <2>4 DEF UploadInv, UploadedIsOnDisk
  <2>7. \A q \in Requests : /\ Uploading(q)' => (doc[req[q].doc] # NoDoc)'
                            /\ req'[q].op = "written" => doc'[req'[q].doc].file
    BY <2>2, <2>3, <2>5 DEF UploadInv, Uploading, Idle
  <2>8. \A p, q \in Requests :
          Uploading(p)' /\ Uploading(q)' /\ req'[p].doc = req'[q].doc => p = q
    BY <2>2, <2>5 DEF UploadInv, Uploading, Idle
  <2> QED BY <2>6, <2>7, <2>8 DEF UploadInv
<1>7. ASSUME NEW r \in Requests, NEW d \in PodDocs, NEW s \in {"VERIFIED", "REJECTED"},
             updateDocumentStatus(r, d, s)
      PROVE  UploadInv'
  <2>1. doc'[d] = [doc[d] EXCEPT !.status = s] /\ \A x \in PodDocs \ {d} : doc'[x] = doc[x]
    BY <1>7 DEF updateDocumentStatus
  <2>2. doc'[d].status = s /\ doc'[d].file = doc[d].file
    BY <2>1 DEF DocRow
  <2>3. UploadedIsOnDisk'
    BY <2>1, <2>2 DEF UploadInv, UploadedIsOnDisk
  <2>4. doc'[d] # NoDoc
    BY <2>2 DEF NoDoc
  <2>5. \A q \in Requests : Uploading(q) => req[q].doc \in PodDocs
    BY <1>1
  <2> QED
    BY <1>7, <2>1, <2>2, <2>3, <2>4, <2>5
       DEF updateDocumentStatus, UploadInv, Uploading
<1>8. ASSUME NEW r \in Requests, UNCHANGED doc, req' = [req EXCEPT ![r] = Idle]
      PROVE  UploadInv'
  BY <1>2, <1>8 DEF Idle
<1>9. ASSUME NEW r \in Requests, CheckMove(r)
      PROVE  UploadInv'
  BY <1>2, <1>9 DEF CheckMove
<1>10. ASSUME NEW r \in Requests, CheckAssign(r)
       PROVE  UploadInv'
  <2>1. req[r] \in [op: {"assign", "assigning"}, trip: Trips, from: TRIP_STATUSES,
                    driver: Drivers]
    BY <1>10 DEF CheckAssign, Request, Idle
  <2>2. req'[r].op = "assigning"
    BY <1>10, <2>1 DEF CheckAssign
  <2> QED BY <1>2, <1>10, <2>2 DEF CheckAssign
<1>11. ASSUME NEW r \in Requests, NEW t \in Trips, NEW u \in Users, NEW to \in TRIP_STATUSES,
              ReadTripToMove(r, t, u, to)
       PROVE  UploadInv'
  BY <1>2, <1>11 DEF ReadTripToMove
<1>12. ASSUME NEW r \in Requests, NEW t \in Trips, NEW d \in Drivers,
              \/ ReadTripToStart(r, t, d)
              \/ ReadTripForGps(r, t, d)
              \/ ReadTripToAssign(r, t, d)
       PROVE  UploadInv'
  BY <1>2, <1>12 DEF ReadTripToStart, ReadTripForGps, ReadTripToAssign
<1>13. ASSUME NEW r \in Requests, NEW d \in Drivers, ReadForQuickJob(r, d)
       PROVE  UploadInv'
  BY <1>2, <1>13 DEF ReadForQuickJob
<1>14. \/ UNCHANGED <<doc, req>>
       \/ \E r \in Requests : UNCHANGED doc /\ req' = [req EXCEPT ![r] = Idle]
       \/ \E r \in Requests, d \in Drivers : ReadForQuickJob(r, d)
       \/ \E r \in Requests, t \in Trips, d \in Drivers :
            \/ ReadTripToStart(r, t, d)
            \/ ReadTripForGps(r, t, d)
            \/ ReadTripToAssign(r, t, d)
       \/ \E r \in Requests, t \in Trips, u \in Users, to \in TRIP_STATUSES :
            ReadTripToMove(r, t, u, to)
       \/ \E r \in Requests : CheckMove(r)
       \/ \E r \in Requests : CheckAssign(r)
       \/ \E r \in Requests, d \in PodDocs, t \in Trips, u \in Users :
            CreateDocument(r, d, t, u)
       \/ \E r \in Requests : writeDocumentFile(r)
       \/ \E r \in Requests : RollBackUpload(r) \/ CommitUpload(r)
       \/ \E r \in Requests, d \in PodDocs, s \in {"VERIFIED", "REJECTED"} :
            updateDocumentStatus(r, d, s)
  BY StepCases, Zenon
     DEF CreateTrip, CommitQuickJob, CommitMove, CommitAssign, StorePings, EndRequest
<1> QED
  BY <1>3, <1>4, <1>5, <1>6, <1>7, <1>8, <1>9, <1>10, <1>11, <1>12, <1>13, <1>14

\* A document that reads UPLOADED has its bytes on disk.
THEOREM UploadedDocumentsExist == Spec => []UploadedIsOnDisk
<1>1. Init => UploadInv
  BY DEF Init, UploadInv, UploadedIsOnDisk, Uploading, Idle, NoDoc
<1>2. TypeOK /\ UploadInv /\ Next => UploadInv'
  BY StepUploadInv
<1>3. UploadInv /\ UNCHANGED vars => UploadInv'
  BY DEF UploadInv, UploadedIsOnDisk, Uploading, vars
<1>4. UploadInv => UploadedIsOnDisk
  BY DEF UploadInv
<1> QED BY <1>1, <1>2, <1>3, <1>4, TripTypeCorrect, PTL DEF Spec

-----------------------------------------------------------------------------
(* One request at a time.  What the rules of trips-core.js promise needs   *)
(* that nothing is committed between the read, the gate and the commit of  *)
(* a request: what it read is then still true when it writes.              *)

OneAtATime == \A r, s \in Requests : r = s

RoadRules == OneActiveTripPerDriver /\ TrackingOnlyOnTheRoad /\ TimelineAgrees

\* What the request q read, and found at its gate, is still what the rows say.
StillTrue(q) ==
  /\ q.op \in {"move", "moving", "assign", "assigning"} => trip[q.trip].status = q.from
  /\ q.op \in {"move", "moving"} => canTransition(q.from, q.to)
  /\ q.op = "move" => trip[q.trip].driver = q.driver
  /\ q.op = "moving" /\ isActiveAssignment(q.to) /\ trip[q.trip].driver # None
       => ~driverHasActiveTrip(trip[q.trip].driver, q.trip)
  /\ q.op = "assigning" /\ isActiveAssignment(q.from) => ~driverHasActiveTrip(q.driver, q.trip)
  /\ q.op = "quickJob" => ~driverHasActiveTrip(q.driver, None)

SerialInv == RoadRules /\ \A r \in Requests : StillTrue(req[r])

LEMMA RulesStay ==
  ASSUME RoadRules, UNCHANGED <<trip, event>>
  PROVE  RoadRules'
BY DEF RoadRules, OneActiveTripPerDriver, TrackingOnlyOnTheRoad, TimelineAgrees

\* The only request there is wrote q.
LEMMA AloneInFlight ==
  ASSUME OneAtATime, TypeOK, NEW r \in Requests, NEW q, req' = [req EXCEPT ![r] = q],
         StillTrue(q)'
  PROVE  \A s \in Requests : StillTrue(req[s])'
<1> SUFFICES ASSUME NEW s \in Requests PROVE StillTrue(req[s])'
  OBVIOUS
<1>1. req'[s] = q
  BY DEF OneAtATime, TypeOK
<1> QED BY <1>1 DEF StillTrue, driverHasActiveTrip

LEMMA ReadsAreTrue ==
  ASSUME OneAtATime, TypeOK, SerialInv, UNCHANGED <<trip, event>>, NEW r \in Requests,
         NEW q, req' = [req EXCEPT ![r] = q], StillTrue(q)
  PROVE  SerialInv'
<1>1. StillTrue(q)'
  BY DEF StillTrue, driverHasActiveTrip
<1> QED BY <1>1, RulesStay, AloneInFlight DEF SerialInv

\* After a commit no request is in flight.
LEMMA CommitsAreTrue ==
  ASSUME OneAtATime, TypeOK, RoadRules', NEW r \in Requests, req' = [req EXCEPT ![r] = Idle]
  PROVE  SerialInv'
<1>1. StillTrue(Idle)'
  BY DEF StillTrue, Idle
<1> QED BY <1>1, AloneInFlight DEF SerialInv

\* The requests that touch neither trips nor their events.
LEMMA OtherRequests ==
  ASSUME OneAtATime, TypeOK, SerialInv, NEW r \in Requests,
         \/ \E t \in Trips, u \in Drivers : ReadTripToStart(r, t, u)
         \/ \E d \in PodDocs, t \in Trips, u \in Users : CreateDocument(r, d, t, u)
         \/ writeDocumentFile(r)
         \/ RollBackUpload(r) \/ CommitUpload(r)
         \/ \E d \in PodDocs, s \in {"VERIFIED", "REJECTED"} : updateDocumentStatus(r, d, s)
         \/ \E t \in Trips, u \in Drivers : ReadTripForGps(r, t, u)
         \/ \E batch \in SUBSET Points : StorePings(r, batch)
         \/ EndRequest(r)
  PROVE  SerialInv'
<1>1. UNCHANGED <<trip, event>>
  BY DEF ReadTripToStart, CreateDocument, writeDocumentFile, RollBackUpload, CommitUpload,
         updateDocumentStatus, ReadTripForGps, StorePings, EndRequest
<1>2. ASSUME NEW q, req' = [req EXCEPT ![r] = q],
             q.op \in {"start", "upload", "written", "gps", "idle"}
      PROVE  SerialInv'
  <2>1. StillTrue(q)
    BY <1>2 DEF StillTrue
  <2> QED BY <1>1, <1>2, <2>1, ReadsAreTrue
<1>3. CASE writeDocumentFile(r)
  <2>1. [req[r] EXCEPT !.op = "written"].op = "written"
    BY <1>3 DEF writeDocumentFile, TypeOK, Request, Idle
  <2> QED BY <1>2, <1>3, <2>1 DEF writeDocumentFile, TypeOK
<1>4. CASE \E d \in PodDocs, s \in {"VERIFIED", "REJECTED"} : updateDocumentStatus(r, d, s)
  <2>1. req' = [req EXCEPT ![r] = Idle]
    BY <1>4 DEF updateDocumentStatus, TypeOK
  <2> QED BY <1>2, <2>1 DEF Idle
<1>5. CASE \E t \in Trips, u \in Drivers : ReadTripToStart(r, t, u)
  BY <1>2, <1>5 DEF ReadTripToStart
<1>6. CASE \E d \in PodDocs, t \in Trips, u \in Users : CreateDocument(r, d, t, u)
  BY <1>2, <1>6 DEF CreateDocument
<1>7. CASE \E t \in Trips, u \in Drivers : ReadTripForGps(r, t, u)
  BY <1>2, <1>7 DEF ReadTripForGps
<1>8. CASE req' = [req EXCEPT ![r] = Idle]
  BY <1>2, <1>8 DEF Idle
<1> QED BY <1>3, <1>4, <1>5, <1>6, <1>7, <1>8 DEF RollBackUpload, CommitUpload, StorePings, EndRequest

LEMMA MoveReads ==
  ASSUME OneAtATime, TypeOK, SerialInv, NEW r \in Requests, NEW t \in Trips,
         NEW u \in Users, NEW to \in TRIP_STATUSES, ReadTripToMove(r, t, u, to)
  PROVE  SerialInv'
<1> DEFINE q == [op |-> "move", trip |-> t, from |-> trip[t].status, to |-> to,
                 driver |-> trip[t].driver]
<1>1. StillTrue(q)
  BY DEF StillTrue, ReadTripToMove, MayMove
<1> QED BY <1>1, ReadsAreTrue DEF ReadTripToMove

LEMMA MoveGates ==
  ASSUME OneAtATime, TypeOK, SerialInv, NEW r \in Requests, CheckMove(r)
  PROVE  SerialInv'
<1> DEFINE q == [op |-> "moving", trip |-> req[r].trip, from |-> req[r].from, to |-> req[r].to]
<1>1. StillTrue(req[r]) /\ req[r].op = "move"
  BY DEF SerialInv, CheckMove
<1>2. StillTrue(q)
  BY <1>1 DEF StillTrue, CheckMove
<1> QED BY <1>2, ReadsAreTrue DEF CheckMove

LEMMA AssignReads ==
  ASSUME OneAtATime, TypeOK, SerialInv, NEW r \in Requests, NEW t \in Trips,
         NEW d \in Drivers, ReadTripToAssign(r, t, d)
  PROVE  SerialInv'
<1>1. StillTrue([op |-> "assign", trip |-> t, from |-> trip[t].status, driver |-> d])
  BY DEF StillTrue
<1> QED BY <1>1, ReadsAreTrue DEF ReadTripToAssign

LEMMA AssignGates ==
  ASSUME OneAtATime, TypeOK, SerialInv, NEW r \in Requests, CheckAssign(r)
  PROVE  SerialInv'
<1> DEFINE q == [req[r] EXCEPT !.op = "assigning"]
<1>1. req[r] \in [op: {"assign"}, trip: Trips, from: TRIP_STATUSES, driver: Drivers]
  BY DEF CheckAssign, TypeOK, Request, Idle
<1>2. /\ q.op = "assigning" /\ q.trip = req[r].trip /\ q.from = req[r].from
      /\ q.driver = req[r].driver
  BY <1>1
<1>3. req' = [req EXCEPT ![r] = q] /\ UNCHANGED <<trip, event>>
  BY DEF CheckAssign, TypeOK
<1>4. StillTrue(req[r])
  BY DEF SerialInv
<1> HIDE DEF q
<1>5. StillTrue(q)
  BY <1>1, <1>2, <1>4 DEF StillTrue, CheckAssign
<1> QED BY <1>3, <1>5, ReadsAreTrue

LEMMA QuickJobReads ==
  ASSUME OneAtATime, TypeOK, SerialInv, NEW r \in Requests, NEW d \in Drivers,
         ReadForQuickJob(r, d)
  PROVE  SerialInv'
<1>1. StillTrue([op |-> "quickJob", driver |-> d])
  BY DEF StillTrue, ReadForQuickJob
<1> QED BY <1>1, ReadsAreTrue DEF ReadForQuickJob

\* A DRAFT keeps nobody busy, and no request has read a row that is not there yet.
LEMMA DraftsAreFree ==
  ASSUME TypeOK, SerialInv, NEW t \in Trips, NEW d \in Drivers \cup {None}, CreateTrip(t, d)
  PROVE  SerialInv'
<1>1. /\ trip[t].status = "ABSENT" /\ trip'[t].status = "DRAFT" /\ ~trip'[t].tracking
      /\ \A x \in Trips \ {t} : trip'[x] = trip[x]
      /\ UNCHANGED req
  BY DEF CreateTrip, NoTrip, TypeOK
<1>2. event'[t].to = "DRAFT" /\ \A x \in Trips \ {t} : event'[x] = event[x]
  BY DEF CreateTrip, TypeOK, EventRow
<1>3. ~isActiveAssignment("DRAFT") /\ ~isActiveAssignment("ABSENT")
  BY DEF isActiveAssignment, ACTIVE_ASSIGNMENT_STATUSES, EnRouteToDelivery, Disruptions
<1>4. RoadRules'
  BY <1>1, <1>2, <1>3 DEF SerialInv, RoadRules, OneActiveTripPerDriver, TrackingOnlyOnTheRoad,
                          TimelineAgrees
<1>5. \A e, x : driverHasActiveTrip(e, x)' => driverHasActiveTrip(e, x)
  BY <1>1, <1>3 DEF driverHasActiveTrip
<1>6. ASSUME NEW q \in Request, StillTrue(q) PROVE StillTrue(q)'
  <2>1. q.op \in {"move", "moving", "assign", "assigning"} => q.trip \in Trips \ {t}
    BY <1>1, <1>6 DEF StillTrue, Request, Idle, TRIP_STATUSES, ACTIVE_ASSIGNMENT_STATUSES,
                      EnRouteToDelivery, Disruptions, Billing
  <2> QED BY <1>1, <1>5, <1>6, <2>1 DEF StillTrue
<1> QED BY <1>1, <1>4, <1>6 DEF SerialInv, TypeOK

LEMMA QuickJobCommits ==
  ASSUME OneAtATime, TypeOK, SerialInv, NEW r \in Requests, NEW t \in Trips, CommitQuickJob(r, t)
  PROVE  SerialInv'
<1> DEFINE d == req[r].driver
<1>1. ~driverHasActiveTrip(d, None)
  BY DEF CommitQuickJob, SerialInv, StillTrue
<1>2. /\ trip'[t].status = "ASSIGNED" /\ ~trip'[t].tracking /\ trip'[t].driver = d
      /\ \A x \in Trips \ {t} : trip'[x] = trip[x]
  BY DEF CommitQuickJob, NoTrip, TypeOK
<1>3. event'[t].to = "ASSIGNED" /\ \A x \in Trips \ {t} : event'[x] = event[x]
  BY DEF CommitQuickJob, TypeOK, EventRow
<1> HIDE DEF d
<1>4. \A x \in Trips : trip[x].driver = d => ~isActiveAssignment(trip[x].status)
  BY <1>1, NoneIsNoId DEF driverHasActiveTrip
<1>5. RoadRules'
  BY <1>2, <1>3, <1>4 DEF SerialInv, RoadRules, OneActiveTripPerDriver, TrackingOnlyOnTheRoad,
                          TimelineAgrees
<1> QED BY <1>5, CommitsAreTrue DEF CommitQuickJob

\* Tracking stays on along an edge, and DELIVERED is the only way off the road.
LEMMA EdgesKeepTracking ==
  ASSUME NEW from \in EnRouteToDelivery \cup Disruptions, NEW to, canTransition(from, to)
  PROVE  to \in EnRouteToDelivery \cup Disruptions \cup {"DELIVERED"}
BY DEF canTransition, Edges, EnRouteToDelivery, Disruptions

LEMMA MoveCommits ==
  ASSUME OneAtATime, TypeOK, SerialInv, NEW r \in Requests, CommitMove(r)
  PROVE  SerialInv'
<1> DEFINE t == req[r].trip
           to == req[r].to
<1>1. t \in Trips /\ to \in TRIP_STATUSES
  BY DEF CommitMove, TypeOK, Request, Idle
<1>2. /\ canTransition(trip[t].status, to)
      /\ isActiveAssignment(to) /\ trip[t].driver # None => ~driverHasActiveTrip(trip[t].driver, t)
  BY DEF CommitMove, SerialInv, StillTrue
<1>3. trip' = [trip EXCEPT ![t] = MovedRow(trip[t], to)] /\ event'[t].to = to
      /\ \A x \in Trips \ {t} : trip'[x] = trip[x] /\ event'[x] = event[x]
  BY <1>1 DEF CommitMove, TypeOK
<1> HIDE DEF t, to
<1>4. trip[t] \in TripRow
  BY <1>1 DEF TypeOK
<1>5. trip'[t].status = to /\ trip'[t].driver = trip[t].driver
  BY <1>1, <1>3, <1>4, MovedRowType DEF TypeOK
<1>6. OneActiveTripPerDriver'
  <2>1. ASSUME NEW x \in Trips \ {t}, trip'[t].driver # None, trip[x].driver = trip'[t].driver,
               isActiveAssignment(to), isActiveAssignment(trip[x].status)
        PROVE  FALSE
    BY <1>2, <1>5, <2>1 DEF driverHasActiveTrip
  <2> QED BY <1>3, <1>5, <2>1 DEF SerialInv, RoadRules, OneActiveTripPerDriver
<1>7. TrackingOnlyOnTheRoad'
  <2>1. ASSUME trip'[t].tracking PROVE to \in EnRouteToDelivery \cup Disruptions
    <3>1. CASE to = "EN_ROUTE"
      BY <3>1 DEF EnRouteToDelivery
    <3>2. CASE to # "EN_ROUTE"
      <4>1. trip[t].tracking /\ to # "DELIVERED"
        BY <1>1, <1>3, <1>4, <2>1, <3>2 DEF MovedRow, TypeOK, TripRow
      <4>2. trip[t].status \in EnRouteToDelivery \cup Disruptions
        BY <1>1, <4>1 DEF SerialInv, RoadRules, TrackingOnlyOnTheRoad
      <4> QED BY <1>2, <4>1, <4>2, EdgesKeepTracking
    <3> QED BY <3>1, <3>2
  <2> QED BY <1>3, <1>5, <2>1 DEF SerialInv, RoadRules, TrackingOnlyOnTheRoad
<1>8. TimelineAgrees'
  BY <1>3, <1>5 DEF SerialInv, RoadRules, TimelineAgrees
<1> QED BY <1>6, <1>7, <1>8, CommitsAreTrue DEF CommitMove, RoadRules

LEMMA AssignCommits ==
  ASSUME OneAtATime, TypeOK, SerialInv, NEW r \in Requests, CommitAssign(r)
  PROVE  SerialInv'
<1> DEFINE t == req[r].trip
           d == req[r].driver
<1>1. t \in Trips /\ d \in Drivers
  BY DEF CommitAssign, TypeOK, Request, Idle
<1>2. /\ req[r].from = trip[t].status
      /\ isActiveAssignment(trip[t].status) => ~driverHasActiveTrip(d, t)
  BY DEF CommitAssign, SerialInv, StillTrue
<1>3. /\ trip' = [trip EXCEPT ![t].driver = d] /\ event'[t].to = trip[t].status
      /\ \A x \in Trips \ {t} : trip'[x] = trip[x] /\ event'[x] = event[x]
  BY <1>1, <1>2 DEF CommitAssign, AssignEvent, TypeOK
<1> HIDE DEF t, d
<1>4. /\ trip'[t].status = trip[t].status /\ trip'[t].driver = d
      /\ trip'[t].tracking = trip[t].tracking
  BY <1>1, <1>3 DEF TypeOK, TripRow
<1>5. OneActiveTripPerDriver'
  <2>1. ASSUME NEW x \in Trips \ {t}, trip[x].driver = d,
               isActiveAssignment(trip[t].status), isActiveAssignment(trip[x].status)
        PROVE  FALSE
    BY <1>2, <2>1 DEF driverHasActiveTrip
  <2> QED BY <1>3, <1>4, <2>1 DEF SerialInv, RoadRules, OneActiveTripPerDriver
<1>6. TrackingOnlyOnTheRoad' /\ TimelineAgrees'
  BY <1>3, <1>4 DEF SerialInv, RoadRules, TrackingOnlyOnTheRoad, TimelineAgrees
<1> QED BY <1>5, <1>6, CommitsAreTrue DEF CommitAssign, RoadRules

LEMMA SerialInvariant ==
  ASSUME OneAtATime
  PROVE  Spec => []SerialInv
<1>1. Init => SerialInv
  BY DEF Init, SerialInv, RoadRules, OneActiveTripPerDriver, TrackingOnlyOnTheRoad,
         TimelineAgrees, StillTrue, NoTrip, Idle
<1>2. TypeOK /\ SerialInv /\ Next => SerialInv'
  BY StepCases, OtherRequests, MoveReads, MoveGates, AssignReads, AssignGates, QuickJobReads,
     DraftsAreFree, QuickJobCommits, MoveCommits, AssignCommits
<1>3. SerialInv /\ UNCHANGED vars => SerialInv'
  <2> SUFFICES ASSUME SerialInv, UNCHANGED vars PROVE SerialInv'
    OBVIOUS
  <2> QED BY RulesStay DEF SerialInv, StillTrue, driverHasActiveTrip, vars
<1> QED BY <1>1, <1>2, <1>3, TripTypeCorrect, PTL DEF Spec

\* "Exactly one active assignment per driver", served one request at a time: by
\* assignment, start, recovery or quick job, no driver ever has two.
THEOREM OneActiveTripWhenSerial ==
  ASSUME OneAtATime
  PROVE  Spec => []OneActiveTripPerDriver
<1>1. SerialInv => OneActiveTripPerDriver
  BY DEF SerialInv, RoadRules
<1> QED BY <1>1, SerialInvariant, PTL

\* Positions are only taken between Start Trip and DELIVERED.
THEOREM TrackingEndsWithTheTrip ==
  ASSUME OneAtATime
  PROVE  Spec => []TrackingOnlyOnTheRoad
<1>1. SerialInv => TrackingOnlyOnTheRoad
  BY DEF SerialInv, RoadRules
<1> QED BY <1>1, SerialInvariant, PTL

\* The trip row and its timeline never disagree.
THEOREM TimelineAgreesWhenSerial ==
  ASSUME OneAtATime
  PROVE  Spec => []TimelineAgrees
<1>1. SerialInv => TimelineAgrees
  BY DEF SerialInv, RoadRules
<1> QED BY <1>1, SerialInvariant, PTL

=============================================================================
