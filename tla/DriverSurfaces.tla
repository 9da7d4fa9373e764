--------------------------- MODULE DriverSurfaces ---------------------------
(***************************************************************************)
(* The rules the drivers' pages apply before they send anything, next to   *)
(* the rules of the API: the moves and endings a page offers, the photo of *)
(* a document from the camera to its row, the proof-of-delivery gate and   *)
(* the upload right.  Every page carries its own copy of a rule; the       *)
(* promises at the end say where the copies agree.                         *)
(*                                                                         *)
(* File names are opaque texts; sizes are bytes, instants milliseconds,    *)
(* coordinates ten-thousandths of a degree, accuracies decimetres.         *)
(* Unreadable is a value that does not parse as a number.                  *)
(***************************************************************************)
EXTENDS Integers, Sequences, TripStatus

CONSTANTS
  Empty,          \* the file name with nothing in it
  Trimmed(_),     \* a file name without the blanks around it
  Sanitized(_),   \* what sanitizeFilename leaves of a file name
  Unreadable,
  Null            \* SQL NULL, JavaScript null

MAX_LAT == 900000
MAX_LNG == 1800000

ASSUME ValueAssumption ==
  /\ Unreadable \notin Int /\ Null \notin Int /\ Null # Unreadable
  /\ Null \notin TRIP_STATUSES
  /\ Null \notin [lat: Int \cup {Null}, lng: Int \cup {Null}, accuracy: Int \cup {Null}]
  /\ Sanitized(Empty) = Empty

-----------------------------------------------------------------------------
(* The moves a page offers.                                                *)

DISRUPTION_SOURCES ==
  [REFUSED |-> {"AT_PICKUP"}, BREAKDOWN |-> {"EN_ROUTE"},
   DELAYED |-> {"IN_TRANSIT"}, CUSTOMS_HOLD |-> {"AT_DELIVERY"}]
DISRUPTION_RESUME ==
  [REFUSED |-> "LOADED", BREAKDOWN |-> "EN_ROUTE",
   DELAYED |-> "IN_TRANSIT", CUSTOMS_HOLD |-> "AT_DELIVERY"]

\* The API's own reading of its table.
endingsFrom(from) == {to \in Disruptions : canTransition(from, to)}
resumeStatus(s) == IF s \in Disruptions THEN DISRUPTION_RESUME[s] ELSE Null

\* The table the fleet app, the solo page and the tracking page share.
ENDINGS == {
  [status |-> "REFUSED", sources |-> {"AT_PICKUP"},
   resumeTo |-> "LOADED", reportable |-> TRUE],
  [status |-> "BREAKDOWN", sources |-> {"EN_ROUTE"},
   resumeTo |-> "EN_ROUTE", reportable |-> TRUE],
  [status |-> "DELAYED", sources |-> {"IN_TRANSIT"},
   resumeTo |-> "IN_TRANSIT", reportable |-> FALSE],
  [status |-> "CUSTOMS_HOLD", sources |-> {"AT_DELIVERY"},
   resumeTo |-> "AT_DELIVERY", reportable |-> FALSE]}

isEnding(s) == \E e \in ENDINGS : e.status = s
EndingsShown(from, carrier) ==
  {e.status : e \in {x \in ENDINGS : from \in x.sources /\ (carrier \/ x.reportable)}}
Recovery(s) == {e.resumeTo : e \in {x \in ENDINGS : x.status = s}}
actionsFrom(s, carrier) ==
  IF isEnding(s) THEN (IF carrier THEN Recovery(s) ELSE {})
                 ELSE EndingsShown(s, carrier)

DRIVER_PHASES ==
  <<"ASSIGNED", "EN_ROUTE", "AT_PICKUP", "LOADED", "IN_TRANSIT", "AT_DELIVERY",
    "DELIVERED", "POD_UPLOADED">>
SOLO_STATUS_CHAIN ==
  <<"DRAFT", "ASSIGNED", "EN_ROUTE", "AT_PICKUP", "LOADED", "IN_TRANSIT",
    "AT_DELIVERY", "DELIVERED", "POD_UPLOADED">>

\* The one button of a job: the step after its status, none at the end.
nextStatusAfter(s) ==
  {SOLO_STATUS_CHAIN[i + 1] :
     i \in {j \in 1 .. Len(SOLO_STATUS_CHAIN) - 1 : SOLO_STATUS_CHAIN[j] = s}}
needsPodCapture(s) == "POD_UPLOADED" \in nextStatusAfter(s)
SoloOffers(s) == nextStatusAfter(s) \cup actionsFrom(s, TRUE)

ACTIVE_JOB_STATUSES ==
  {"ASSIGNED", "EN_ROUTE", "AT_PICKUP", "LOADED", "IN_TRANSIT", "AT_DELIVERY",
   "REFUSED", "BREAKDOWN", "DELAYED", "CUSTOMS_HOLD"}
activeJob(jobs) == {job \in jobs : job.status \in ACTIVE_JOB_STATUSES}

\* The page opens on the first trip still in play, else on the first one.
pickCurrentTrip(trips) ==
  LET InPlay == {i \in 1 .. Len(trips) : ~isTerminal(trips[i].status)}
  IN  IF InPlay # {} THEN trips[CHOOSE i \in InPlay : \A j \in InPlay : i <= j]
      ELSE IF trips # <<>> THEN trips[1] ELSE Null

-----------------------------------------------------------------------------
(* The upload, from the file to the row.                                   *)

DOC_TYPES == {"ecmr", "pod", "invoice", "driver_license", "cpc", "medical", "insurance",
              "tacho_file", "e_irsaliye"}
POD_DOC_TYPES == {"pod", "ecmr"}
ALLOWED_MIME == {"image/jpeg", "image/png", "image/webp", "image/heic", "image/heif",
                 "application/pdf"}
VERIFICATION_DOC_TYPES == {"id", "licence", "vehicle_registration", "insurance"}
VERIFICATION_MIME == {"image/jpeg", "image/png", "image/webp", "application/pdf"}
MAX_UPLOAD_BYTES == 10 * 1024 * 1024
MAX_CAPTURE_SKEW_MS == 24 * 60 * 60 * 1000

\* validateUpload of the fleet app, which My trips uses too.
validateUpload(file) ==
  /\ file.docType \in DOC_TYPES
  /\ file.mimeType \in ALLOWED_MIME
  /\ file.size \in 1 .. MAX_UPLOAD_BYTES

\* validatePodCapture of the solo page.
validatePodCapture(file) ==
  /\ Trimmed(file.filename) # Empty
  /\ file.mimeType \in ALLOWED_MIME
  /\ file.size \in 1 .. MAX_UPLOAD_BYTES

\* validateDocumentUpload of the API, whose limit the deployment may set.
validateDocumentUpload(file, maxBytes) ==
  /\ file.docType \in DOC_TYPES
  /\ Sanitized(file.filename) # Empty
  /\ file.mimeType \in ALLOWED_MIME
  /\ file.size \in 1 .. maxBytes

\* A verification paper is measured in its base64 form, without decoding it.
Base64Chars(n) == 4 * ((n + 2) \div 3)
Base64Padding(n) == (3 - (n % 3)) % 3
MeasuredBytes(chars, padding) ==
  LET bytes == (chars * 3) \div 4 - padding IN IF bytes > 0 THEN bytes ELSE 0
normalizeVerificationUpload(file) ==
  /\ file.docType \in VERIFICATION_DOC_TYPES
  /\ Trimmed(file.filename) # Empty
  /\ file.mimeType \in VERIFICATION_MIME
  /\ MeasuredBytes(Base64Chars(file.size), Base64Padding(file.size)) \in 1 .. MAX_UPLOAD_BYTES
  /\ file.expiresAt = Null \/ file.expiresAt \in Int

-----------------------------------------------------------------------------
(* Where and when the photo was taken.                                     *)

NumberOf(v) == IF v = Null THEN 0 ELSE v      \* Number(null) is 0
Round(decimetres) == ((decimetres + 5) \div 10) * 10
InRange(geo) == /\ NumberOf(geo.lat) \in -MAX_LAT .. MAX_LAT
                /\ NumberOf(geo.lng) \in -MAX_LNG .. MAX_LNG
Nowhere == [lat |-> Null, lng |-> Null, accuracy |-> Null]

CaptureAccepted(capturedAt, geo, now) ==
  /\ capturedAt # Null => capturedAt \in Int /\ capturedAt <= now + MAX_CAPTURE_SKEW_MS
  /\ geo # Null => InRange(geo) /\ (geo.accuracy = Null \/ geo.accuracy \in Nat)

\* What the API files of a position; the pages compute the same before they send.
normalizeCapture(geo) ==
  IF geo = Null THEN Nowhere
  ELSE [lat |-> NumberOf(geo.lat), lng |-> NumberOf(geo.lng),
        accuracy |-> IF geo.accuracy = Null THEN Null ELSE Round(geo.accuracy)]

\* The fleet app's last step: what is out of range is left out of the request.
normalizeGeo(geo) ==
  IF geo = Null THEN Null
  ELSE IF ~InRange(geo) THEN Null
  ELSE [lat |-> NumberOf(geo.lat), lng |-> NumberOf(geo.lng),
        accuracy |-> IF NumberOf(geo.accuracy) \in Nat THEN Round(NumberOf(geo.accuracy))
                                                       ELSE Null]

\* The position each page sends for a fix, Null when the phone had none.
PilotSends(fix) ==
  LET capture == normalizeCapture(fix) IN IF capture.lat = Null THEN Null ELSE capture
PanelSends(fix) == normalizeGeo(fix)
MyTripsSends(fix) == normalizeGeo(normalizeCapture(fix))

Fix == [lat: -MAX_LAT .. MAX_LAT, lng: -MAX_LNG .. MAX_LNG, accuracy: Nat]

-----------------------------------------------------------------------------
(* The gate, and who may upload.                                           *)

Present == {"UPLOADED", "VERIFIED"}
hasPresentDocument(docs, type) ==
  \E i \in 1 .. Len(docs) : docs[i].docType = type /\ docs[i].status \in Present
podSatisfied(docs) == \E type \in POD_DOC_TYPES : hasPresentDocument(docs, type)
REQUIRED_GROUPS == {POD_DOC_TYPES}
requiredMissing(docs) ==
  {group \in REQUIRED_GROUPS : \A type \in group : ~hasPresentDocument(docs, type)}

\* A row of the checklist shows the newest document of its type.
IsNewest(docs, i) == \A j \in i + 1 .. Len(docs) : docs[j].docType # docs[i].docType
documentChecklist(docs) ==
  {[docType |-> type, required |-> type \in POD_DOC_TYPES,
    present |-> \E i \in 1 .. Len(docs) : /\ docs[i].docType = type
                                          /\ IsNewest(docs, i)
                                          /\ docs[i].status \in Present] :
     type \in POD_DOC_TYPES \cup {"e_irsaliye", "invoice", "tacho_file"}}

canMarkPodUploaded(s, docs) == canTransition(s, "POD_UPLOADED") /\ podSatisfied(docs)

\* The seeded roles, as far as trips and their documents go.
Permissions ==
  [owner |-> {"trip:*"}, dispatcher |-> {"trip:*"}, accountant |-> {},
   driver |-> {"trip:read", "trip:status", "pod:upload"}, customer |-> {}]
hasPermission(granted, required, anyOfResource) ==
  granted \cap {required, anyOfResource, "*"} # {}
canManageDocuments(granted) == hasPermission(granted, "trip:*", "trip:*")
canUploadDocument(granted, isDriver) ==
  \/ canManageDocuments(granted)
  \/ hasPermission(granted, "pod:upload", "pod:*") /\ isDriver
canViewTripDocuments(granted, isDriver) ==
  \/ canManageDocuments(granted)
  \/ hasPermission(granted, "trip:read", "trip:*") /\ isDriver

MANAGE_ROLES == {"owner", "dispatcher"}
canUploadDocuments(role, isDriver) ==
  role \in MANAGE_ROLES \/ (role = "driver" /\ isDriver)

-----------------------------------------------------------------------------
(* What the copies of a rule promise each other.                           *)

\* "The two surfaces cannot offer different endings; the server re-validates":
\* what the pages offer is an edge of the API's table that the one who sees the
\* button may take, the carrier is offered every ending and every way out of one,
\* and the capture control stands where the gate is.
OffersAreLegal(s) ==
  /\ \A to \in SoloOffers(s) : canTransition(s, to)
  /\ actionsFrom(s, TRUE) = IF s \in Disruptions THEN {resumeStatus(s)} ELSE endingsFrom(s)
  /\ s \in Disruptions => \A to \in TRIP_STATUSES : canTransition(s, to) <=> to = resumeStatus(s)
  /\ s \in Disruptions =>
       \A from \in TRIP_STATUSES : canTransition(from, s) <=> from \in DISRUPTION_SOURCES[s]
  /\ \A to \in actionsFrom(s, FALSE) : canTransition(s, to) /\ ~requiresCarrierActor(s, to)
  /\ needsPodCapture(s) <=> canTransition(s, "POD_UPLOADED")

\* A solo driver is never stuck on the road, and the page leads him through every
\* phase, Start Trip and both arrivals included (QA 124).
SoloDriverGetsHome ==
  /\ \A s \in ACTIVE_ASSIGNMENT_STATUSES : SoloOffers(s) # {}
  /\ SOLO_STATUS_CHAIN = <<"DRAFT">> \o DRIVER_PHASES

\* The page shows a driver as busy exactly when the API would refuse a new job.
BusyIsBusy(jobs) == activeJob(jobs) = {job \in jobs : isActiveAssignment(job.status)}

\* A file a page lets through is not refused by the API, at a limit no lower than
\* the shipped one, unless nothing is left of its name; and the fleet app turns
\* away nothing the API takes at the shipped limit.
CheckedFilesAreTaken(file, maxBytes) ==
  /\ maxBytes >= MAX_UPLOAD_BYTES /\ Sanitized(file.filename) # Empty =>
       /\ validateUpload(file) => validateDocumentUpload(file, maxBytes)
       /\ validatePodCapture(file) =>
            validateDocumentUpload([file EXCEPT !.docType = "pod"], maxBytes)
  /\ validateDocumentUpload(file, MAX_UPLOAD_BYTES) => validateUpload(file)

\* "The compliance record is never silently wrong": what is filed with a photo is
\* the fix the phone took, or that there was none, whichever page sent it.
FiledAsTaken(fix) ==
  /\ normalizeCapture(PilotSends(fix)) = normalizeCapture(fix)
  /\ normalizeCapture(PanelSends(fix)) = normalizeCapture(fix)
  /\ fix # Null => normalizeCapture(MyTripsSends(fix)) = normalizeCapture(fix)

\* A capture a page accepts, the API accepts too, however late it is replayed, as
\* long as the phone's clock is not ahead of the server's.
AcceptedOnceIsAcceptedAgain(capturedAt, geo, phone, now) ==
  CaptureAccepted(capturedAt, geo, phone) /\ phone <= now =>
    /\ CaptureAccepted(capturedAt, PilotSends(geo), now)
    /\ CaptureAccepted(capturedAt, MyTripsSends(geo), now)

\* A checklist with a required row ticked belongs to a trip the gate lets pass, and
\* nothing is said to be missing there.  (The converse fails: a newer rejected POD
\* unticks the row of an older verified one.)
ChecklistKeepsItsWord(docs) ==
  /\ (\E row \in documentChecklist(docs) : row.required /\ row.present) => podSatisfied(docs)
  /\ requiredMissing(docs) = {} <=> podSatisfied(docs)

\* The page offers the upload to those the API lets upload, and to nobody else.
UploadIsOffered(role, isDriver) ==
  canUploadDocuments(role, isDriver) <=> canUploadDocument(Permissions[role], isDriver)

=============================================================================
