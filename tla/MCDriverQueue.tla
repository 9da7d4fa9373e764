--------------------------- MODULE MCDriverQueue ---------------------------
(* Changes on one trip, as each of the three clients replays them, and the  *)
(* rules their pages apply, over small inputs.                              *)
EXTENDS DriverQueue, DriverSurfaces
MCEngines == {"pilot", "app", "android"}
MCStart == {"IN_TRANSIT"}

\* A name of blanks only, and one of which the API's alphabet leaves nothing.
MCTrimmed(name) == IF name = " " THEN "" ELSE name
MCSanitized(name) == IF name \in {"pod.jpg", "cmr.pdf"} THEN name ELSE ""

MCFiles ==
  [docType: {"pod", "ecmr", "id", "other"}, filename: {"", " ", "pod.jpg", "cyrillic"},
   mimeType: {"image/jpeg", "image/heic", "text/plain"},
   size: {0, 1, MAX_UPLOAD_BYTES, MAX_UPLOAD_BYTES + 1}]
MCFixes ==
  [lat: {-MAX_LAT, 0, MAX_LAT}, lng: {-MAX_LNG, 5}, accuracy: {0, 4, 5, 123}]
MCPositions ==
  {Null} \cup [lat: {Null, Unreadable, 0, MAX_LAT + 1}, lng: {Null, 5, MAX_LNG + 1},
              accuracy: {Null, Unreadable, -1, 7}]
MCDocRows == [docType: {"pod", "ecmr", "invoice"}, status: {"PENDING", "VERIFIED", "REJECTED"}]
MCDocLists == UNION {[1 .. n -> MCDocRows] : n \in 0 .. 3}

ASSUME SurfacePromises ==
  /\ \A s \in TRIP_STATUSES : OffersAreLegal(s)
  /\ SoloDriverGetsHome
  /\ BusyIsBusy([status: TRIP_STATUSES])
  /\ \A file \in MCFiles, maxBytes \in {MAX_UPLOAD_BYTES, MAX_UPLOAD_BYTES + 1} :
       CheckedFilesAreTaken(file, maxBytes)
  /\ \A fix \in MCFixes \cup {Null} : FiledAsTaken(fix)
  /\ \A at \in {Null, Unreadable, 5, MAX_CAPTURE_SKEW_MS + 6}, geo \in MCPositions, phone \in 4 .. 6 :
       AcceptedOnceIsAcceptedAgain(at, geo, phone, 5)
  /\ \A docs \in MCDocLists : ChecklistKeepsItsWord(docs)
  /\ \A role \in DOMAIN Permissions, isDriver \in BOOLEAN : UploadIsOffered(role, isDriver)

\* The base64 form of every small file is measured to the byte.
ASSUME MeasuredToTheByte ==
  \A n \in 0 .. 200 : MeasuredBytes(Base64Chars(n), Base64Padding(n)) = n

\* What does not hold: a photo of My trips without a fix is filed in the Gulf of
\* Guinea, and a rejected POD hides the verified one before it.
ASSUME SurfaceSurprises ==
  /\ normalizeCapture(MyTripsSends(Null)) = [lat |-> 0, lng |-> 0, accuracy |-> 0]
  /\ LET docs == <<[docType |-> "pod", status |-> "VERIFIED"],
                   [docType |-> "pod", status |-> "REJECTED"]>>
     IN  /\ podSatisfied(docs)
         /\ \A row \in documentChecklist(docs) : ~row.present
=============================================================================
