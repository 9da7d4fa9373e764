------------------------------ MODULE SoloCab ------------------------------
(***************************************************************************)
(* The handlers of the solo driver's app (solo.js).  What an answer brings *)
(* is kept in one state and the whole panel is drawn from it, for the      *)
(* panel the handler belongs to, whatever panel is open by then.           *)
(***************************************************************************)
EXTENDS PageHandlers

SoloPanels == {"feed", "offers", "beacon", "verify", "jobs", "customers", "profile"}

signIn == Entry("login", "token")
signUp == Entry("signup", "token")
\* The second request of a sign-in, the first of the page.
refreshMe(at) == Entry(at, "enter")

\* Opening a panel draws it when everything it needs has come.
openPanel(p) == [Loader(p) EXCEPT !.expires = TRUE]

openLoad == [Loader("load") EXCEPT !.starts = "open", !.ok = "detail"]
placeBid == Press("load", "again")
loadFeed == Press("feed", "page")
saveSearch == Press("feed", "reload")
publishBeacon == Press("beacon", "reload")
uploadVerification == Press("verify", "reload")
createJob == Press("jobs", "reload")
addCustomer == Press("customers", "reload")
saveProfile == Press("profile", "reload")
sendOtp == Press("profile", "page")
verifyOtp == Press("profile", "reload")
advanceJob == Press("jobs", "reload")
attachPod == Press("jobs", "reload")
shareJob == Press("jobs", "page")

\* The second request of a handler that fetches its list again.
Refetch(p) == [Loader(p) EXCEPT !.starts = "then"]
RefetchLoad == [openLoad EXCEPT !.starts = "then"]

\* What each view offers; the list of the offers made offers nothing.
feedView == {loadFeed, saveSearch}
loadView == {placeBid}
beaconView == {publishBeacon}
verifyView == {uploadVerification}
jobsView == {createJob, advanceJob, attachPod, shareJob}
customersView == {addCustomer}
profileView == {saveProfile, sendOtp, verifyOtp}

SoloHandlers ==
  {openPanel(p) : p \in SoloPanels}
    \cup feedView \cup loadView \cup beaconView \cup verifyView \cup jobsView
    \cup customersView \cup profileView

=============================================================================
