----------------------------- MODULE ShareLinks -----------------------------
(***************************************************************************)
(* The links that open a trip, or a document of it, without an account,    *)
(* and the notices that carry them to the customer.                        *)
(*                                                                         *)
(* A token is signed, not stored: it names what it opens, the revocation   *)
(* version of the trip and its expiry.  The trip's row keeps the version   *)
(* and the window of the last mint, from which the same token is made      *)
(* again.  A mint reads the row, signs, and writes the window; a notice    *)
(* reads the trip, then the customer, and leaves one file in the spool.    *)
(***************************************************************************)
EXTENDS Naturals, FiniteSets

CONSTANTS
  Trips, Documents,
  DocTrip,    \* the trip of a document
  DocType,    \* "pod", "ecmr", "invoice" or another paper
  Columns,    \* the variables a notice of a trip can be given besides the link
  Contacts,   \* the channels the customer has a valid contact for
  Ttl,        \* how long a link lives
  MaxTime, MaxRevokes, MaxMints, MaxSpool,  \* bounds
  None

ASSUME LinkAssumption == DocTrip \in [Documents -> Trips] /\ Ttl \in Nat

VARIABLES
  version,  \* trackLinkVersion of each trip
  expires,  \* trackLinkExpiresAt of each trip, 0 when there is none
  docs,     \* status of each document
  mints,    \* mints between their read and their write
  notice,   \* the notice being made, or None
  tokens,   \* every token handed to anybody that has not expired
  spool,    \* envelopes queued
  asked,    \* trips whose link was asked for since it was last revoked
  now

vars == <<version, expires, docs, mints, notice, tokens, spool, asked, now>>

NOTIFY_CHANNELS == {"email", "whatsapp", "sms"}
SHAREABLE_DOCUMENT_STATUSES == {"UPLOADED", "VERIFIED"}
\* What a notice cannot do without.
EVENT_VARIABLES ==
  [offer_received |-> {}, awarded |-> {"carrier_name", "price"},
   driver_assigned |-> {"driver_name", "vehicle"}, at_pickup |-> {}, in_transit |-> {"eta"},
   delivered |-> {"link"}, pod_ready |-> {"link"}, invoice_issued |-> {"amount", "link"}]
NOTIFY_EVENTS == DOMAIN EVENT_VARIABLES
TripEvents == {"awarded", "driver_assigned", "at_pickup", "in_transit", "delivered"}

Init ==
  /\ version = [t \in Trips |-> 0] /\ expires = [t \in Trips |-> 0]
  /\ docs = [d \in Documents |-> "PENDING"]
  /\ mints = {} /\ notice = None
  /\ tokens = {} /\ spool = {} /\ asked = {} /\ now = 0

-----------------------------------------------------------------------------
(* Tokens.                                                                 *)

signTrackLink(t, v, exp) == [scope |-> "trip", of |-> t, trip |-> t, version |-> v, exp |-> exp]
signShareLink(scope, d, v, exp) ==
  [scope |-> scope, of |-> d, trip |-> DocTrip[d], version |-> v, exp |-> exp]

isTrackLinkActive(t) == expires[t] > now

\* The token of the row, made again; {} when none is live.
reconstructTrackLink(t) ==
  IF isTrackLinkActive(t) THEN {signTrackLink(t, version[t], expires[t])} ELSE {}

isShareableDocumentStatus(d) == docs[d] \in SHAREABLE_DOCUMENT_STATUSES
shareScopeForDocType(d) == IF DocType[d] = "invoice" THEN "invoice" ELSE "document"

\* A document's token lives inside the window of its trip's.
mintDocumentLink(d, scope) ==
  LET t == DocTrip[d] IN
  IF isTrackLinkActive(t) THEN {signShareLink(scope, d, version[t], expires[t])} ELSE {}

\* What a guest's request with token k answers: signature and expiry first,
\* then the version against the row.
verifyTrackLink(k) == k.scope = "trip" /\ k.exp > now
verifyShareLink(k) == k.scope # "trip" /\ k.exp > now
loadTrackedTrip(k) == version[k.trip] = k.version
scopeAllowsDocType(scope, d) == (scope = "invoice") = (DocType[d] = "invoice")
loadGuestDocument(k) ==
  /\ scopeAllowsDocType(k.scope, k.of)
  /\ isShareableDocumentStatus(k.of)
  /\ version[k.trip] = k.version
openTrack(k) == verifyTrackLink(k) /\ loadTrackedTrip(k)
serveGuestDocument(k) == verifyShareLink(k) /\ loadGuestDocument(k)
Opens(k) == openTrack(k) \/ serveGuestDocument(k)

-----------------------------------------------------------------------------
(* Mint, read, share, revoke.                                              *)

Mint(by, t) == [by |-> by, trip |-> t, version |-> version[t]]

\* The carrier mints whenever it asks.
MintRead(t) ==
  /\ mints' = mints \cup {Mint("carrier", t)}
  /\ asked' = asked \cup {t}
  /\ UNCHANGED <<version, expires, docs, notice, tokens, spool, now>>
\* The customer is given the live link, and mints only when there is none.
CustomerLink(t) ==
  /\ IF isTrackLinkActive(t)
     THEN tokens' = tokens \cup reconstructTrackLink(t) /\ UNCHANGED <<mints, asked>>
     ELSE /\ mints' = mints \cup {Mint("customer", t)} /\ asked' = asked \cup {t}
          /\ UNCHANGED tokens
  /\ UNCHANGED <<version, expires, docs, notice, spool, now>>
\* The token is signed for the version that was read; the window is written
\* whatever the version is by now.
MintWrite(m) ==
  /\ expires' = [expires EXCEPT ![m.trip] = now + Ttl]
  /\ tokens' = tokens \cup {signTrackLink(m.trip, m.version, now + Ttl)}
  /\ mints' = mints \ {m}
  /\ UNCHANGED <<version, docs, notice, spool, asked, now>>

ReadLink(t) ==
  /\ tokens' = tokens \cup reconstructTrackLink(t)
  /\ UNCHANGED <<version, expires, docs, mints, notice, spool, asked, now>>

ShareDocument(d) ==
  /\ isShareableDocumentStatus(d)
  /\ tokens' = tokens \cup mintDocumentLink(d, shareScopeForDocType(d))
  /\ UNCHANGED <<version, expires, docs, mints, notice, spool, asked, now>>

NextVersion_Same(t) == version[t]
NextVersion(t) == version[t] + 1
\* A trip whose mint is under way stays asked for: it may be the later of the two.
Revoke(t) ==
  /\ version' = [version EXCEPT ![t] = NextVersion(t)]
  /\ expires' = [expires EXCEPT ![t] = 0]
  /\ asked' = IF \E m \in mints : m.trip = t THEN asked ELSE asked \ {t}
  /\ UNCHANGED <<docs, mints, notice, tokens, spool, now>>

-----------------------------------------------------------------------------
(* Notices.                                                                *)

\* The channel, from the preferences read with the customer.
chooseChannel(prefs) ==
  LET usable == prefs \cap Contacts IN
  CASE "email" \in usable -> "email" [] "whatsapp" \in usable -> "whatsapp"
    [] "sms" \in usable -> "sms" [] OTHER -> None

\* The link an event carries, from the trip row as it is now.
resolveLink(event, t, d) ==
  CASE event = "delivered" -> reconstructTrackLink(t)
    [] event = "pod_ready" -> mintDocumentLink(d, "document")
    [] event = "invoice_issued" -> mintDocumentLink(d, "invoice")
    [] OTHER -> {}

\* A route changed a trip and the hook reads it.
NoticeRead(event, t, d) ==
  /\ notice = None
  /\ notice' = [event |-> event, trip |-> t, link |-> resolveLink(event, t, d)]
  /\ UNCHANGED <<version, expires, docs, mints, tokens, spool, asked, now>>

\* The customer is read, the variables are gathered, and the envelope is
\* written in full or not at all: a missing variable, no channel, a spool that
\* cannot be written and a crash all lose the notice, never the request.
lifecycleVars(n) ==
  EVENT_VARIABLES[n.event] \subseteq
    Columns[n.trip] \cup (IF n.link = {} THEN {} ELSE {"link"})
writeEnvelope(n, channel) ==
  /\ spool' = spool \cup {[event |-> n.event, trip |-> n.trip, channel |-> channel, link |-> n.link]}
  /\ tokens' = tokens \cup n.link
NoticeWrite ==
  /\ notice # None
  /\ \/ \E prefs \in SUBSET NOTIFY_CHANNELS :
          /\ chooseChannel(prefs) # None /\ lifecycleVars(notice)
          /\ writeEnvelope(notice, chooseChannel(prefs))
     \/ UNCHANGED <<spool, tokens>>
  /\ notice' = None
  /\ UNCHANGED <<version, expires, docs, mints, asked, now>>

\* A document's upload is complete: the notice of its type.
notifyDocumentUploaded(d) ==
  /\ DocType[d] \in {"invoice", "pod", "ecmr"}
  /\ NoticeRead(IF DocType[d] = "invoice" THEN "invoice_issued" ELSE "pod_ready", DocTrip[d], d)

-----------------------------------------------------------------------------
(* Around them.                                                            *)

\* Bytes arrive, a carrier verifies or rejects.
DocumentStatus(d) ==
  /\ \/ docs[d] = "PENDING" /\ docs' = [docs EXCEPT ![d] = "UPLOADED"]
     \/ docs[d] = "UPLOADED" /\ \E s \in {"VERIFIED", "REJECTED"} : docs' = [docs EXCEPT ![d] = s]
  /\ UNCHANGED <<version, expires, mints, notice, tokens, spool, asked, now>>
Tick ==
  /\ now < MaxTime /\ now' = now + 1
  /\ tokens' = {k \in tokens : k.exp > now'}
  /\ UNCHANGED <<version, expires, docs, mints, notice, spool, asked>>

Next ==
  \/ \E t \in Trips :
       \/ Cardinality(mints) < MaxMints /\ (MintRead(t) \/ CustomerLink(t))
       \/ ReadLink(t)
       \/ version[t] < MaxRevokes /\ Revoke(t)
       \/ Cardinality(spool) < MaxSpool /\ \E e \in TripEvents : NoticeRead(e, t, None)
  \/ \E m \in mints : MintWrite(m)
  \/ \E d \in Documents :
       \/ ShareDocument(d) \/ DocumentStatus(d)
       \/ Cardinality(spool) < MaxSpool /\ isShareableDocumentStatus(d) /\ notifyDocumentUploaded(d)
  \/ NoticeWrite \/ Tick
Spec == Init /\ [][Next]_vars

-----------------------------------------------------------------------------
(* Properties.                                                             *)

\* A revoked trip stays closed until somebody asks for its link again: no token
\* that was handed out before, made again from the row, bound to a document or
\* put into a notice opens it, whichever way mints, notices and the revocation
\* interleave.  A mint under way when the trip is revoked counts as asking.
RevokedUntilAsked == \A k \in tokens : Opens(k) => k.trip \in asked

=============================================================================
