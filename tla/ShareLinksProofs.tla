--------------------------- MODULE ShareLinksProofs ---------------------------
(***************************************************************************)
(* A revoked link stays dead, for any number of trips, documents, mints,   *)
(* notices and revocations.                                                *)
(***************************************************************************)
EXTENDS ShareLinks, TLAPS

\* What a token may say: it is of a version the trip has had, and if that is the
\* trip's version still, somebody asked for the link since the last revocation.
Sound(k) ==
  /\ k.trip \in Trips
  /\ k.version \in 0 .. version[k.trip]
  /\ k.version = version[k.trip] => k.trip \in asked

\* The row makes the token again as long as its window lasts.
RowsAreAsked == \A t \in Trips : expires[t] # 0 => t \in asked
MintsAreAsked ==
  \A m \in mints : m.trip \in Trips /\ m.trip \in asked /\ m.version \in 0 .. version[m.trip]
TokensAreSound == \A k \in tokens : Sound(k)
NoticeIsSound == notice # None => \A k \in notice.link : Sound(k)

LinkInv ==
  /\ now \in Nat
  /\ version \in [Trips -> Nat] /\ expires \in [Trips -> Nat]
  /\ RowsAreAsked /\ MintsAreAsked /\ TokensAreSound /\ NoticeIsSound

LEMMA InitLinks == Init => LinkInv
BY DEF Init, LinkInv, RowsAreAsked, MintsAreAsked, TokensAreSound, NoticeIsSound

\* What the row makes is sound, for the trip and for its documents.
LEMMA RemadeIsSound ==
  ASSUME LinkInv
  PROVE  /\ \A t \in Trips : \A k \in reconstructTrackLink(t) : Sound(k)
         /\ \A d \in Documents : \A scope : \A k \in mintDocumentLink(d, scope) : Sound(k)
<1>1. \A t \in Trips : isTrackLinkActive(t) => t \in asked
  BY DEF LinkInv, RowsAreAsked, isTrackLinkActive
<1>2. \A t \in Trips : version[t] \in Nat
  BY DEF LinkInv
<1>3. ASSUME NEW t \in Trips, NEW k \in reconstructTrackLink(t)
      PROVE  Sound(k)
  BY <1>1, <1>2, <1>3 DEF reconstructTrackLink, signTrackLink, Sound
<1>4. ASSUME NEW d \in Documents, NEW scope, NEW k \in mintDocumentLink(d, scope)
      PROVE  Sound(k)
  <2>1. DocTrip[d] \in Trips
    BY LinkAssumption
  <2> QED BY <1>1, <1>2, <1>4, <2>1 DEF mintDocumentLink, signShareLink, Sound
<1> QED BY <1>3, <1>4

\* As long as no version changes and nothing is taken from asked, what was sound
\* is sound.
LEMMA StaysSound ==
  ASSUME version' = version, asked \subseteq asked', NEW k, Sound(k)
  PROVE  Sound(k)'
BY DEF Sound

LEMMA StepLinks ==
  ASSUME LinkInv, [Next]_vars
  PROVE  LinkInv'
<1> USE DEF LinkInv
\* The steps that revoke nothing: what they add is sound.
<1>1. ASSUME version' = version, asked \subseteq asked', now' \in Nat,
             expires' \in [Trips -> Nat],
             \A t \in Trips : expires'[t] # 0 => expires[t] # 0 \/ t \in asked,
             \A m \in mints' : m \in mints \/ (m.trip \in Trips /\ m.trip \in asked'
                                               /\ m.version = version[m.trip]),
             \A k \in tokens' : k \in tokens \/ Sound(k)',
             notice' = notice \/ notice' = None \/ \A k \in notice'.link : Sound(k)'
      PROVE  LinkInv'
  <2>1. RowsAreAsked'
    BY <1>1 DEF RowsAreAsked
  <2>2. MintsAreAsked'
    BY <1>1 DEF MintsAreAsked
  <2>3. TokensAreSound'
    BY <1>1, StaysSound DEF TokensAreSound
  <2>4. NoticeIsSound'
    BY <1>1, StaysSound DEF NoticeIsSound
  <2> QED BY <1>1, <2>1, <2>2, <2>3, <2>4
<1>2. ASSUME NEW t \in Trips, MintRead(t) PROVE LinkInv'
  BY <1>1, <1>2 DEF MintRead, Mint
<1>3. ASSUME NEW t \in Trips, CustomerLink(t) PROVE LinkInv'
  <2>1. CASE isTrackLinkActive(t)
    <3>1. \A k \in reconstructTrackLink(t) : Sound(k)'
      BY <1>3, <2>1, RemadeIsSound, StaysSound DEF CustomerLink
    <3> QED BY <1>1, <1>3, <2>1, <3>1 DEF CustomerLink
  <2>2. CASE ~isTrackLinkActive(t)
    BY <1>1, <1>3, <2>2 DEF CustomerLink, Mint
  <2> QED BY <2>1, <2>2
<1>4. ASSUME NEW m \in mints, MintWrite(m) PROVE LinkInv'
  <2>1. m.trip \in Trips /\ m.trip \in asked /\ m.version \in 0 .. version[m.trip]
    BY DEF MintsAreAsked
  <2>2. Sound(signTrackLink(m.trip, m.version, now + Ttl))'
    BY <1>4, <2>1 DEF MintWrite, Sound, signTrackLink
  <2>3. expires' \in [Trips -> Nat]
    <3>1. now + Ttl \in Nat
      BY LinkAssumption
    <3>2. expires' = [expires EXCEPT ![m.trip] = now + Ttl] /\ expires \in [Trips -> Nat]
      BY <1>4 DEF MintWrite
    <3> QED BY <2>1, <3>1, <3>2
  <2>4. \A t \in Trips : expires'[t] # 0 => expires[t] # 0 \/ t \in asked
    BY <1>4, <2>1 DEF MintWrite
  <2> QED BY <1>1, <1>4, <2>2, <2>3, <2>4 DEF MintWrite
<1>5. ASSUME NEW t \in Trips, ReadLink(t) PROVE LinkInv'
  <2>1. \A k \in reconstructTrackLink(t) : Sound(k)'
    BY <1>5, RemadeIsSound, StaysSound DEF ReadLink
  <2> QED BY <1>1, <1>5, <2>1 DEF ReadLink
<1>6. ASSUME NEW d \in Documents, ShareDocument(d) PROVE LinkInv'
  <2>1. \A k \in mintDocumentLink(d, shareScopeForDocType(d)) : Sound(k)'
    BY <1>6, RemadeIsSound, StaysSound DEF ShareDocument
  <2> QED BY <1>1, <1>6, <2>1 DEF ShareDocument
\* No token is of the version a revocation opens.
<1>7. ASSUME NEW t \in Trips, Revoke(t) PROVE LinkInv'
  <2>1. /\ version' = [version EXCEPT ![t] = version[t] + 1] /\ version[t] \in Nat
        /\ expires' = [expires EXCEPT ![t] = 0]
        /\ UNCHANGED <<mints, notice, tokens, now>>
    BY <1>7 DEF Revoke, NextVersion
  <2>2. asked \ {t} \subseteq asked' /\ \A m \in mints : m.trip = t => asked' = asked
    BY <1>7 DEF Revoke
  <2>3. ASSUME NEW k, Sound(k) PROVE Sound(k)'
    BY <2>1, <2>2, <2>3 DEF Sound
  <2>4. RowsAreAsked'
    BY <2>1, <2>2 DEF RowsAreAsked
  <2>5. MintsAreAsked'
    <3> SUFFICES ASSUME NEW m \in mints
                 PROVE  m.trip \in Trips /\ m.trip \in asked' /\ m.version \in 0 .. version'[m.trip]
      BY <2>1 DEF MintsAreAsked
    <3>1. m.trip \in Trips /\ m.trip \in asked /\ m.version \in 0 .. version[m.trip]
      BY DEF MintsAreAsked
    <3> QED BY <2>1, <2>2, <3>1
  <2>6. TokensAreSound' /\ NoticeIsSound'
    BY <2>1, <2>3 DEF TokensAreSound, NoticeIsSound
  <2> QED BY <2>1, <2>4, <2>5, <2>6
<1>8. ASSUME NEW e, NEW t \in Trips, NEW d \in Documents \cup {None}, NoticeRead(e, t, d),
             e \in TripEvents \/ d \in Documents
      PROVE  LinkInv'
  <2>1. \A k \in resolveLink(e, t, d) : Sound(k)
    BY <1>8, RemadeIsSound DEF resolveLink, TripEvents
  <2>2. \A k \in resolveLink(e, t, d) : Sound(k)'
    BY <1>8, <2>1, StaysSound DEF NoticeRead
  <2> QED BY <1>1, <1>8, <2>2 DEF NoticeRead
<1>9. ASSUME NEW d \in Documents, notifyDocumentUploaded(d) PROVE LinkInv'
  <2>1. DocTrip[d] \in Trips
    BY LinkAssumption
  <2> QED BY <1>8, <1>9, <2>1 DEF notifyDocumentUploaded
<1>10. CASE NoticeWrite
  <2>1. \A k \in notice.link : Sound(k)'
    BY <1>10, StaysSound DEF NoticeWrite, NoticeIsSound
  <2>2. \A k \in tokens' : k \in tokens \/ Sound(k)'
    BY <1>10, <2>1 DEF NoticeWrite, writeEnvelope
  <2> QED BY <1>1, <1>10, <2>2 DEF NoticeWrite
<1>11. ASSUME NEW d \in Documents, DocumentStatus(d) PROVE LinkInv'
  BY <1>1, <1>11 DEF DocumentStatus
<1>12. CASE Tick
  BY <1>1, <1>12 DEF Tick
<1>13. CASE UNCHANGED vars
  BY <1>1, <1>13 DEF vars
<1> QED
  BY <1>2, <1>3, <1>4, <1>5, <1>6, <1>7, <1>8, <1>9, <1>10, <1>11, <1>12, <1>13 DEF Next

\* A token opens a trip only if somebody asked for its link since it was last
\* revoked: whatever else was signed, remade or announced is of an older version.
THEOREM RevokedLinksStayDead == Spec => []RevokedUntilAsked
<1>1. LinkInv => RevokedUntilAsked
  BY DEF LinkInv, TokensAreSound, Sound, RevokedUntilAsked, Opens, openTrack, loadTrackedTrip,
         serveGuestDocument, loadGuestDocument
<1> QED BY <1>1, InitLinks, StepLinks, PTL DEF Spec
=============================================================================
