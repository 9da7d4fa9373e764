------------------------- MODULE FleetCustomersProofs -------------------------
(***************************************************************************)
(* The list of customers loses nobody, for any number of customers, names, *)
(* logins and pages; and what the rules for orders promise each other, for *)
(* every form.                                                             *)
(***************************************************************************)
EXTENDS FleetCustomers, OrderForms, FiniteSetTheorems, TLAPS

\* Customer c is on the page, or comes after the row the next page starts at.
Covered(c, page, next) ==
  c \in page \/ (next # None /\ Before(name[next], next, name[c], c))

\* What a request carries: a form its fields, a page the cursor it is to start
\* after, an answer the rows of customers there are.
SoundRequest(r) ==
  /\ r.kind = "list" => r.cursor = None
  /\ r.kind = "more" => r.cursor \in Existing
  /\ r.kind = "add" => r.at \in Names
  /\ r.kind = "invite" => r.customer \in Customers
  /\ r.page \subseteq Existing /\ r.next \in Existing \cup {None} /\ r.base \subseteq Existing
RequestsAreSound == \A r \in flight : SoundRequest(r)

\* The button waits exactly as long as a page is under way, and for one only.
MoreIsOne ==
  /\ loadingMore <=> \E r \in flight : r.kind = "more"
  /\ \A r, s \in flight : r.kind = "more" /\ s.kind = "more" => r = s

\* What the screen shows, goes on after and has been promised are rows.
ScreenIsSound ==
  shown \subseteq Existing /\ cursor \in Existing \cup {None} /\ promised \subseteq Existing

-----------------------------------------------------------------------------
(* Requests.                                                               *)

\* The requests the screen sends, field by field.
LEMMA NewRequests ==
  /\ ListRequest \in Requests
  /\ \A c \in Customers : MoreRequest(c) \in Requests
  /\ \A n \in Names : AddRequest(n) \in Requests
  /\ \A c \in Customers, e \in Emails : InviteRequest(c, e) \in Requests
BY DEF Request, Requests, ListRequest, MoreRequest, AddRequest, InviteRequest

LEMMA NewFields ==
  ASSUME NEW c, NEW e, NEW n
  PROVE  /\ ListRequest.kind = "list" /\ MoreRequest(c).kind = "more"
         /\ AddRequest(n).kind = "add" /\ InviteRequest(c, e).kind = "invite"
         /\ ListRequest.cursor = None /\ MoreRequest(c).cursor = c
         /\ AddRequest(n).at = n /\ InviteRequest(c, e).customer = c
         /\ \A r \in {ListRequest, MoreRequest(c), AddRequest(n), InviteRequest(c, e)} :
              r.step = "sent" /\ r.page = {} /\ r.next = None /\ r.base = {}
BY DEF Request, ListRequest, MoreRequest, AddRequest, InviteRequest

-----------------------------------------------------------------------------
(* Rows.                                                                   *)

\* Nobody renames itself: rows are only added.
RowsStay == \A c \in Existing : c \in Existing' /\ name'[c] = name[c]

\* At most one row is added by a step.
RowsGrowByOne == \E c \in Customers : Existing' \subseteq Existing \cup {c}

LEMMA CreatedRow ==
  ASSUME TypeOK, NEW c \in Customers, NEW n \in Names, CreateRow(c, n)
  PROVE  name' \in [Customers -> Names \cup {None}] /\ RowsStay /\ RowsGrowByOne
BY DEF TypeOK, CreateRow, RowsStay, RowsGrowByOne, Existing

LEMMA SameRows ==
  ASSUME name' = name
  PROVE  Existing' = Existing /\ RowsStay
BY DEF Existing, RowsStay

LEMMA StillFinite ==
  ASSUME IsFiniteSet(Existing), RowsGrowByOne
  PROVE  IsFiniteSet(Existing')
<1>1. PICK c \in Customers : Existing' \subseteq Existing \cup {c}
  BY DEF RowsGrowByOne
<1>2. IsFiniteSet(Existing \cup {c})
  BY FS_AddElement
<1> QED BY <1>1, <1>2, FS_Subset

\* What is covered stays covered.
LEMMA StaysCovered ==
  ASSUME RowsStay, NEW c \in Existing, NEW page, NEW next \in Existing \cup {None},
         Covered(c, page, next)
  PROVE  Covered(c, page, next)'
BY DEF RowsStay, Covered, Before

\* A page covers the rows it was taken from.
LEMMA PageCovers ==
  ASSUME NEW rows, NEW page, NEW next, customerListPage(rows, page, next),
         ListAssumption, rows \subseteq Customers,
         NEW c \in rows
  PROVE  Covered(c, page, next)
BY DEF customerListPage, Covered, ListAssumption

\* What each step is, in the order of Next.
LEMMA StepCases ==
  ASSUME [Next]_vars, NEW P,
         renderCustomers => P, loadMoreCustomers => P,
         submitCustomer => P, submitCustomerInvite => P,
         \A r \in flight : ReadCursor(r) => P,
         \A r \in flight : ReadPage(r) => P,
         \A r \in flight : ServeAdd(r) => P,
         \A r \in flight : inviteCustomerAccount(r) => P,
         \A r \in flight : ListAnswer(r) => P,
         \A r \in flight : MoreAnswer(r) => P,
         \A r \in flight : FormAnswer(r) => P,
         \A r \in flight : Fails(r) => P,
         AddElsewhere => P, createCustomerAccount => P, PatchProfile => P,
         UNCHANGED vars => P
  PROVE  P
BY DEF Next, Serve, Answer

-----------------------------------------------------------------------------
(* The shape of the state.                                                 *)

Shape == TypeOK /\ IsFiniteSet(Existing) /\ ScreenIsSound /\ RequestsAreSound

LEMMA InitShape ==
  ASSUME ListAssumption, Init
  PROVE  Shape
<1>1. Existing = {}
  BY DEF Init, Existing
<1>2. IsFiniteSet(Existing)
  BY <1>1, FS_EmptySet
<1>3. TypeOK
  BY NewRequests DEF Init, TypeOK, ListAssumption
<1>4. RequestsAreSound
  BY NewFields DEF Init, RequestsAreSound, SoundRequest
<1> QED BY <1>2, <1>3, <1>4 DEF Shape, ScreenIsSound, Init

LEMMA StaysSound ==
  ASSUME RowsStay, NEW r, SoundRequest(r)
  PROVE  SoundRequest(r)'
BY DEF RowsStay, SoundRequest

\* A request that starts with no answer is sound for what it asks.
LEMMA SentIsSound ==
  /\ SoundRequest(ListRequest)
  /\ \A c \in Existing : SoundRequest(MoreRequest(c))
  /\ \A n \in Names : SoundRequest(AddRequest(n))
  /\ \A c \in Customers, e \in Emails : SoundRequest(InviteRequest(c, e))
BY NewFields DEF SoundRequest

\* The steps that leave the rows alone: what they add to flight must be sound.
LEMMA RowsAlone ==
  ASSUME Shape, name' = name, account' \in [Emails -> Customers \cup {None}],
         shown' \subseteq Existing, cursor' \in Existing \cup {None},
         promised' \subseteq Existing, total' \in Nat, loadingMore' \in BOOLEAN,
         \A r \in flight' : r \in flight \/ (r \in Requests /\ SoundRequest(r))
  PROVE  Shape'
<1>1. Existing' = Existing /\ RowsStay
  BY SameRows
<1>2. IsFiniteSet(Existing)'
  BY <1>1 DEF Shape
<1>3. flight' \subseteq Requests
  BY DEF Shape, TypeOK
<1>4. TypeOK'
  BY <1>1, <1>3 DEF Shape, TypeOK, Existing
<1>5. ScreenIsSound'
  BY <1>1 DEF ScreenIsSound
<1>6. RequestsAreSound'
  BY <1>1, StaysSound DEF Shape, RequestsAreSound
<1> QED BY <1>2, <1>4, <1>5, <1>6 DEF Shape

\* The steps that add a row and leave the screen alone.
LEMMA RowAdded ==
  ASSUME Shape, name' \in [Customers -> Names \cup {None}], RowsStay, RowsGrowByOne,
         account' \in [Emails -> Customers \cup {None}],
         UNCHANGED <<shown, cursor, total, loadingMore, promised>>,
         \A r \in flight' : r \in flight \/ (r \in Requests /\ SoundRequest(r))
  PROVE  Shape'
<1>1. IsFiniteSet(Existing)'
  BY StillFinite DEF Shape
<1>2. TypeOK'
  BY DEF Shape, TypeOK
<1>3. ScreenIsSound'
  BY DEF Shape, ScreenIsSound, RowsStay
<1>4. RequestsAreSound'
  BY StaysSound DEF Shape, RequestsAreSound
<1> QED BY <1>1, <1>2, <1>3, <1>4 DEF Shape

LEMMA StepShape ==
  ASSUME ListAssumption, Shape, [Next]_vars
  PROVE  Shape'
<1> USE DEF Shape
<1>a. \A r \in flight : r \in Requests /\ SoundRequest(r)
  BY DEF TypeOK, RequestsAreSound
<1>b. Existing \subseteq Customers /\ Cardinality(Existing) \in Nat
  BY FS_CardinalityType DEF Existing
<1>1. ASSUME renderCustomers PROVE Shape'
  BY <1>1, RowsAlone, NewRequests, SentIsSound DEF renderCustomers, TypeOK
<1>2. ASSUME loadMoreCustomers PROVE Shape'
  BY <1>2, <1>b, RowsAlone, NewRequests, SentIsSound DEF loadMoreCustomers, TypeOK, ScreenIsSound
<1>3. ASSUME submitCustomer PROVE Shape'
  BY <1>3, RowsAlone, NewRequests, SentIsSound DEF submitCustomer, TypeOK, ScreenIsSound
<1>4. ASSUME submitCustomerInvite PROVE Shape'
  BY <1>4, RowsAlone, NewRequests, SentIsSound DEF submitCustomerInvite, TypeOK, ScreenIsSound
<1>5. ASSUME NEW r \in flight, ReadCursor(r) PROVE Shape'
  <2> DEFINE s == [r EXCEPT !.step = "cursor", !.at = name[r.cursor]]
  <2>1. s \in Requests /\ SoundRequest(s)
    BY <1>5, <1>a, <1>b DEF ReadCursor, Requests, SoundRequest, TypeOK
  <2> HIDE DEF s
  <2> QED BY <1>5, <2>1, RowsAlone DEF ReadCursor, s, TypeOK, ScreenIsSound
<1>6. ASSUME NEW r \in flight, ReadPage(r) PROVE Shape'
  <2>1. PICK page \in SUBSET Existing, next \in Customers \cup {None} :
          /\ customerListPage(customerListWhere(r.at, r.cursor), page, next)
          /\ flight' = (flight \ {r}) \cup
               {[r EXCEPT !.step = "answered", !.page = page, !.next = next,
                          !.total = Cardinality(Existing), !.base = Existing]}
    BY <1>6 DEF ReadPage
  <2> DEFINE s == [r EXCEPT !.step = "answered", !.page = page, !.next = next,
                            !.total = Cardinality(Existing), !.base = Existing]
  <2>2. next \in Existing \cup {None}
    BY <2>1 DEF customerListPage
  <2>3. s \in Requests /\ SoundRequest(s)
    BY <1>6, <1>a, <1>b, <2>2 DEF ReadPage, Requests, SoundRequest
  <2> HIDE DEF s
  <2> QED BY <1>6, <2>1, <2>3, RowsAlone DEF ReadPage, s, TypeOK, ScreenIsSound
<1>7. ASSUME NEW r \in flight, ServeAdd(r) PROVE Shape'
  <2> DEFINE s == [r EXCEPT !.step = "answered"]
  <2>1. s \in Requests /\ SoundRequest(s)
    BY <1>7, <1>a DEF ServeAdd, Requests, SoundRequest
  <2> HIDE DEF s
  <2>2. PICK c \in Customers : CreateRow(c, r.at)
    BY <1>7 DEF ServeAdd
  <2>3. r.at \in Names
    BY <1>7, <1>a DEF ServeAdd, SoundRequest
  <2>4. name' \in [Customers -> Names \cup {None}] /\ RowsStay /\ RowsGrowByOne
    BY <2>2, <2>3, CreatedRow
  <2> QED BY <1>7, <2>1, <2>4, RowAdded DEF ServeAdd, s, TypeOK
<1>8. ASSUME NEW r \in flight, inviteCustomerAccount(r) PROVE Shape'
  <2> DEFINE s == [r EXCEPT !.step = "answered"]
  <2>1. s \in Requests /\ SoundRequest(s)
    BY <1>8, <1>a DEF inviteCustomerAccount, Requests, SoundRequest
  <2> HIDE DEF s
  <2>2. r.customer \in Customers
    BY <1>8, <1>a DEF inviteCustomerAccount, SoundRequest
  <2>3. account' \in [Emails -> Customers \cup {None}]
    BY <1>8, <2>2 DEF inviteCustomerAccount, GiveLogin, TypeOK
  <2> QED BY <1>8, <2>1, <2>3, RowsAlone DEF inviteCustomerAccount, s, TypeOK, ScreenIsSound
<1>9. ASSUME NEW r \in flight, ListAnswer(r) PROVE Shape'
  <2>1. r.page \subseteq Existing /\ r.next \in Existing \cup {None} /\ r.base \subseteq Existing
    BY <1>a DEF SoundRequest
  <2>2. r.total \in Nat
    BY <1>a DEF Requests
  <2> QED BY <1>9, <2>1, <2>2, RowsAlone DEF ListAnswer, pageState, TypeOK
<1>10. ASSUME NEW r \in flight, MoreAnswer(r) PROVE Shape'
  <2>1. r.page \subseteq Existing /\ r.next \in Existing \cup {None}
    BY <1>a DEF SoundRequest
  <2>2. r.total \in Nat
    BY <1>a DEF Requests
  <2> QED BY <1>10, <2>1, <2>2, RowsAlone DEF MoreAnswer, pageState, TypeOK, ScreenIsSound
<1>11. ASSUME NEW r \in flight, FormAnswer(r) PROVE Shape'
  BY <1>11, RowsAlone, NewRequests, SentIsSound DEF FormAnswer, TypeOK, ScreenIsSound
<1>12. ASSUME NEW r \in flight, Fails(r) PROVE Shape'
  BY <1>12, RowsAlone DEF Fails, TypeOK, ScreenIsSound
<1>13. ASSUME AddElsewhere PROVE Shape'
  BY <1>13, CreatedRow, RowAdded DEF AddElsewhere, TypeOK
<1>14. ASSUME createCustomerAccount PROVE Shape'
  <2>1. PICK c \in Customers, n \in Names, e \in Emails : CreateRow(c, n) /\ GiveLogin(c, e)
    BY <1>14 DEF createCustomerAccount
  <2>2. account' \in [Emails -> Customers \cup {None}]
    BY <2>1 DEF GiveLogin, TypeOK
  <2> QED BY <1>14, <2>1, <2>2, CreatedRow, RowAdded DEF createCustomerAccount
<1>15. ASSUME PatchProfile PROVE Shape'
  <2>1. PICK e \in Emails, n \in Names : /\ account[e] # None
                                         /\ name' = [name EXCEPT ![account[e]] = n]
    BY <1>15 DEF PatchProfile
  <2>2. account[e] \in Customers
    BY <2>1 DEF TypeOK
  <2>3. name' \in [Customers -> Names \cup {None}] /\ Existing \subseteq Existing'
    BY <2>1, <2>2 DEF TypeOK, Existing, ListAssumption
  <2>4. RowsGrowByOne
    BY <2>1, <2>2 DEF TypeOK, Existing, RowsGrowByOne
  <2>5. ASSUME NEW r \in flight
        PROVE  [r EXCEPT !.base = {}] \in Requests /\ SoundRequest([r EXCEPT !.base = {}])'
    BY <1>a, <2>3 DEF Requests, SoundRequest
  <2>6. TypeOK'
    BY <1>15, <2>3, <2>5 DEF PatchProfile, TypeOK
  <2>7. ScreenIsSound' /\ RequestsAreSound'
    BY <1>15, <2>3, <2>5 DEF PatchProfile, ScreenIsSound, RequestsAreSound
  <2> QED BY <2>4, <2>6, <2>7, StillFinite
<1>16. ASSUME UNCHANGED vars PROVE Shape'
  BY <1>16, RowsAlone DEF vars, TypeOK, ScreenIsSound
<1> HIDE DEF Shape
<1> QED BY <1>1, <1>2, <1>3, <1>4, <1>5, <1>6, <1>7, <1>8, <1>9, <1>10, <1>11, <1>12, <1>13,
           <1>14, <1>15, <1>16, StepCases

-----------------------------------------------------------------------------
(* The button and its page.                                                *)

LEMMA StepMoreIsOne ==
  ASSUME flight \subseteq Requests, MoreIsOne, [Next]_vars
  PROVE  MoreIsOne'
<1> USE DEF MoreIsOne
<1>a. \A r \in flight : r \in Requests
  OBVIOUS
\* A request that is replaced keeps its kind.
<1>0. ASSUME NEW r \in flight, NEW s, s.kind = r.kind,
             flight' = (flight \ {r}) \cup {s}, loadingMore' = loadingMore
      PROVE  MoreIsOne'
  BY <1>0
<1>1. ASSUME renderCustomers PROVE MoreIsOne'
  BY <1>1, NewFields DEF renderCustomers, Reads
<1>2. ASSUME loadMoreCustomers PROVE MoreIsOne'
  BY <1>2, NewFields DEF loadMoreCustomers
<1>3. ASSUME submitCustomer PROVE MoreIsOne'
  BY <1>3, NewFields DEF submitCustomer
<1>4. ASSUME submitCustomerInvite PROVE MoreIsOne'
  BY <1>4, NewFields DEF submitCustomerInvite
<1>5. ASSUME NEW r \in flight, ReadCursor(r) PROVE MoreIsOne'
  BY <1>5, <1>0, <1>a DEF ReadCursor, Requests
<1>6. ASSUME NEW r \in flight, ReadPage(r) PROVE MoreIsOne'
  BY <1>6, <1>0, <1>a DEF ReadPage, Requests
<1>7. ASSUME NEW r \in flight, ServeAdd(r) PROVE MoreIsOne'
  BY <1>7, <1>0, <1>a DEF ServeAdd, Requests
<1>8. ASSUME NEW r \in flight, inviteCustomerAccount(r) PROVE MoreIsOne'
  BY <1>8, <1>0, <1>a DEF inviteCustomerAccount, Requests
<1>9. ASSUME NEW r \in flight, ListAnswer(r) PROVE MoreIsOne'
  BY <1>9 DEF ListAnswer
<1>10. ASSUME NEW r \in flight, MoreAnswer(r) PROVE MoreIsOne'
  BY <1>10 DEF MoreAnswer
<1>11. ASSUME NEW r \in flight, FormAnswer(r) PROVE MoreIsOne'
  BY <1>11, NewFields DEF FormAnswer
<1>12. ASSUME NEW r \in flight, Fails(r) PROVE MoreIsOne'
  BY <1>12 DEF Fails
<1>13. ASSUME AddElsewhere PROVE MoreIsOne'
  BY <1>13 DEF AddElsewhere
<1>14. ASSUME createCustomerAccount PROVE MoreIsOne'
  BY <1>14 DEF createCustomerAccount
<1>15. ASSUME PatchProfile PROVE MoreIsOne'
  <2>1. /\ loadingMore' = loadingMore
        /\ \A s \in flight' : \E r \in flight : s = [r EXCEPT !.base = {}]
        /\ \A r \in flight : [r EXCEPT !.base = {}] \in flight'
    BY <1>15 DEF PatchProfile
  <2>2. \A r \in flight : [r EXCEPT !.base = {}].kind = r.kind
    BY <1>a DEF Requests
  <2>3. loadingMore' <=> \E s \in flight' : s.kind = "more"
    <3>1. ASSUME NEW s \in flight', s.kind = "more"
          PROVE  \E r \in flight : r.kind = "more"
      <4>1. PICK r \in flight : s = [r EXCEPT !.base = {}]
        BY <2>1
      <4> QED BY <2>2, <3>1, <4>1
    <3>2. ASSUME NEW r \in flight, r.kind = "more"
          PROVE  \E s \in flight' : s.kind = "more"
      <4>1. [r EXCEPT !.base = {}] \in flight' /\ [r EXCEPT !.base = {}].kind = "more"
        BY <2>1, <2>2, <3>2
      <4> QED BY <4>1
    <3> QED BY <2>1, <3>1, <3>2
  <2>4. ASSUME NEW s \in flight', NEW t \in flight', s.kind = "more", t.kind = "more"
        PROVE  s = t
    <3>1. PICK p \in flight : s = [p EXCEPT !.base = {}]
      BY <2>1
    <3>2. PICK q \in flight : t = [q EXCEPT !.base = {}]
      BY <2>1
    <3> QED BY <2>2, <2>4, <3>1, <3>2
  <2> QED BY <2>3, <2>4
<1>16. ASSUME UNCHANGED vars PROVE MoreIsOne'
  BY <1>16 DEF vars
<1> HIDE DEF MoreIsOne
<1> QED BY <1>1, <1>2, <1>3, <1>4, <1>5, <1>6, <1>7, <1>8, <1>9, <1>10, <1>11, <1>12, <1>13,
           <1>14, <1>15, <1>16, StepCases

-----------------------------------------------------------------------------
(* What was promised.                                                      *)

\* A request whose answer, if it has one, covers what it is for.
CoversItsBase(r) ==
  r.kind = "list" /\ r.step = "answered" => \A c \in r.base : Covered(c, r.page, r.next)
AfterTheCursor(c) == Before(name[cursor], cursor, name[c], c)
GoesOn(r) ==
  r.kind = "more" /\ promised # {} =>
    /\ r.cursor = cursor
    /\ r.step = "cursor" => r.at = name[cursor]
    /\ r.step = "answered" =>
         \A c \in promised : AfterTheCursor(c) => Covered(c, r.page, r.next)

Kept ==
  /\ \A r \in flight : CoversItsBase(r) /\ GoesOn(r)
  /\ NothingPromisedIsLost

\* The steps that change nothing on the screen and take no row away.
LEMMA ScreenAlone ==
  ASSUME Shape, Kept, RowsStay, UNCHANGED <<shown, cursor, promised>>,
         \A r \in flight' : r \in flight \/ (CoversItsBase(r) /\ GoesOn(r))'
  PROVE  Kept'
<1>1. \A r \in flight : SoundRequest(r)
  BY DEF Shape, RequestsAreSound
<1>2. ASSUME NEW r \in flight PROVE CoversItsBase(r)'
  BY <1>1, StaysCovered DEF Kept, CoversItsBase, SoundRequest
<1>3. promised \subseteq Existing /\ cursor \in Existing \cup {None}
  BY DEF Shape, ScreenIsSound
<1>4. ASSUME NEW r \in flight PROVE GoesOn(r)'
  <2> SUFFICES ASSUME r.kind = "more", promised # {}
               PROVE  /\ r.cursor = cursor
                      /\ r.step = "cursor" => r.at = name'[cursor]
                      /\ r.step = "answered" =>
                           \A c \in promised : AfterTheCursor(c)' => Covered(c, r.page, r.next)'
    BY DEF GoesOn
  <2>1. GoesOn(r) /\ r.cursor \in Existing
    BY <1>1 DEF Kept, SoundRequest
  <2>2. r.cursor = cursor /\ name'[cursor] = name[cursor]
    BY <2>1 DEF GoesOn, RowsStay
  <2>3. ASSUME NEW c \in promised, AfterTheCursor(c)' PROVE AfterTheCursor(c)
    BY <1>3, <2>2, <2>3 DEF AfterTheCursor, RowsStay
  <2> QED BY <1>1, <1>3, <2>1, <2>2, <2>3, StaysCovered DEF GoesOn, SoundRequest
<1>5. NothingPromisedIsLost'
  BY <1>3 DEF Kept, NothingPromisedIsLost, Before, RowsStay
<1> QED BY <1>2, <1>4, <1>5 DEF Kept

LEMMA StepKept ==
  ASSUME ListAssumption, Shape, MoreIsOne, Kept, [Next]_vars
  PROVE  Kept'
<1>a. \A r \in flight : r \in Requests /\ SoundRequest(r) /\ CoversItsBase(r) /\ GoesOn(r)
  BY DEF Shape, TypeOK, RequestsAreSound, Kept
<1>c. Existing \subseteq Customers /\ shown \subseteq Customers
  BY DEF Existing, Shape, TypeOK
<1>1. ASSUME renderCustomers PROVE Kept'
  <2>1. promised' = {} /\ UNCHANGED name
    BY <1>1 DEF renderCustomers
  <2>2. \A r \in flight' : (r \in flight /\ r.kind \notin {"list", "more"}) \/ r = ListRequest
    BY <1>1 DEF renderCustomers, Reads
  <2> QED BY <2>1, <2>2, NewFields DEF Kept, CoversItsBase, GoesOn, NothingPromisedIsLost
<1>2. ASSUME loadMoreCustomers PROVE Kept'
  <2>1. RowsStay
    BY <1>2, SameRows DEF loadMoreCustomers
  <2>2. (CoversItsBase(MoreRequest(cursor)) /\ GoesOn(MoreRequest(cursor)))'
    BY <1>2, NewFields DEF loadMoreCustomers, CoversItsBase, GoesOn
  <2> QED BY <1>2, <2>1, <2>2, ScreenAlone DEF loadMoreCustomers
<1>3. ASSUME submitCustomer PROVE Kept'
  <2>1. RowsStay
    BY <1>3, SameRows DEF submitCustomer
  <2>2. \A r \in flight' : r \in flight \/ (r.step = "sent" /\ r.kind # "more")
    BY <1>3, NewFields DEF submitCustomer
  <2>3. \A r \in flight' : r \in flight \/ (CoversItsBase(r) /\ GoesOn(r))'
    BY <2>2 DEF CoversItsBase, GoesOn
  <2> QED BY <1>3, <2>1, <2>3, ScreenAlone DEF submitCustomer
<1>4. ASSUME submitCustomerInvite PROVE Kept'
  <2>1. RowsStay
    BY <1>4, SameRows DEF submitCustomerInvite
  <2>2. \A r \in flight' : r \in flight \/ (r.step = "sent" /\ r.kind # "more")
    BY <1>4, NewFields DEF submitCustomerInvite
  <2>3. \A r \in flight' : r \in flight \/ (CoversItsBase(r) /\ GoesOn(r))'
    BY <2>2 DEF CoversItsBase, GoesOn
  <2> QED BY <1>4, <2>1, <2>3, ScreenAlone DEF submitCustomerInvite
<1>5. ASSUME NEW r \in flight, ReadCursor(r) PROVE Kept'
  <2>0. PICK s : s = [r EXCEPT !.step = "cursor", !.at = name[r.cursor]]
    OBVIOUS
  <2>1. s.kind = "more" /\ s.step = "cursor" /\ s.cursor = r.cursor /\ s.at = name[r.cursor]
    BY <1>5, <1>a, <2>0 DEF ReadCursor, Requests
  <2>2. flight' = (flight \ {r}) \cup {s} /\ RowsStay /\ UNCHANGED <<name, shown, cursor, promised>>
    BY <1>5, <2>0, SameRows DEF ReadCursor
  <2>3. (CoversItsBase(s) /\ GoesOn(s))'
    BY <1>5, <1>a, <2>1, <2>2 DEF ReadCursor, CoversItsBase, GoesOn
  <2> QED BY <2>2, <2>3, ScreenAlone
<1>6. ASSUME NEW r \in flight, ReadPage(r) PROVE Kept'
  <2>1. PICK page \in SUBSET Existing, next \in Customers \cup {None} :
          /\ customerListPage(customerListWhere(r.at, r.cursor), page, next)
          /\ flight' = (flight \ {r}) \cup
               {[r EXCEPT !.step = "answered", !.page = page, !.next = next,
                          !.total = Cardinality(Existing), !.base = Existing]}
    BY <1>6 DEF ReadPage
  <2>0. PICK s : s = [r EXCEPT !.step = "answered", !.page = page, !.next = next,
                               !.total = Cardinality(Existing), !.base = Existing]
    OBVIOUS
  <2>2. /\ s.kind = r.kind /\ s.step = "answered" /\ s.cursor = r.cursor
        /\ s.page = page /\ s.next = next /\ s.base = Existing
    BY <1>a, <2>0 DEF Requests
  <2>3. flight' = (flight \ {r}) \cup {s} /\ RowsStay /\ UNCHANGED <<name, shown, cursor, promised>>
    BY <1>6, <2>0, <2>1, SameRows DEF ReadPage
  <2>4. \A c \in customerListWhere(r.at, r.cursor) : Covered(c, page, next)
    BY <2>1, <1>c, PageCovers DEF customerListWhere
  <2>5. CoversItsBase(s)
    <3>1. r.kind = "list" => customerListWhere(r.at, r.cursor) = Existing
      BY <1>a DEF SoundRequest, customerListWhere
    <3> QED BY <2>2, <2>4, <3>1 DEF CoversItsBase
  <2>6. GoesOn(s)
    <3> SUFFICES ASSUME r.kind = "more", promised # {}
                 PROVE  /\ r.cursor = cursor
                        /\ \A c \in promised : AfterTheCursor(c) => Covered(c, page, next)
      BY <2>2 DEF GoesOn
    <3>1. r.cursor = cursor /\ r.at = name[cursor]
      BY <1>6, <1>a DEF ReadPage, GoesOn
    <3>2. \A c \in promised : AfterTheCursor(c) => c \in customerListWhere(r.at, r.cursor)
      BY <3>1 DEF Shape, ScreenIsSound, AfterTheCursor, customerListWhere
    <3> QED BY <2>4, <3>1, <3>2
  <2>7. (CoversItsBase(s) /\ GoesOn(s))'
    BY <2>3, <2>5, <2>6 DEF CoversItsBase, GoesOn, Covered, AfterTheCursor
  <2> QED BY <2>3, <2>7, ScreenAlone
<1>7. ASSUME NEW r \in flight, ServeAdd(r) PROVE Kept'
  <2>1. [r EXCEPT !.step = "answered"].kind = "add"
    BY <1>7, <1>a DEF ServeAdd, Requests
  <2>2. \A s \in flight' : s \in flight \/ s.kind = "add"
    BY <1>7, <2>1 DEF ServeAdd
  <2>3. \A s \in flight' : s \in flight \/ (CoversItsBase(s) /\ GoesOn(s))'
    BY <2>2 DEF CoversItsBase, GoesOn
  <2>4. PICK c \in Customers : CreateRow(c, r.at)
    BY <1>7 DEF ServeAdd
  <2>5. RowsStay
    BY <1>7, <1>a, <2>4, CreatedRow DEF ServeAdd, SoundRequest, Shape
  <2> QED BY <1>7, <2>3, <2>5, ScreenAlone DEF ServeAdd
<1>8. ASSUME NEW r \in flight, inviteCustomerAccount(r) PROVE Kept'
  <2>1. [r EXCEPT !.step = "answered"].kind = "invite"
    BY <1>8, <1>a DEF inviteCustomerAccount, Requests
  <2>2. \A s \in flight' : s \in flight \/ s.kind = "invite"
    BY <1>8, <2>1 DEF inviteCustomerAccount
  <2>3. \A s \in flight' : s \in flight \/ (CoversItsBase(s) /\ GoesOn(s))'
    BY <2>2 DEF CoversItsBase, GoesOn
  <2>4. RowsStay
    BY <1>8, SameRows DEF inviteCustomerAccount
  <2> QED BY <1>8, <2>3, <2>4, ScreenAlone DEF inviteCustomerAccount
<1>9. ASSUME NEW r \in flight, ListAnswer(r) PROVE Kept'
  <2>1. /\ shown' = r.page /\ cursor' = r.next /\ UNCHANGED name
        /\ promised' = IF loadingMore THEN {} ELSE r.base
        /\ flight' = flight \ {r}
    BY <1>9 DEF ListAnswer, pageState
  <2>2. \A c \in r.base : Covered(c, r.page, r.next)
    BY <1>9, <1>a DEF ListAnswer, CoversItsBase
  <2>3. NothingPromisedIsLost'
    BY <2>1, <2>2 DEF NothingPromisedIsLost, Covered, Before
  <2>4. promised' # {} => \A s \in flight' : s.kind # "more"
    BY <2>1 DEF MoreIsOne
  <2>5. \A s \in flight' : (CoversItsBase(s) /\ GoesOn(s))'
    BY <1>a, <2>1, <2>4 DEF CoversItsBase, GoesOn, Covered, Before
  <2> QED BY <2>3, <2>5 DEF Kept
<1>10. ASSUME NEW r \in flight, MoreAnswer(r) PROVE Kept'
  <2>1. /\ shown' = shown \cup r.page /\ cursor' = r.next /\ UNCHANGED <<name, promised>>
        /\ flight' = flight \ {r}
    BY <1>10 DEF MoreAnswer, pageState
  <2>2. \A s \in flight' : s.kind # "more"
    BY <1>10, <2>1 DEF MoreIsOne, MoreAnswer
  <2>3. promised # {} => \A c \in promised : AfterTheCursor(c) => Covered(c, r.page, r.next)
    BY <1>10, <1>a DEF MoreAnswer, GoesOn
  <2>4. NothingPromisedIsLost'
    BY <2>1, <2>3 DEF Kept, NothingPromisedIsLost, AfterTheCursor, Covered, Before
  <2>5. \A s \in flight' : (CoversItsBase(s) /\ GoesOn(s))'
    BY <1>a, <2>1, <2>2 DEF CoversItsBase, GoesOn, Covered, Before
  <2> QED BY <2>4, <2>5 DEF Kept
<1>11. ASSUME NEW r \in flight, FormAnswer(r) PROVE Kept'
  <2>1. RowsStay
    BY <1>11, SameRows DEF FormAnswer
  <2>2. \A s \in flight' : s \in flight \/ (s.step = "sent" /\ s.kind # "more")
    BY <1>11, NewFields DEF FormAnswer
  <2>3. \A s \in flight' : s \in flight \/ (CoversItsBase(s) /\ GoesOn(s))'
    BY <2>2 DEF CoversItsBase, GoesOn
  <2> QED BY <1>11, <2>1, <2>3, ScreenAlone DEF FormAnswer
<1>12. ASSUME NEW r \in flight, Fails(r) PROVE Kept'
  BY <1>12, SameRows, ScreenAlone DEF Fails
<1>13. ASSUME AddElsewhere PROVE Kept'
  BY <1>13, CreatedRow, ScreenAlone DEF AddElsewhere, Shape
<1>14. ASSUME createCustomerAccount PROVE Kept'
  BY <1>14, CreatedRow, ScreenAlone DEF createCustomerAccount, Shape
<1>15. ASSUME PatchProfile PROVE Kept'
  <2>1. promised' = {} /\ flight' = {[r EXCEPT !.base = {}] : r \in flight}
    BY <1>15 DEF PatchProfile
  <2>2. \A r \in flight' : r.base = {}
    BY <1>a, <2>1 DEF Requests
  <2> QED BY <2>1, <2>2 DEF Kept, CoversItsBase, GoesOn, NothingPromisedIsLost
<1>16. ASSUME UNCHANGED vars PROVE Kept'
  BY <1>16, SameRows, ScreenAlone DEF vars
<1> QED BY <1>1, <1>2, <1>3, <1>4, <1>5, <1>6, <1>7, <1>8, <1>9, <1>10, <1>11, <1>12, <1>13,
           <1>14, <1>15, <1>16, StepCases

-----------------------------------------------------------------------------
(* The theorems.                                                           *)

ListInv == Shape /\ MoreIsOne /\ Kept

LEMMA ListInvHolds == Spec => []ListInv
<1>1. ASSUME Init PROVE ListInv
  <2>1. flight = {ListRequest} /\ promised = {} /\ loadingMore = FALSE
    BY <1>1 DEF Init
  <2>2. MoreIsOne
    BY <2>1, NewFields DEF MoreIsOne
  <2>3. Kept
    BY <2>1, NewFields DEF Kept, CoversItsBase, GoesOn, NothingPromisedIsLost
  <2> QED BY <1>1, <2>2, <2>3, InitShape, ListAssumption DEF ListInv
<1>2. ASSUME ListInv, [Next]_vars PROVE ListInv'
  BY <1>2, StepShape, StepMoreIsOne, StepKept, ListAssumption DEF ListInv, Shape, TypeOK
<1> QED BY <1>1, <1>2, PTL DEF Spec

\* The rows of the fleet, the screen and its requests stay well-formed, whatever
\* the order in which answers arrive and rows are added.
THEOREM ListTypeCorrect == Spec => []TypeOK
<1>1. ListInv => TypeOK
  BY DEF ListInv, Shape
<1> QED BY <1>1, ListInvHolds, PTL

\* Turning the pages (GET /customers with a cursor) misses nobody: whoever the
\* list counted is on the screen or after the cursor, for any page size, names
\* that are shared and customers who come between two pages.
THEOREM PagesLoseNobody == Spec => []NothingPromisedIsLost
<1>1. ListInv => NothingPromisedIsLost
  BY DEF ListInv, Kept
<1> QED BY <1>1, ListInvHolds, PTL

\* The button "load more" is never left waiting for a page that is not under way,
\* in whatever order lists, pages and failures reach the screen.
THEOREM ButtonIsAwaited == Spec => []LoadMoreIsAwaited
<1>1. ListInv => LoadMoreIsAwaited
  BY DEF ListInv, MoreIsOne, LoadMoreIsAwaited
<1> QED BY <1>1, ListInvHolds, PTL

\* However often it is pressed and the screen drawn, one page at most is under
\* way, and the button waits exactly as long as it is.
THEOREM OnePageAtATime == Spec => []MoreIsOne
<1>1. ListInv => MoreIsOne
  BY DEF ListInv
<1> QED BY <1>1, ListInvHolds, PTL

-----------------------------------------------------------------------------
(* The rules for orders: they keep the lane, the equipment and the window  *)
(* of what they accept, and what is kept is accepted again.                *)

\* What is stored of an accepted equipment is in the vocabulary, or NULL.
LEMMA EquipmentIsStored ==
  ASSUME NEW form, EquipmentKnown(form)
  PROVE  WordOrNull(form.equipment) \in EQUIPMENT \cup {Null}
BY DEF EquipmentKnown, WordOrNull, EQUIPMENT

\* A stored equipment is accepted, and stored again, as it is.
LEMMA EquipmentIsStoredAgain ==
  ASSUME NEW word \in EQUIPMENT \cup {Null}
  PROVE  WordOrNull(word) = word /\ word \in EQUIPMENT \cup {"", Null}
<1>1. "" \notin EQUIPMENT
  BY DEF EQUIPMENT
<1> QED BY <1>1 DEF WordOrNull

\* An order with a lane, a known equipment and a customer can be repeated.
LEMMA SoundOrdersRepeat ==
  ASSUME NEW order,
         order.origin # Empty, order.destination # Empty,
         order.origin # order.destination,
         order.equipment \in EQUIPMENT \cup {Null}
  PROVE  Repeatable(order)
<1> SUFFICES ASSUME LaneSettled(order)
             PROVE  LET body == repeatOrderBody(order, AsItIs)
                        again == buildFleetOrderRows(normalizeFleetOrder(body, body.customerId))
                    IN  /\ FleetOrderAccepted(body)
                        /\ again.customerId = order.customerId
                        /\ again.origin = order.origin
                        /\ again.destination = order.destination
                        /\ again.equipment = order.equipment
  BY DEF Repeatable
<1> DEFINE body == repeatOrderBody(order, AsItIs)
           again == buildFleetOrderRows(normalizeFleetOrder(body, body.customerId))
<1>1. /\ body.origin = order.origin /\ body.destination = order.destination
      /\ body.equipment = order.equipment /\ body.customerId = order.customerId
      /\ body.plannedAt = Null /\ body.loadReadyAt = Null /\ body.deliverByAt = Null
  BY DEF repeatOrderBody, AsItIs
<1>2. /\ Cut(body.origin, Route) = order.origin
      /\ Cut(body.destination, Route) = order.destination
  BY <1>1 DEF LaneSettled, Settled
<1>3. RouteGiven(body)
  BY <1>2 DEF RouteGiven
<1>4. EquipmentKnown(body) /\ WordOrNull(body.equipment) = order.equipment
  BY <1>1, EquipmentIsStoredAgain DEF EquipmentKnown
<1>5. FleetOrderAccepted(body)
  BY <1>1, <1>3, <1>4 DEF FleetOrderAccepted, WindowOrdered, optionalDate
<1>6. /\ again.customerId = order.customerId
      /\ again.origin = order.origin /\ again.destination = order.destination
      /\ again.equipment = order.equipment
  BY <1>1, <1>2, <1>4 DEF buildFleetOrderRows, normalizeFleetOrder
<1> QED BY <1>5, <1>6

\* "Book it again" (POST /orders with repeatOf) accepts every order there can
\* be, from the wizard, the fleet's form or a driver's quick job, and books the
\* same lane and equipment for the same customer, unless an address was cut
\* just after a blank.
THEOREM EveryOrderCanBeRepeated ==
  ASSUME NEW forms, NEW customer,
         NEW order \in WizardOrders(forms, customer) \cup FleetOrders(forms, customer)
                         \cup QuickJobOrders(forms, customer)
  PROVE  Repeatable(order)
<1>1. CASE order \in WizardOrders(forms, customer)
  <2>1. PICK form \in forms : /\ BookingAccepted(form)
                              /\ order = buildOrderData(normalizeBooking(form), customer)
    BY <1>1 DEF WizardOrders
  <2>2. RouteGiven(form) /\ EquipmentKnown(form)
    BY <2>1 DEF BookingAccepted
  <2>3. /\ order.origin = Cut(form.origin, Route)
        /\ order.destination = Cut(form.destination, Route)
        /\ order.equipment = WordOrNull(form.equipment)
    BY <2>1 DEF buildOrderData, normalizeBooking
  <2> QED BY <2>2, <2>3, EquipmentIsStored, SoundOrdersRepeat DEF RouteGiven
<1>2. CASE order \in FleetOrders(forms, customer)
  <2>1. PICK form \in forms : /\ FleetOrderAccepted(form)
                              /\ order = buildFleetOrderRows(normalizeFleetOrder(form, customer))
    BY <1>2 DEF FleetOrders
  <2>2. RouteGiven(form) /\ EquipmentKnown(form)
    BY <2>1 DEF FleetOrderAccepted
  <2>3. /\ order.origin = Cut(form.origin, Route)
        /\ order.destination = Cut(form.destination, Route)
        /\ order.equipment = WordOrNull(form.equipment)
    BY <2>1 DEF buildFleetOrderRows, normalizeFleetOrder
  <2> QED BY <2>2, <2>3, EquipmentIsStored, SoundOrdersRepeat DEF RouteGiven
<1>3. CASE order \in QuickJobOrders(forms, customer)
  <2>1. PICK form \in forms : /\ QuickJobAccepted(form)
                              /\ order = buildQuickJobOrder(normalizeQuickJob(form), customer)
    BY <1>3 DEF QuickJobOrders
  <2>2. RouteGiven(form) /\ EquipmentKnown(form)
    BY <2>1 DEF QuickJobAccepted
  <2>3. /\ order.origin = Cut(form.origin, Route)
        /\ order.destination = Cut(form.destination, Route)
        /\ order.equipment = WordOrNull(form.equipment)
    BY <2>1 DEF buildQuickJobOrder, normalizeQuickJob
  <2> QED BY <2>2, <2>3, EquipmentIsStored, SoundOrdersRepeat DEF RouteGiven
<1> QED BY <1>1, <1>2, <1>3

\* A booking in the marketplace posts a load that the marketplace's own rules
\* would accept: no instant load without a rate, no window that ends before it
\* begins; and the carriers read the lane, window and amount that were booked.
THEOREM LoadsArePostedAsBooked ==
  ASSUME NEW form, NEW order, NEW customer, NEW expiresAt \in Int
  PROVE  PostedAsBooked(form, order, customer, expiresAt)
<1> DEFINE value == normalizeBooking(form)
           load == buildLoadPostingData(value, order, customer, expiresAt)
<1> SUFFICES ASSUME BookingAccepted(form), LaneSettled(value)
             PROVE  /\ LoadAccepted(load)
                    /\ \A field \in {"origin", "destination", "equipment", "loadReadyAt",
                                     "deliverByAt", "pricingMode", "priceEur", "expiresAt"} :
                         normalizeLoadPosting(load)[field] = load[field]
  BY DEF PostedAsBooked
<1>1. /\ RouteGiven(form) /\ EquipmentKnown(form) /\ WindowOrdered(form)
      /\ OrDefault(form.pricingMode, "instant") \in PRICING_MODES
      /\ optionalNumber(form.budgetEur)
  BY DEF BookingAccepted
<1>2. /\ value.origin = Cut(form.origin, Route)
      /\ value.destination = Cut(form.destination, Route)
      /\ value.equipment = form.equipment /\ value.budgetEur = form.budgetEur
      /\ value.loadReadyAt = form.loadReadyAt /\ value.deliverByAt = form.deliverByAt
      /\ value.pricingMode = OrDefault(form.pricingMode, "instant")
  BY DEF normalizeBooking
<1> HIDE DEF value
<1>3. /\ load.origin = value.origin /\ load.destination = value.destination
      /\ load.equipment = WordOrNull(value.equipment) /\ load.priceEur = value.budgetEur
      /\ load.loadReadyAt = value.loadReadyAt /\ load.deliverByAt = value.deliverByAt
      /\ load.pricingMode = PricingOf(value) /\ load.expiresAt = expiresAt
  BY DEF buildLoadPostingData, Price
<1> HIDE DEF load
<1>4. /\ Cut(load.origin, Route) = load.origin
      /\ Cut(load.destination, Route) = load.destination
  BY <1>3 DEF LaneSettled, Settled
<1>5. RouteGiven(load)
  BY <1>1, <1>2, <1>3, <1>4 DEF RouteGiven
<1>6. EquipmentKnown(load) /\ WordOrNull(load.equipment) = load.equipment
  BY <1>1, <1>2, <1>3, EquipmentIsStored, EquipmentIsStoredAgain DEF EquipmentKnown
<1>7. WindowOrdered(load)
  BY <1>1, <1>2, <1>3 DEF WindowOrdered
<1>8. load.pricingMode \in PRICING_MODES
  BY <1>1, <1>2, <1>3 DEF PricingOf, PRICING_MODES
<1>9. OrDefault(load.pricingMode, "quotes") = load.pricingMode
  BY <1>8, TextAssumption DEF OrDefault, PRICING_MODES
<1>10. load.pricingMode = "instant" => load.priceEur # Null /\ load.priceEur > 0
  <2> SUFFICES ASSUME load.pricingMode = "instant"
               PROVE  load.priceEur # Null /\ load.priceEur > 0
    OBVIOUS
  <2>1. value.budgetEur # Null /\ ~(value.budgetEur <= 0)
    BY <1>3 DEF PricingOf, Price
  <2>2. value.budgetEur \in Nat
    BY <1>1, <1>2, <2>1 DEF optionalNumber
  <2> QED BY <2>1, <2>2, <1>3
<1>11. LoadAccepted(load)
  BY <1>1, <1>2, <1>3, <1>5, <1>6, <1>7, <1>8, <1>9, <1>10
     DEF LoadAccepted, optionalNumber, optionalDate
<1>12. \A field \in {"origin", "destination", "equipment", "loadReadyAt",
                     "deliverByAt", "pricingMode", "priceEur", "expiresAt"} :
         normalizeLoadPosting(load)[field] = load[field]
  BY <1>4, <1>6, <1>9 DEF normalizeLoadPosting
<1> QED BY <1>11, <1>12

\* The fleet's page is not more permissive than the server: an order it lets
\* through with a readable date, an equipment of the list and a lane within
\* the limit is accepted and stored as it was typed.
THEOREM PageIsNotMorePermissive ==
  ASSUME NEW form
  PROVE  PageIsNoLooser(form)
<1> DEFINE body == OrderFormBody(form)
<1> SUFFICES ASSUME validateOrderForm(form), LaneSettled(form),
                    optionalDate(form.plannedAt), EquipmentKnown(form)
             PROVE  /\ FleetOrderAccepted(body)
                    /\ normalizeFleetOrder(body, form.customerId).origin = form.origin
                    /\ normalizeFleetOrder(body, form.customerId).destination
                         = form.destination
  BY DEF PageIsNoLooser
<1>1. /\ body.origin = form.origin /\ body.destination = form.destination
      /\ body.plannedAt = form.plannedAt /\ body.equipment = form.equipment
      /\ body.loadReadyAt = Null /\ body.deliverByAt = Null
  BY DEF OrderFormBody
<1>2. /\ Cut(body.origin, Route) = form.origin
      /\ Cut(body.destination, Route) = form.destination
  BY <1>1 DEF LaneSettled, Settled
<1>3. RouteGiven(body)
  BY <1>2 DEF RouteGiven, validateOrderForm
<1>4. FleetOrderAccepted(body)
  BY <1>1, <1>3 DEF FleetOrderAccepted, WindowOrdered, EquipmentKnown, optionalDate
<1> QED BY <1>2, <1>4 DEF normalizeFleetOrder
=============================================================================
