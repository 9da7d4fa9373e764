---------------------------- MODULE FleetCustomers ----------------------------
(***************************************************************************)
(* The customers of one fleet and the screen that lists them page by page. *)
(* The list is ordered by name and then by id, and a page starts after its *)
(* cursor, a row of the page before.  A page is read in two steps, the     *)
(* cursor's row and then the rows after it, while other dispatchers add    *)
(* customers, shippers sign up, and customers with a login rename          *)
(* themselves.  Answers reach the screen in any order; a new drawing of    *)
(* the screen throws away the answers of pages asked for before.           *)
(***************************************************************************)
EXTENDS Integers, FiniteSets

CONSTANTS
  Customers,  \* ids a customer row may get, which are ordered
  Names,      \* names, which are ordered; several customers may share one
  Emails,     \* addresses a login may have
  PageSize,   \* rows of one page
  MaxFlight,  \* bound: requests of the screen under way
  None

ASSUME ListAssumption ==
  /\ Customers \subseteq Int /\ Names \subseteq Int
  /\ PageSize \in Nat \ {0} /\ MaxFlight \in Nat
  /\ None \notin Customers \cup Names

VARIABLES
  name,     \* of each customer row; None: the row does not exist
  account,  \* the customer a login acts for
  shown,    \* the screen: customersState.rows
  cursor,   \* the screen: nextCursor, None after the last page
  total,    \* the screen: how many customers the server counted
  loadingMore, \* the screen: the button is waiting for a page
  flight,   \* requests of the screen: sent, half served, or answered
  promised  \* history: what the list said there is, while nothing renamed
            \* itself and no page of an older list was still to come

vars == <<name, account, shown, cursor, total, loadingMore, flight, promised>>

Existing == {c \in Customers : name[c] # None}

\* Requests.  at: the cursor's name once it has been read; page, next, total:
\* the answer; base: history, the customers there were when it was computed.
Request == [kind |-> "list", step |-> "sent", cursor |-> None, at |-> None, page |-> {},
            next |-> None, total |-> 0, base |-> {}, customer |-> None, email |-> None]
ListRequest == Request
MoreRequest(c) == [Request EXCEPT !.kind = "more", !.cursor = c]
AddRequest(n) == [Request EXCEPT !.kind = "add", !.at = n]
InviteRequest(c, e) == [Request EXCEPT !.kind = "invite", !.customer = c, !.email = e]
Reads == {r \in flight : r.kind \in {"list", "more"}}

Init ==
  /\ name = [c \in Customers |-> None] /\ account = [e \in Emails |-> None]
  /\ shown = {} /\ cursor = None /\ total = 0 /\ loadingMore = FALSE
  /\ flight = {ListRequest} /\ promised = {}

-----------------------------------------------------------------------------
(* The server.                                                             *)

\* name asc, id asc.
Before(n, c, m, d) == n < m \/ (n = m /\ c < d)

\* The rows after the cursor's row as it was read: name n, id c.
customerListWhere_NameOnly(n, c) == {d \in Existing : c = None \/ n < name[d]}
customerListWhere(n, c) ==
  {d \in Existing : c = None \/ Before(n, c, name[d], d)}

\* page: the first PageSize of rows; next: the last of them when there are more.
customerListPage(rows, page, next) ==
  /\ page \subseteq rows
  /\ Cardinality(page) <= PageSize
  /\ page # rows => Cardinality(page) = PageSize
  /\ \A c \in page, d \in rows \ page : Before(name[c], c, name[d], d)
  /\ IF page = rows THEN next = None
     ELSE next \in page /\ \A c \in page : c = next \/ Before(name[c], c, name[next], next)

\* The cursor's row is looked up first.  Customers are never removed.
ReadCursor(r) ==
  /\ r.kind = "more" /\ r.step = "sent"
  /\ flight' = (flight \ {r}) \cup {[r EXCEPT !.step = "cursor", !.at = name[r.cursor]]}
  /\ UNCHANGED <<name, account, shown, cursor, total, loadingMore, promised>>
ReadPage(r) ==
  /\ r.kind \in {"list", "more"} /\ r.step = IF r.kind = "list" THEN "sent" ELSE "cursor"
  /\ \E page \in SUBSET Existing : \E next \in Customers \cup {None} :
       /\ customerListPage(customerListWhere(r.at, r.cursor), page, next)
       /\ flight' = (flight \ {r}) \cup
            {[r EXCEPT !.step = "answered", !.page = page, !.next = next,
                       !.total = Cardinality(Existing), !.base = Existing]}
  /\ UNCHANGED <<name, account, shown, cursor, total, loadingMore, promised>>

\* A new row: its id is unlike any other and comes anywhere in the order.
CreateRow(c, n) == name[c] = None /\ name' = [name EXCEPT ![c] = n]
ServeAdd(r) ==
  /\ r.kind = "add" /\ r.step = "sent"
  /\ \E c \in Customers : CreateRow(c, r.at)
  /\ flight' = (flight \ {r}) \cup {[r EXCEPT !.step = "answered"]}
  /\ UNCHANGED <<account, shown, cursor, total, loadingMore, promised>>
\* Another dispatcher's form.
AddElsewhere ==
  /\ \E c \in Customers, n \in Names : CreateRow(c, n)
  /\ UNCHANGED <<account, shown, cursor, total, loadingMore, flight, promised>>

\* One login per address: the second of two is refused (409).
GiveLogin(c, e) == account[e] = None /\ account' = [account EXCEPT ![e] = c]
inviteCustomerAccount(r) ==
  /\ r.kind = "invite" /\ r.step = "sent"
  /\ GiveLogin(r.customer, r.email)
  /\ flight' = (flight \ {r}) \cup {[r EXCEPT !.step = "answered"]}
  /\ UNCHANGED <<name, shown, cursor, total, loadingMore, promised>>
\* A shipper registers: a customer of the hosting fleet, and its login.
createCustomerAccount ==
  /\ \E c \in Customers, n \in Names, e \in Emails : CreateRow(c, n) /\ GiveLogin(c, e)
  /\ UNCHANGED <<shown, cursor, total, loadingMore, flight, promised>>
\* A customer with a login changes its company's name.
PatchProfile ==
  /\ \E e \in Emails, n \in Names :
       /\ account[e] # None
       /\ n # name[account[e]]
       /\ name' = [name EXCEPT ![account[e]] = n]
  /\ promised' = {}
  /\ flight' = {[r EXCEPT !.base = {}] : r \in flight}
  /\ UNCHANGED <<account, shown, cursor, total, loadingMore>>

-----------------------------------------------------------------------------
(* The screen.                                                             *)

\* Drawing it: nothing is shown, and pages asked for before are not used.
renderCustomers ==
  /\ shown' = {} /\ cursor' = None /\ total' = 0 /\ loadingMore' = FALSE
  /\ flight' = (flight \ Reads) \cup {ListRequest}
  /\ promised' = {}
  /\ UNCHANGED <<name, account>>

loadMoreCustomers ==
  /\ cursor # None /\ ~loadingMore
  /\ Cardinality(flight) < MaxFlight
  /\ loadingMore' = TRUE
  /\ flight' = flight \cup {MoreRequest(cursor)}
  /\ UNCHANGED <<name, account, shown, cursor, total, promised>>

submitCustomer ==
  /\ Cardinality(flight) < MaxFlight
  /\ \E n \in Names : flight' = flight \cup {AddRequest(n)}
  /\ UNCHANGED <<name, account, shown, cursor, total, loadingMore, promised>>
submitCustomerInvite ==
  /\ Cardinality(flight) < MaxFlight
  /\ \E c \in shown, e \in Emails : flight' = flight \cup {InviteRequest(c, e)}
  /\ UNCHANGED <<name, account, shown, cursor, total, loadingMore, promised>>

\* A page is added to what is shown; no row is shown twice.
pageState(page, previous) == previous \cup page

\* The first page replaces everything; a button that waits goes on waiting.
ListAnswer(r) ==
  /\ r.kind = "list" /\ r.step = "answered"
  /\ shown' = pageState(r.page, {}) /\ cursor' = r.next /\ total' = r.total
  /\ flight' = flight \ {r}
  /\ promised' = IF loadingMore THEN {} ELSE r.base
  /\ UNCHANGED <<name, account, loadingMore>>
MoreAnswer_KeepsWaiting(r) ==
  /\ r.kind = "more" /\ r.step = "answered"
  /\ shown' = pageState(r.page, shown) /\ cursor' = r.next /\ total' = r.total
  /\ flight' = flight \ {r}
  /\ UNCHANGED <<name, account, loadingMore, promised>>
MoreAnswer(r) ==
  /\ r.kind = "more" /\ r.step = "answered"
  /\ loadingMore' = FALSE
  /\ shown' = pageState(r.page, shown) /\ cursor' = r.next /\ total' = r.total
  /\ flight' = flight \ {r}
  /\ UNCHANGED <<name, account, promised>>
\* A form was accepted: the list is fetched again, for the screen as it is now.
FormAnswer(r) ==
  /\ r.kind \in {"add", "invite"} /\ r.step = "answered"
  /\ flight' = (flight \ {r}) \cup {ListRequest}
  /\ UNCHANGED <<name, account, shown, cursor, total, loadingMore, promised>>
\* Refused, failed or lost: the screen says so and keeps what it shows.
Fails(r) ==
  /\ flight' = flight \ {r}
  /\ loadingMore' = (loadingMore /\ r.kind # "more")
  /\ UNCHANGED <<name, account, shown, cursor, total, promised>>

Serve(r) == ReadCursor(r) \/ ReadPage(r) \/ ServeAdd(r) \/ inviteCustomerAccount(r)
Answer(r) == ListAnswer(r) \/ MoreAnswer(r) \/ FormAnswer(r) \/ Fails(r)

Next ==
  \/ renderCustomers \/ loadMoreCustomers \/ submitCustomer \/ submitCustomerInvite
  \/ \E r \in flight : Serve(r) \/ Answer(r)
  \/ AddElsewhere \/ createCustomerAccount \/ PatchProfile
Spec == Init /\ [][Next]_vars

-----------------------------------------------------------------------------
(* Properties.                                                             *)

Requests ==
  [kind : {"list", "more", "add", "invite"}, step : {"sent", "cursor", "answered"},
   cursor : Customers \cup {None}, at : Names \cup {None}, page : SUBSET Customers,
   next : Customers \cup {None}, total : Nat, base : SUBSET Customers,
   customer : Customers \cup {None}, email : Emails \cup {None}]

\* The rows, the screen and the requests under way are well-formed.
TypeOK ==
  /\ name \in [Customers -> Names \cup {None}]
  /\ account \in [Emails -> Customers \cup {None}]
  /\ shown \subseteq Customers /\ cursor \in Customers \cup {None} /\ total \in Nat
  /\ loadingMore \in BOOLEAN /\ flight \subseteq Requests /\ promised \subseteq Customers

\* "The next page starts exactly after it": as long as no customer renames
\* itself and no list is fetched while a page is awaited, every customer the
\* list counted is on the screen or comes after the cursor, customers of one
\* name and customers added between two pages included.
NothingPromisedIsLost ==
  \A c \in promised :
    c \in shown \/ (cursor # None /\ Before(name[cursor], cursor, name[c], c))

\* A button that waits for a page has its page under way, however the screen is
\* drawn and its lists are fetched meanwhile: it does not wait for ever.
LoadMoreIsAwaited == loadingMore => \E r \in flight : r.kind = "more"
=============================================================================
