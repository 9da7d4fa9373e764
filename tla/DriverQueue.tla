---------------------------- MODULE DriverQueue ----------------------------
(***************************************************************************)
(* The offline queue of a driver, in its three implementations:            *)
(*   "pilot"    the driver page (pilot/driver.html): every change is       *)
(*              queued, sent one at a time, and a pass stops at the first  *)
(*              failure worth a retry;                                     *)
(*   "app"      My trips in the fleet app (app.js): online changes are     *)
(*              sent directly, failed ones queued, and a pass sends the    *)
(*              whole queue at once;                                       *)
(*   "android"  the driver app: every change is queued, sent one at a time,*)
(*              whatever happened to the one before.                       *)
(* One driver, one trip; the network loses requests and answers, the       *)
(* program dies, the session expires and a dispatcher moves the trip.      *)
(***************************************************************************)
EXTENDS Naturals, Sequences, FiniteSets, TripStatus

CONSTANTS
  Engines,         \* the implementations under consideration
  StartStatuses,   \* statuses the trip may have when the driver goes to work
  MaxChanges,      \* bound: changes the driver makes
  MaxPasses,       \* bound: sync passes that can overlap
  DispatcherMoves, \* bound: moves by the dispatcher
  MaxTroubles      \* bound: deaths of the program and expiries of the session

ASSUME QueueBounds ==
  /\ Engines \subseteq {"pilot", "app", "android"}
  /\ StartStatuses \subseteq TRIP_STATUSES
  /\ MaxPasses \in Nat \ {0}
  /\ MaxChanges \in Nat /\ DispatcherMoves \in Nat /\ MaxTroubles \in Nat

VARIABLES
  engine,     \* the implementation this driver uses
  status,     \* the server: the trip's status
  pod,        \* the server: the trip has a POD that is UPLOADED or VERIFIED
  signedIn,   \* the token the client sends is still valid
  shown,      \* the trip row the client last read
  change,     \* what the driver did, in order; a change's id is its place
  queue,      \* the ids in the stored queue
  direct,     \* the ids of direct requests in flight (app only)
  syncing,    \* the flag that keeps a second pass from starting
  pass,       \* the sync passes
  fate,       \* history: what became of each change
  moves, troubles

server == <<status, pod>>
client == <<shown, change, queue, direct, syncing, pass>>
vars == <<engine, server, fate, client, signedIn, moves, troubles>>

Ids == 1 .. MaxChanges
Passes == 1 .. MaxPasses
Change == [kind: {"status"}, to: TRIP_STATUSES] \cup [kind: {"document"}]
Trip == [status: TRIP_STATUSES, pod: BOOLEAN]
\* todo: planned and not yet sent; settled: sent, and not to be sent again.
Pass == [at: {"idle", "guarded", "sending"}, todo: SUBSET Ids, settled: SUBSET Ids]
\* given_up: discarded by the driver, or lost with the page, before the server saw it.
Fates == {"new", "given_up", "refused", "once", "often"}
CarriedOut == {"once", "often"}
IdlePass == [at |-> "idle", todo |-> {}, settled |-> {}]

TypeOK ==
  /\ engine \in Engines
  /\ status \in TRIP_STATUSES /\ pod \in BOOLEAN
  /\ signedIn \in BOOLEAN
  /\ shown \in Trip
  /\ change \in Seq(Change) /\ Len(change) <= MaxChanges
  /\ queue \subseteq 1 .. Len(change)
  /\ direct \subseteq 1 .. Len(change)
  /\ syncing \in BOOLEAN
  /\ pass \in [Passes -> Pass]
  /\ \A p \in Passes : pass[p].todo \cup pass[p].settled \subseteq 1 .. Len(change)
  /\ fate \in [Ids -> Fates]
  /\ moves \in 0 .. DispatcherMoves /\ troubles \in 0 .. MaxTroubles

Init ==
  /\ engine \in Engines
  /\ status \in StartStatuses
  /\ pod = FALSE
  /\ signedIn = TRUE
  /\ shown = [status |-> status, pod |-> FALSE]
  /\ change = <<>>
  /\ queue = {} /\ direct = {}
  /\ syncing = FALSE
  /\ pass = [p \in Passes |-> IdlePass]
  /\ fate = [i \in Ids |-> "new"]
  /\ moves = 0 /\ troubles = 0

-----------------------------------------------------------------------------
(* The driver.                                                             *)

\* The buttons on the card.  The fleet app offers every legal edge; the others
\* leave out what only the carrier may do.
driverStatusActions(s) ==
  IF s \in Disruptions THEN {}
  ELSE {to \in TRIP_STATUSES : canTransition(s, to)
                               /\ (to \in Disruptions => to \in DRIVER_REPORTABLE_ENDINGS)}
statusActions(s) == {to \in TRIP_STATUSES : canTransition(s, to)}
Offered ==
  {to \in IF engine = "app" THEN statusActions(shown.status)
                            ELSE driverStatusActions(shown.status) :
     to = "POD_UPLOADED" => shown.pod}

NewIds_OffByOne(n) == Len(change) + 2 .. Len(change) + n + 1
NewIds(n) == Len(change) + 1 .. Len(change) + n

\* queueSave and writeQueue: a queued change is on the device before it is sent.
Enqueue(items) ==
  /\ change' = change \o items
  /\ queue' = queue \cup NewIds(Len(items))
  /\ UNCHANGED direct

\* Online, the fleet app sends without looking at what is still queued.
SendNow(item) ==
  /\ change' = Append(change, item)
  /\ direct' = direct \cup NewIds(1)
  /\ UNCHANGED queue

Do(items) ==
  /\ Len(change) + Len(items) <= MaxChanges
  /\ \/ Enqueue(items)
     \/ engine = "app" /\ SendNow(items[1])
  /\ UNCHANGED <<engine, server, fate, shown, syncing, pass, signedIn, moves, troubles>>

PressStatus(to) ==
  /\ to \in Offered
  /\ Do(<<[kind |-> "status", to |-> to]>>)

\* On the driver page a photo of the POD also moves the trip on, after the file.
CapturePod ==
  LET photo == <<[kind |-> "document"]>>
  IN  Do(IF engine = "pilot" /\ canTransition(shown.status, "POD_UPLOADED")
         THEN Append(photo, [kind |-> "status", to |-> "POD_UPLOADED"])
         ELSE photo)

GiveUp(ids) ==
  [i \in Ids |-> IF i \in ids /\ fate[i] = "new" THEN "given_up" ELSE fate[i]]

Discard(i) ==
  /\ engine = "pilot"
  /\ i \in queue
  /\ queue' = queue \ {i}
  /\ fate' = GiveUp({i})
  /\ UNCHANGED <<engine, server, shown, change, direct, syncing, pass, signedIn, moves, troubles>>

Refresh ==
  /\ signedIn
  /\ shown' = [status |-> status, pod |-> pod]
  /\ UNCHANGED <<engine, server, fate, change, queue, direct, syncing, pass, signedIn,
                 moves, troubles>>

-----------------------------------------------------------------------------
(* The server.                                                             *)

\* POST /trips/:id/documents takes a file whenever it comes, and again;
\* POST /trips/:id/status takes what the status machine allows the driver.
Accepts(i) ==
  /\ signedIn
  /\ change[i].kind = "status" =>
       /\ canTransition(status, change[i].to)
       /\ ~requiresCarrierActor(status, change[i].to)
       /\ change[i].to = "POD_UPLOADED" => pod

CarryOut(i) ==
  /\ Accepts(i)
  /\ IF change[i].kind = "status"
     THEN status' = change[i].to /\ UNCHANGED pod
     ELSE pod' = TRUE /\ UNCHANGED status
  /\ fate' = [fate EXCEPT ![i] = IF @ \in CarriedOut THEN "often" ELSE "once"]

Refuse(i) ==
  /\ ~Accepts(i)
  /\ fate' = [fate EXCEPT ![i] = IF @ \in CarriedOut THEN @ ELSE "refused"]
  /\ UNCHANGED server

\* What becomes of a request, and what the client hears of it: the answer, or
\* nothing (the request, or only its answer, was lost; a 5xx reads the same).
Handled(i, heard) ==
  \/ heard = "2xx" /\ CarryOut(i)
  \/ heard = "4xx" /\ Refuse(i)
  \/ heard = "none" /\ (CarryOut(i) \/ Refuse(i) \/ UNCHANGED <<server, fate>>)

DispatcherMove(to) ==
  /\ moves < DispatcherMoves
  /\ canTransition(status, to)
  /\ to = "POD_UPLOADED" => pod
  /\ status' = to
  /\ moves' = moves + 1
  /\ UNCHANGED <<engine, pod, fate, client, signedIn, troubles>>

Expire ==
  /\ signedIn
  /\ troubles < MaxTroubles
  /\ signedIn' = FALSE
  /\ troubles' = troubles + 1
  /\ UNCHANGED <<engine, server, fate, client, moves>>

SignIn ==
  /\ signedIn' = TRUE
  /\ UNCHANGED <<engine, server, fate, client, moves, troubles>>

-----------------------------------------------------------------------------
(* The sync pass.                                                          *)

classifyFailure_AnyIsFinal(heard) == "drop"
classifyFailure(heard) == IF heard = "none" THEN "retry" ELSE "drop"

\* The page tests the flag here and sets it only after the queue is loaded; the
\* others do both in one step (one synchronous block, or a mutex).
BeginPass(p) ==
  /\ pass[p].at = "idle"
  /\ \A q \in 1 .. p - 1 : pass[q].at # "idle"
  /\ ~syncing
  /\ IF engine = "pilot"
     THEN /\ pass' = [pass EXCEPT ![p].at = "guarded"]
          /\ UNCHANGED syncing
     ELSE /\ queue # {}
          /\ pass' = [pass EXCEPT ![p] = [at |-> "sending", todo |-> queue, settled |-> {}]]
          /\ syncing' = TRUE
  /\ UNCHANGED <<engine, server, fate, shown, change, queue, direct, signedIn, moves, troubles>>

LoadQueue(p) ==
  /\ pass[p].at = "guarded"
  /\ IF queue = {}
     THEN pass' = [pass EXCEPT ![p] = IdlePass] /\ UNCHANGED syncing
     ELSE /\ pass' = [pass EXCEPT ![p] = [at |-> "sending", todo |-> queue, settled |-> {}]]
          /\ syncing' = TRUE
  /\ UNCHANGED <<engine, server, fate, shown, change, queue, direct, signedIn, moves, troubles>>

\* Oldest first, one at a time; the fleet app's requests arrive in any order.
Sendable(p) ==
  IF engine = "app" THEN pass[p].todo
  ELSE {i \in pass[p].todo : \A j \in pass[p].todo : i <= j}

AfterAnswer_GoesOn(row, i, heard) ==
  IF heard = "2xx" \/ classifyFailure(heard) = "drop"
  THEN [row EXCEPT !.todo = @ \ {i}, !.settled = @ \cup {i}]
  ELSE [row EXCEPT !.todo = @ \ {i}]
AfterAnswer(row, i, heard) ==
  IF heard = "2xx" \/ classifyFailure(heard) = "drop"
  THEN [row EXCEPT !.todo = @ \ {i}, !.settled = @ \cup {i}]
  ELSE [row EXCEPT !.todo = IF engine = "pilot" THEN {} ELSE @ \ {i}]

Send(p, i, heard) ==
  /\ i \in Sendable(p)
  /\ Handled(i, heard)
  /\ pass' = [pass EXCEPT ![p] = AfterAnswer(@, i, heard)]
  /\ UNCHANGED <<engine, shown, change, queue, direct, syncing, signedIn, moves, troubles>>

\* applySyncResults: what was settled leaves the queue as it is by now.
Fold_KeepsFlag(p) ==
  /\ pass[p].at = "sending" /\ pass[p].todo = {}
  /\ queue' = queue \ pass[p].settled
  /\ pass' = [pass EXCEPT ![p] = IdlePass]
  /\ syncing' = (queue' # {})
  /\ UNCHANGED <<engine, server, fate, shown, change, direct, signedIn, moves, troubles>>
Fold(p) ==
  /\ pass[p].at = "sending" /\ pass[p].todo = {}
  /\ queue' = queue \ pass[p].settled
  /\ pass' = [pass EXCEPT ![p] = IdlePass]
  /\ syncing' = FALSE
  /\ UNCHANGED <<engine, server, fate, shown, change, direct, signedIn, moves, troubles>>

\* sendDriverStatus and handleDriverPhoto: only silence puts the change in the queue.
AnswerDirect(i, heard) ==
  /\ i \in direct
  /\ Handled(i, heard)
  /\ direct' = direct \ {i}
  /\ queue' = IF heard = "none" THEN queue \cup {i} ELSE queue
  /\ UNCHANGED <<engine, shown, change, syncing, pass, signedIn, moves, troubles>>

\* The page is closed or the process dies: only the stored queue is left.
Crash ==
  /\ troubles < MaxTroubles
  /\ troubles' = troubles + 1
  /\ pass' = [p \in Passes |-> IdlePass]
  /\ syncing' = FALSE
  /\ direct' = {}
  /\ fate' = GiveUp(direct)
  /\ UNCHANGED <<engine, server, shown, change, queue, signedIn, moves>>

Heard == {"2xx", "4xx", "none"}

Next ==
  \/ \E to \in TRIP_STATUSES : PressStatus(to) \/ DispatcherMove(to)
  \/ CapturePod \/ Refresh \/ Expire \/ SignIn \/ Crash
  \/ \E i \in Ids : Discard(i)
  \/ \E p \in Passes : BeginPass(p) \/ LoadQueue(p) \/ Fold(p)
  \/ \E p \in Passes, i \in Ids, heard \in Heard : Send(p, i, heard)
  \/ \E i \in Ids, heard \in Heard : AnswerDirect(i, heard)

\* Only the Android engine has a timer: once a minute while online a pass starts,
\* and a pass goes on by itself.  The network is not dead for ever: a change that
\* is sent again and again is answered in the end.  Nothing is assumed of the
\* driver, the dispatcher, the session or what kills the program.
TimedPass(p) == engine = "android" /\ BeginPass(p)
Answered(p, i) == engine = "android" /\ (Send(p, i, "2xx") \/ Send(p, i, "4xx"))
SendAny(p) == engine = "android" /\ \E i \in Ids, heard \in Heard : Send(p, i, heard)

Fairness ==
  /\ \A p \in Passes : /\ WF_vars(SendAny(p))
                       /\ WF_vars(Fold(p))
  /\ WF_vars(\E p \in Passes : TimedPass(p))
  /\ \A i \in Ids : SF_vars(\E p \in Passes : Answered(p, i))

Spec == Init /\ [][Next]_vars /\ Fairness

-----------------------------------------------------------------------------
Made == 1 .. Len(change)
Arrived == {i \in Ids : fate[i] \in CarriedOut \cup {"refused"}}

\* A change the driver made is never just gone: it is queued or on its way, or the
\* server carried it out or refused it, or the driver gave it up; whatever is lost
\* on the network, whoever crashes between sending and folding, and although
\* changes are queued while a pass runs.
NothingVanishes ==
  \A i \in Made : i \in queue \cup direct \/ fate[i] # "new"

\* Sent again after a lost answer, by overlapping passes or after a crash, a status
\* change is still carried out once: the way back out of a disruption is the
\* carrier's, so the driver's replay is refused.  The exception is BREAKDOWN, whose
\* recovery leads back to where it was reported.
StatusOnlyOnce ==
  \A i \in Made :
    change[i].kind = "status" /\ change[i].to # "BREAKDOWN" => fate[i] # "often"

\* "A trip's changes must replay in the order they happened": the server does not
\* see a change while an older one still waits in the queue and was never decided.
InOrder ==
  \A i \in Arrived' \ Arrived : \A j \in queue : j < i => j \in Arrived
\* What the driver page keeps, although its passes overlap.
PilotReplaysInOrder == [][engine = "pilot" => InOrder]_vars

\* On Android every queued change is settled in the end.
QueueDrains == \A i \in Ids : engine = "android" /\ i \in queue ~> i \notin queue
=============================================================================
