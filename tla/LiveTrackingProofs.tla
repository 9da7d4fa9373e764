------------------------- MODULE LiveTrackingProofs -------------------------
(***************************************************************************)
(* Proofs about LiveTracking for any number of trips, points and panels,   *)
(* any batch size and any interleaving of the two workers, lost answers,   *)
(* late requests, restarts and reconnections: every point is stored once   *)
(* before the phone forgets it, and the map never jumps back.              *)
(***************************************************************************)
EXTENDS LiveTracking, FiniteSetTheorems, WellFoundedInduction, TLAPS

-----------------------------------------------------------------------------
(* The inductive invariant.                                                *)

\* The server's rows and what the phone keeps, but for what is being sent.
Rows ==
  /\ phase \in [Trips -> {"none", "assigned", "moving", "over"}]
  /\ stored \in [Points -> Nat]
  /\ local \in [Trips -> {"none", "assigned", "moving", "over"}]
  /\ outbox \in [Trips -> {"none", "start", "deliver"}]
  /\ point \in [Points -> Trips \cup {None}]
  /\ unsent \subseteq {p \in Points : point[p] # None}
  /\ service \in Trips \cup {None} /\ active \in Trips \cup {None}
  /\ work \subseteq Workers

\* A closed panel forgets the position it showed.
Panels ==
  /\ view \in [Viewers -> [state: {"closed", "waiting", "open"}, last: Points \cup {0}]]
  /\ \A v \in Viewers : view[v].state = "closed" => view[v].last = 0

Sampled == {p \in Points : point[p] # None}

\* A worker holds sampled points only, has something to do as long as it runs,
\* waits only while it runs, and was told "ok" only about points that are stored.
WorkersAreSound ==
  \A w \in Workers :
    /\ flush[w].todo \subseteq Sampled /\ flush[w].batch \subseteq Sampled
    /\ flush[w].on => flush[w].todo # {}
    /\ flush[w].batch # {} => flush[w].on
    /\ flush[w].answer # "none" => flush[w].batch # {}
    /\ flush[w].answer = "ok" => \A p \in flush[w].batch : stored[p] = 1

\* A request carries points, sampled ones; a worker that still listens has one
\* request, with the batch it waits for.
RequestsAreSound ==
  /\ \A q \in net : q.points # {} /\ q.points \subseteq Sampled
  /\ \A q \in net : q.from # None =>
       /\ q.points = flush[q.from].batch /\ flush[q.from].answer = "none"
       /\ \A other \in net : other.from = q.from => other = q

Traffic ==
  /\ flush \in [Workers -> Worker] /\ net \subseteq Post
  /\ WorkersAreSound /\ RequestsAreSound

LiveInv == Rows /\ Panels /\ Traffic /\ EveryPointOnce

-----------------------------------------------------------------------------
(* Points are numbers: the oldest of a set, and the points of a batch one  *)
(* after the other.                                                        *)

\* A set of naturals that has a member has a least one.
LEMMA LeastNatural ==
  ASSUME NEW S \in SUBSET Nat, S # {}
  PROVE  \E m \in S : \A n \in S : m <= n
<1> DEFINE Less == OpToRel(<, Nat)
<1>1. IsWellFoundedOn(Less, Nat)
  BY NatLessThanWellFounded
<1> HIDE DEF Less
<1>2. PICK m \in S : \A n \in S : <<n, m>> \notin Less
  BY <1>1, WFMin
<1>3. ASSUME NEW n \in S
      PROVE  m <= n
  <2>1. ~(n < m)
    BY <1>2 DEF Less, OpToRel
  <2> QED
    BY <2>1
<1> QED
  BY <1>3

LEMMA MinIsLeast ==
  ASSUME NEW S \in SUBSET Points, S # {}
  PROVE  Min(S) \in S /\ \A p \in S : Min(S) <= p
<1>1. S \in SUBSET Nat
  BY Bounds DEF Points
<1>2. \E m \in S : \A p \in S : m <= p
  BY <1>1, LeastNatural
<1> QED
  BY <1>2 DEF Min

\* The recursion of applyAll defines a function.
After(f, last, points, n) ==
  f = [p \in 0 .. n |-> IF p = 0 THEN last
                        ELSE IF p \in points THEN applyPoint(f[p - 1], p) ELSE f[p - 1]]

LEMMA AfterIsDefined ==
  ASSUME NEW last, NEW points
  PROVE  \A n \in Nat : \E f : After(f, last, points, n)
<1> DEFINE Bad == {n \in Nat : ~\E f : After(f, last, points, n)}
<1> SUFFICES ASSUME Bad # {}
             PROVE  FALSE
  OBVIOUS
<1>1. PICK n \in Bad : \A m \in Bad : n <= m
  <2> HIDE DEF Bad
  <2>1. Bad \in SUBSET Nat
    BY DEF Bad
  <2> QED
    BY <2>1, LeastNatural
<1>2. CASE n = 0
  <2>1. After([p \in 0 .. 0 |-> last], last, points, 0)
    BY DEF After
  <2> QED
    BY <1>2, <2>1
<1>3. CASE n # 0
  <2>1. n - 1 \in Nat /\ n - 1 \notin Bad
    BY <1>1, <1>3
  <2>2. PICK f : After(f, last, points, n - 1)
    BY <2>1
  <2> DEFINE top == IF n \in points THEN applyPoint(f[n - 1], n) ELSE f[n - 1]
             g == [p \in 0 .. n |-> IF p = n THEN top ELSE f[p]]
  <2>3. \A p \in 0 .. n :
          g[p] = IF p = 0 THEN last
                 ELSE IF p \in points THEN applyPoint(g[p - 1], p) ELSE g[p - 1]
    <3> SUFFICES ASSUME NEW p \in 0 .. n
                 PROVE  g[p] = IF p = 0 THEN last
                               ELSE IF p \in points THEN applyPoint(g[p - 1], p) ELSE g[p - 1]
      OBVIOUS
    <3>1. CASE p = n
      BY <1>3, <2>1, <3>1
    <3>2. CASE p # n
      <4>1. p \in 0 .. (n - 1)
        BY <3>2
      <4>2. f[p] = IF p = 0 THEN last
                   ELSE IF p \in points THEN applyPoint(f[p - 1], p) ELSE f[p - 1]
        BY <2>2, <4>1 DEF After
      <4>3. p # 0 => p - 1 \in 0 .. n /\ p - 1 # n
        BY <4>1
      <4> QED
        BY <3>2, <4>2, <4>3
    <3> QED
      BY <3>1, <3>2
  <2>4. After(g, last, points, n)
    BY <2>3 DEF After
  <2> QED
    BY <2>4
<1> QED
  BY <1>2, <1>3

\* A batch takes a panel to a point, and never back.
LEMMA AppliedNeverBack ==
  ASSUME NEW last \in Points \cup {0}, NEW points
  PROVE  applyAll(last, points) \in Points \cup {0} /\ applyAll(last, points) >= last
<1> DEFINE f == CHOOSE g : After(g, last, points, MaxPoints)
<1>1. MaxPoints \in Nat /\ Points = 1 .. MaxPoints /\ last \in Nat
  BY Bounds DEF Points
<1>2. After(f, last, points, MaxPoints)
  BY <1>1, AfterIsDefined
<1>3. applyAll(last, points) = f[MaxPoints]
  BY DEF applyAll, After
<1> HIDE DEF f
<1> DEFINE Bad == {n \in 0 .. MaxPoints : ~(f[n] \in Points \cup {0} /\ f[n] >= last)}
<1>4. Bad = {}
  <2> SUFFICES ASSUME Bad # {}
               PROVE  FALSE
    OBVIOUS
  <2>1. PICK n \in Bad : \A m \in Bad : n <= m
    <3> HIDE DEF Bad
    <3>1. Bad \in SUBSET Nat
      BY <1>1 DEF Bad
    <3> QED
      BY <3>1, LeastNatural
  <2>2. f[n] = IF n = 0 THEN last
               ELSE IF n \in points THEN applyPoint(f[n - 1], n) ELSE f[n - 1]
    BY <1>2 DEF After
  <2>3. n # 0
    BY <1>1, <2>2
  <2>4. n - 1 \in 0 .. MaxPoints /\ n - 1 \notin Bad
    BY <1>1, <2>1, <2>3
  <2>5. f[n - 1] \in Points \cup {0} /\ f[n - 1] >= last
    BY <2>4
  <2> QED
    BY <1>1, <2>2, <2>3, <2>5 DEF applyPoint
<1> QED
  BY <1>1, <1>3, <1>4

-----------------------------------------------------------------------------
(* What steps do to the parts of the invariant.                            *)

LEMMA Basics ==
  /\ None \notin Trips /\ None \notin Workers
  /\ IdleWorker \in Worker
  /\ IdleWorker.todo = {} /\ IdleWorker.batch = {} /\ IdleWorker.on = FALSE
  /\ IdleWorker.answer = "none"
BY Bounds DEF IdleWorker, Worker

LEMMA PointsAreNumbers == \A p \in Points : p \in Nat
BY Bounds DEF Points

LEMMA InvariantTypes == LiveInv => TypeOK
<1> SUFFICES ASSUME LiveInv
             PROVE  TypeOK
  OBVIOUS
<1>1. \A w \in Workers :
        /\ flush[w].answer # "none" => flush[w].batch # {}
        /\ \A q \in net : q.from = w => q.points = flush[w].batch /\ flush[w].answer = "none"
  BY Basics DEF LiveInv, Traffic, RequestsAreSound, WorkersAreSound
<1> QED
  BY <1>1 DEF LiveInv, Rows, Panels, Traffic, TypeOK

LEMMA StepCases ==
  ASSUME [Next]_vars
  PROVE  \/ \E t \in Trips : Assign(t) \/ StartTrip(t) \/ DeliverTrip(t) \/ SyncStatus(t)
         \/ \E refreshed \in BOOLEAN : OpenTrips(refreshed)
         \/ Die \/ Boot
         \/ \E p \in Points : Sample(p)
         \/ \E w \in Workers : FlushRead(w) \/ FlushPost(w) \/ FlushAccepted(w)
                               \/ FlushRefused(w) \/ FlushFails(w)
         \/ \E q \in net : LoseRequest(q) \/ Ingest(q) \/ RefuseIngest(q)
         \/ \E v \in Viewers : OpenPanel(v) \/ OpenStream(v) \/ StreamDrops(v) \/ LeavePanel(v)
         \/ UNCHANGED vars
BY DEF Next, Driver, Background, Watching

\* Nothing sent, nothing stored, no point sampled.
LEMMA TrafficKept ==
  ASSUME Traffic, UNCHANGED <<flush, net, point, stored>>
  PROVE  Traffic'
BY DEF Traffic, WorkersAreSound, RequestsAreSound, Sampled

\* All workers stop: their requests go on without them.
LEMMA TrafficStops ==
  ASSUME Traffic, UNCHANGED <<point, stored>>,
         flush' = [w \in Workers |-> IdleWorker], net' = Abandoned
  PROVE  Traffic'
<1>1. \A w \in Workers : flush'[w] = IdleWorker
  OBVIOUS
<1>2. \A q \in net : /\ [q EXCEPT !.from = None] \in Post
                     /\ [q EXCEPT !.from = None].from = None
                     /\ [q EXCEPT !.from = None].points = q.points
  BY DEF Traffic, Post
<1>3. \A q \in net' : \E old \in net : q \in Post /\ q.from = None /\ q.points = old.points
  BY <1>2 DEF Abandoned
<1>4. flush' \in [Workers -> Worker]
  BY Basics
<1>5. WorkersAreSound'
  BY <1>1, Basics DEF WorkersAreSound
<1>6. RequestsAreSound'
  BY <1>3 DEF Traffic, RequestsAreSound, Sampled
<1> QED
  BY <1>3, <1>4, <1>5, <1>6 DEF Traffic

LEMMA PointsKept ==
  ASSUME EveryPointOnce, UNCHANGED <<point, unsent, stored>>
  PROVE  EveryPointOnce'
BY DEF EveryPointOnce

LEMMA PanelsKept ==
  ASSUME Panels, UNCHANGED view
  PROVE  Panels'
BY DEF Panels

-----------------------------------------------------------------------------
(* The phone's tracking window.                                            *)

LEMMA AssignKeeps ==
  ASSUME LiveInv, NEW t \in Trips, Assign(t)
  PROVE  LiveInv'
<1>1. Rows'
  BY DEF LiveInv, Rows, Assign, phone
<1>2. Traffic'
  BY TrafficKept DEF LiveInv, Assign, phone
<1> QED
  BY <1>1, <1>2, PointsKept, PanelsKept DEF LiveInv, Assign, phone

LEMMA StartTripKeeps ==
  ASSUME LiveInv, NEW t \in Trips, StartTrip(t)
  PROVE  LiveInv'
<1>1. Rows'
  BY DEF LiveInv, Rows, StartTrip, start, server, Workers
<1>2. Traffic'
  BY TrafficKept DEF LiveInv, StartTrip, server
<1> QED
  BY <1>1, <1>2, PointsKept, PanelsKept DEF LiveInv, StartTrip, server

LEMMA DeliverTripKeeps ==
  ASSUME LiveInv, NEW t \in Trips, DeliverTrip(t)
  PROVE  LiveInv'
<1>1. Rows'
  BY DEF LiveInv, Rows, DeliverTrip, server
<1>2. Traffic'
  BY TrafficKept DEF LiveInv, DeliverTrip, server
<1> QED
  BY <1>1, <1>2, PointsKept, PanelsKept DEF LiveInv, DeliverTrip, server

LEMMA SyncStatusKeeps ==
  ASSUME LiveInv, NEW t \in Trips, SyncStatus(t)
  PROVE  LiveInv'
<1>1. Rows'
  BY DEF LiveInv, Rows, SyncStatus
<1>2. Traffic'
  BY TrafficKept DEF LiveInv, SyncStatus
<1> QED
  BY <1>1, <1>2, PointsKept, PanelsKept DEF LiveInv, SyncStatus

LEMMA OpenTripsKeeps ==
  ASSUME LiveInv, NEW refreshed \in BOOLEAN, OpenTrips(refreshed)
  PROVE  LiveInv'
<1>1. Rows'
  <2>1. local' \in [Trips -> {"none", "assigned", "moving", "over"}]
    BY DEF LiveInv, Rows, OpenTrips
  <2>2. /\ service' \in Trips \cup {None} /\ active' \in Trips \cup {None}
        /\ work' \subseteq Workers
    BY DEF LiveInv, Rows, OpenTrips, activeTrips, start, Workers
  <2> QED
    BY <2>1, <2>2 DEF LiveInv, Rows, OpenTrips, server
<1>2. Traffic'
  BY TrafficStops DEF LiveInv, OpenTrips, server
<1> QED
  BY <1>1, <1>2, PointsKept, PanelsKept DEF LiveInv, OpenTrips, server

LEMMA DieKeeps ==
  ASSUME LiveInv, Die
  PROVE  LiveInv'
<1>1. Rows'
  BY DEF LiveInv, Rows, Die, server
<1>2. Traffic'
  BY TrafficStops DEF LiveInv, Die, server
<1> QED
  BY <1>1, <1>2, PointsKept, PanelsKept DEF LiveInv, Die, server

LEMMA BootKeeps ==
  ASSUME LiveInv, Boot
  PROVE  LiveInv'
<1>1. Rows'
  BY DEF LiveInv, Rows, Boot, server, enqueueFlush, Workers
<1>2. Traffic'
  BY TrafficStops DEF LiveInv, Boot, server
<1> QED
  BY <1>1, <1>2, PointsKept, PanelsKept DEF LiveInv, Boot, server

-----------------------------------------------------------------------------
(* Sampling and flushing.                                                  *)

LEMMA SampleKeeps ==
  ASSUME LiveInv, NEW p \in Points, Sample(p)
  PROVE  LiveInv'
<1>1. Rows'
  BY Basics DEF LiveInv, Rows, Sample, server, enqueueFlush, Workers
<1>2. Sampled \subseteq Sampled'
  BY Basics DEF LiveInv, Rows, Sample, Sampled
<1>3. Traffic'
  BY <1>2 DEF LiveInv, Traffic, WorkersAreSound, RequestsAreSound, Sample, server
<1>4. EveryPointOnce'
  BY Basics, PointsAreNumbers DEF LiveInv, Rows, EveryPointOnce, Sample, server
<1> QED
  BY <1>1, <1>3, <1>4, PanelsKept DEF LiveInv, Sample

\* A worker's own steps: the other worker, and what is on its way for it, stay.
LEMMA FlushReadKeeps ==
  ASSUME LiveInv, NEW w \in Workers, FlushRead(w)
  PROVE  LiveInv'
<1>1. Rows'
  BY DEF LiveInv, Rows, FlushRead, server
<1>2. CASE unsent = {}
  <2>1. Traffic'
    BY <1>2, TrafficKept DEF LiveInv, FlushRead, server
  <2> QED
    BY <1>1, <2>1, PointsKept, PanelsKept DEF LiveInv, FlushRead, server
<1>3. CASE unsent # {}
  <2> PICK new : new = [IdleWorker EXCEPT !.on = TRUE, !.todo = unsent]
    OBVIOUS
  <2>1. /\ new \in Worker
        /\ new.on /\ new.todo = unsent /\ new.batch = {} /\ new.answer = "none"
    BY DEF LiveInv, Rows, IdleWorker, Worker
  <2>2. flush' = [flush EXCEPT ![w] = new] /\ UNCHANGED <<net, point, stored>>
    BY <1>3 DEF FlushRead, server
  <2>3. flush' \in [Workers -> Worker] /\ net' \subseteq Post
    BY <2>1, <2>2 DEF LiveInv, Traffic
  <2>4. WorkersAreSound'
    <3>1. unsent \subseteq Sampled
      BY DEF LiveInv, Rows, Sampled
    <3> QED
      BY <1>3, <2>1, <2>2, <3>1 DEF LiveInv, Traffic, WorkersAreSound, Sampled
  <2>5. RequestsAreSound'
    <3>1. \A q \in net : q.from # w
      BY Basics DEF LiveInv, Traffic, RequestsAreSound, WorkersAreSound, FlushRead
    <3> QED
      BY <2>2, <3>1, Basics DEF LiveInv, Traffic, RequestsAreSound, Sampled, Post
  <2> QED
    BY <1>1, <2>3, <2>4, <2>5, PointsKept, PanelsKept DEF LiveInv, Traffic, FlushRead, server
<1> QED
  BY <1>2, <1>3

\* The next batch: points of one trip, at least the oldest of what is left.
LEMMA NextBatchIsSound ==
  ASSUME Rows, NEW todo, todo \subseteq Sampled, todo # {}
  PROVE  /\ NextBatch(todo) # {} /\ NextBatch(todo) \subseteq todo
         /\ point[Min(NextBatch(todo))] \in Trips
<1> PICK oldest : oldest = Min(todo)
  OBVIOUS
<1> DEFINE group == {p \in todo : point[p] = point[oldest]}
           batch == NextBatch(todo)
<1>1. todo \in SUBSET Points /\ todo \in SUBSET Nat
  BY PointsAreNumbers DEF Sampled
<1>2. oldest \in todo /\ \A p \in todo : oldest <= p
  BY <1>1, MinIsLeast
<1>3. batch = {p \in group : Cardinality({q \in group : q <= p}) <= MAX_BATCH_SIZE}
  BY DEF NextBatch
<1>4. {q \in group : q <= oldest} = {oldest}
  <2>1. \A q \in todo : q \in Nat /\ (q <= oldest => q = oldest)
    BY <1>1, <1>2
  <2>2. oldest \in group /\ oldest <= oldest
    BY <1>1, <1>2
  <2> QED
    BY <2>1, <2>2
<1>5. Cardinality({oldest}) <= MAX_BATCH_SIZE
  <2>1. Cardinality({oldest}) = 1
    BY FS_Singleton
  <2> QED
    BY <2>1, Bounds
<1>6. oldest \in batch /\ batch \subseteq todo
  BY <1>2, <1>3, <1>4, <1>5
<1> HIDE DEF batch
<1>7. Min(batch) \in batch
  BY <1>1, <1>6, MinIsLeast
<1>8. point[Min(batch)] \in Trips
  BY <1>6, <1>7, Basics DEF Rows, Sampled
<1> QED
  BY <1>6, <1>8 DEF batch

LEMMA FlushPostKeeps ==
  ASSUME LiveInv, NEW w \in Workers, FlushPost(w)
  PROVE  LiveInv'
<1> PICK batch : batch = NextBatch(flush[w].todo)
  OBVIOUS
<1> PICK new : new = [flush[w] EXCEPT !.batch = batch]
  OBVIOUS
<1> PICK request : request = [from |-> w, trip |-> point[Min(batch)], points |-> batch]
  OBVIOUS
<1>1. /\ batch # {} /\ batch \subseteq flush[w].todo /\ point[Min(batch)] \in Trips
      /\ batch \subseteq Sampled
  <2>1. flush[w].todo # {} /\ flush[w].todo \subseteq Sampled
    BY DEF LiveInv, Traffic, WorkersAreSound, FlushPost
  <2> QED
    BY <2>1, NextBatchIsSound DEF LiveInv
<1>2. /\ flush[w].on /\ flush[w].batch = {} /\ flush[w].answer = "none"
      /\ flush' = [flush EXCEPT ![w] = new]
      /\ net' = net \cup {request} /\ UNCHANGED <<point, stored>>
  BY DEF LiveInv, Traffic, WorkersAreSound, FlushPost, server
<1>3. /\ new \in Worker /\ new.on /\ new.todo = flush[w].todo
      /\ new.batch = batch /\ new.answer = "none"
  <2>1. flush[w] \in Worker /\ batch \in SUBSET Points
    BY <1>1 DEF LiveInv, Traffic, Sampled
  <2> QED
    BY <1>2, <2>1 DEF Worker
<1>4. request \in Post /\ request.from = w /\ request.points = batch
  BY <1>1 DEF Post, Sampled
<1>5. flush' \in [Workers -> Worker] /\ net' \subseteq Post
  BY <1>2, <1>3, <1>4 DEF LiveInv, Traffic
<1>6. WorkersAreSound'
  BY <1>1, <1>2, <1>3 DEF LiveInv, Traffic, WorkersAreSound, Sampled
<1>7. RequestsAreSound'
  <2>1. \A q \in net : q.from # w
    BY <1>2, Basics DEF LiveInv, Traffic, RequestsAreSound
  <2>2. \A q \in net' : q.points # {} /\ q.points \subseteq Sampled'
    BY <1>1, <1>2, <1>4 DEF LiveInv, Traffic, RequestsAreSound, Sampled
  <2>3. \A q \in net : q.from # None =>
          /\ q.points = flush'[q.from].batch /\ flush'[q.from].answer = "none"
          /\ \A other \in net' : other.from = q.from => other = q
    <3>1. \A q \in net : q.from # None => q.from \in Workers /\ flush'[q.from] = flush[q.from]
      BY <1>2, <2>1 DEF LiveInv, Traffic, Post
    <3> QED
      BY <1>2, <1>4, <2>1, <3>1 DEF LiveInv, Traffic, RequestsAreSound
  <2>4. /\ request.points = flush'[request.from].batch /\ flush'[request.from].answer = "none"
        /\ \A other \in net' : other.from = request.from => other = request
    <3>1. flush'[w] = new
      BY <1>2 DEF LiveInv, Traffic
    <3> QED
      BY <1>2, <1>3, <1>4, <2>1, <3>1
  <2> QED
    BY <1>2, <2>2, <2>3, <2>4 DEF RequestsAreSound
<1>8. Rows'
  BY DEF LiveInv, Rows, FlushPost, server
<1> QED
  BY <1>5, <1>6, <1>7, <1>8, PointsKept, PanelsKept DEF LiveInv, Traffic, FlushPost, server

\* A worker that gets an answer or gives up leaves the other worker's request alone.
LEMMA WorkerGoesOn ==
  ASSUME Traffic, NEW w \in Workers, NEW new \in Worker,
         flush' = [flush EXCEPT ![w] = new], UNCHANGED <<point, stored>>,
         new.batch = {}, new.answer = "none", new.todo \subseteq Sampled,
         new.on => new.todo # {},
         net' \subseteq Post,
         \A q \in net' : q.from # w /\ q.points # {} /\ q.points \subseteq Sampled,
         \A q \in net' : q.from # None => q \in net
  PROVE  Traffic'
<1>1. flush' \in [Workers -> Worker]
  BY DEF Traffic
<1>2. WorkersAreSound'
  BY DEF Traffic, WorkersAreSound, Sampled
<1>3. RequestsAreSound'
  <2>1. \A q \in net' : q.from # None => q.from \in Workers /\ flush'[q.from] = flush[q.from]
    BY DEF Traffic, Post
  <2> QED
    BY <2>1 DEF Traffic, RequestsAreSound, Sampled
<1> QED
  BY <1>1, <1>2, <1>3 DEF Traffic

LEMMA FlushAcceptedKeeps ==
  ASSUME LiveInv, NEW w \in Workers, FlushAccepted(w)
  PROVE  LiveInv'
<1> PICK todo : todo = flush[w].todo \ flush[w].batch
  OBVIOUS
<1> PICK new : new = IF todo = {} THEN IdleWorker
                     ELSE [IdleWorker EXCEPT !.on = TRUE, !.todo = todo]
  OBVIOUS
<1>1. /\ flush' = [flush EXCEPT ![w] = new] /\ UNCHANGED <<net, point, stored>>
      /\ flush[w].answer = "ok" /\ unsent' = unsent \ flush[w].batch
  BY DEF FlushAccepted, MarkUploaded, server
<1>2. /\ new \in Worker /\ new.batch = {} /\ new.answer = "none"
      /\ new.todo \subseteq Sampled /\ (new.on => new.todo # {})
  <2>1. todo \subseteq Sampled /\ todo \in SUBSET Points
    BY DEF LiveInv, Traffic, WorkersAreSound, Sampled
  <2> QED
    BY <2>1, Basics DEF IdleWorker, Worker
<1>3. \A q \in net : q.from # w
  BY <1>1, Basics DEF LiveInv, Traffic, RequestsAreSound
<1>4. Traffic'
  <2>1. /\ net' \subseteq Post
        /\ \A q \in net' : q.from # w /\ q.points # {} /\ q.points \subseteq Sampled
        /\ \A q \in net' : q.from # None => q \in net
    BY <1>1, <1>3 DEF LiveInv, Traffic, RequestsAreSound
  <2> QED
    BY <1>1, <1>2, <2>1, WorkerGoesOn DEF LiveInv
<1>5. Rows'
  BY DEF LiveInv, Rows, FlushAccepted, MarkUploaded, server
<1>6. EveryPointOnce'
  BY <1>1 DEF LiveInv, Traffic, WorkersAreSound, EveryPointOnce
<1> QED
  BY <1>4, <1>5, <1>6, PanelsKept DEF LiveInv, FlushAccepted

LEMMA FlushRefusedKeeps ==
  ASSUME LiveInv, NEW w \in Workers, FlushRefused(w)
  PROVE  LiveInv'
<1>1. Rows'
  BY DEF LiveInv, Rows, FlushRefused, stop, server
<1>2. Traffic'
  BY TrafficStops DEF LiveInv, FlushRefused, stop, server
<1> QED
  BY <1>1, <1>2, PointsKept, PanelsKept DEF LiveInv, FlushRefused, server

LEMMA FlushFailsKeeps ==
  ASSUME LiveInv, NEW w \in Workers, FlushFails(w)
  PROVE  LiveInv'
<1>1. flush' = [flush EXCEPT ![w] = IdleWorker] /\ UNCHANGED <<point, stored>>
  BY DEF FlushFails, server
<1>2. \A q \in net : /\ [q EXCEPT !.from = None] \in Post
                     /\ [q EXCEPT !.from = None].from = None
                     /\ [q EXCEPT !.from = None].points = q.points
  BY DEF LiveInv, Traffic, Post
<1>3. \A q \in net' : \E old \in net :
        /\ q \in Post /\ q.points = old.points /\ q.from # w
        /\ q.from # None => q = old
  <2> SUFFICES ASSUME NEW q \in net'
               PROVE  \E old \in net : /\ q \in Post /\ q.points = old.points /\ q.from # w
                                       /\ q.from # None => q = old
    OBVIOUS
  <2>1. PICK old \in net : q = IF old.from = w THEN [old EXCEPT !.from = None] ELSE old
    BY DEF FlushFails
  <2> QED
    BY <1>2, <2>1, Basics DEF LiveInv, Traffic
<1>4. Traffic'
  <2>1. \A q \in net' : q.from # w /\ q.points # {} /\ q.points \subseteq Sampled
    BY <1>3 DEF LiveInv, Traffic, RequestsAreSound
  <2>2. net' \subseteq Post /\ \A q \in net' : q.from # None => q \in net
    BY <1>3
  <2> QED
    BY <1>1, <2>1, <2>2, Basics, WorkerGoesOn DEF LiveInv
<1>5. Rows'
  BY DEF LiveInv, Rows, FlushFails, server
<1> QED
  BY <1>4, <1>5, PointsKept, PanelsKept DEF LiveInv, FlushFails, server

-----------------------------------------------------------------------------
(* The requests and the streams.                                           *)

LEMMA LoseRequestKeeps ==
  ASSUME LiveInv, NEW q \in net, LoseRequest(q)
  PROVE  LiveInv'
<1>1. Traffic'
  BY DEF LiveInv, Traffic, WorkersAreSound, RequestsAreSound, Sampled, LoseRequest, server
<1>2. Rows'
  BY DEF LiveInv, Rows, LoseRequest, server
<1> QED
  BY <1>1, <1>2, PointsKept, PanelsKept DEF LiveInv, LoseRequest, server

\* An answer reaches the worker that waits for it, and no other request is its.
LEMMA AnswerIsHeard ==
  ASSUME Traffic, NEW q \in net, NEW a \in {"ok", "off"}, answer(q, a),
         net' = net \ {q}, point' = point,
         \A p \in Points : stored[p] = 1 => stored'[p] = 1,
         a = "ok" => \A p \in q.points : stored'[p] = 1
  PROVE  Traffic'
<1>1. \A p \in Sampled : p \in Points
  BY DEF Sampled
<1>2. CASE q.from = None
  <2>1. flush' = flush
    BY <1>2 DEF answer
  <2> QED
    BY <1>1, <2>1 DEF Traffic, WorkersAreSound, RequestsAreSound, Sampled
<1>3. CASE q.from # None
  <2>1. q.from \in Workers
    BY <1>3 DEF Traffic, Post
  <2> PICK new : new = [flush[q.from] EXCEPT !.answer = a]
    OBVIOUS
  <2>2. flush' = [flush EXCEPT ![q.from] = new]
    BY <1>3 DEF answer
  <2>3. /\ new \in Worker /\ new.on = flush[q.from].on /\ new.todo = flush[q.from].todo
        /\ new.batch = flush[q.from].batch /\ new.answer = a
    BY <2>1 DEF Traffic, Worker
  <2>4. q.points = flush[q.from].batch /\ q.points # {}
    BY <1>3 DEF Traffic, RequestsAreSound
  <2>5. flush' \in [Workers -> Worker] /\ net' \subseteq Post
    BY <2>2, <2>3 DEF Traffic
  <2>6. WorkersAreSound'
    <3> SUFFICES ASSUME NEW w \in Workers
                 PROVE  /\ flush'[w].todo \subseteq Sampled' /\ flush'[w].batch \subseteq Sampled'
                        /\ flush'[w].on => flush'[w].todo # {}
                        /\ flush'[w].batch # {} => flush'[w].on
                        /\ flush'[w].answer # "none" => flush'[w].batch # {}
                        /\ flush'[w].answer = "ok" => \A p \in flush'[w].batch : stored'[p] = 1
      BY DEF WorkersAreSound
    <3>1. Sampled' = Sampled
      BY DEF Sampled
    <3>2. CASE w = q.from
      <4>1. flush'[w] = new
        BY <2>1, <2>2, <3>2 DEF Traffic
      <4> QED
        BY <2>1, <2>3, <2>4, <3>1, <3>2, <4>1 DEF Traffic, WorkersAreSound
    <3>3. CASE w # q.from
      <4>1. flush'[w] = flush[w]
        BY <2>2, <3>3 DEF Traffic
      <4> QED
        BY <1>1, <3>1, <4>1 DEF Traffic, WorkersAreSound
    <3> QED
      BY <3>2, <3>3
  <2>7. RequestsAreSound'
    <3>1. \A other \in net' : other.from # q.from
      BY <1>3 DEF Traffic, RequestsAreSound
    <3>2. \A other \in net' : other.from # None =>
            other.from \in Workers /\ flush'[other.from] = flush[other.from]
      BY <2>2, <3>1 DEF Traffic, Post
    <3> QED
      BY <3>2 DEF Traffic, RequestsAreSound, Sampled
  <2> QED
    BY <2>5, <2>6, <2>7 DEF Traffic
<1> QED
  BY <1>2, <1>3

LEMMA IngestKeeps ==
  ASSUME LiveInv, NEW q \in net, Ingest(q)
  PROVE  LiveInv'
<1>1. q.points \in SUBSET Points /\ q.points \subseteq Sampled
  BY DEF LiveInv, Traffic, RequestsAreSound, Post
<1>2. /\ stored' \in [Points -> Nat]
      /\ \A p \in Points : stored'[p] = IF p \in q.points /\ stored[p] = 0 THEN 1 ELSE stored[p]
  BY DEF LiveInv, Rows, Ingest, Inserted
<1>3. \A p \in Points : stored[p] = 0 \/ stored[p] = 1
  BY DEF LiveInv, Rows, EveryPointOnce
<1>4. Traffic'
  <2>1. \A p \in q.points : stored'[p] = 1
    BY <1>1, <1>2, <1>3
  <2>2. \A p \in Points : stored[p] = 1 => stored'[p] = 1
    BY <1>2
  <2> QED
    BY <2>1, <2>2, AnswerIsHeard DEF LiveInv, Ingest
<1>5. EveryPointOnce'
  BY <1>1, <1>2, <1>3 DEF LiveInv, EveryPointOnce, Ingest, Sampled
<1>6. Rows'
  BY <1>2 DEF LiveInv, Rows, Ingest
<1>7. Panels'
  <2>1. \A v \in Viewers : view[v].last \in Points \cup {0}
    BY DEF LiveInv, Panels
  <2>2. \A v \in Viewers : applyAll(view[v].last, q.points) \in Points \cup {0}
    BY <2>1, AppliedNeverBack
  <2>3. \A v \in Viewers :
          /\ [view[v] EXCEPT !.last = applyAll(@, q.points)]
               \in [state: {"closed", "waiting", "open"}, last: Points \cup {0}]
          /\ [view[v] EXCEPT !.last = applyAll(@, q.points)].state = view[v].state
    BY <2>2 DEF LiveInv, Panels
  <2> QED
    BY <2>3 DEF LiveInv, Panels, Ingest, publish
<1> QED
  BY <1>4, <1>5, <1>6, <1>7 DEF LiveInv

LEMMA RefuseIngestKeeps ==
  ASSUME LiveInv, NEW q \in net, RefuseIngest(q)
  PROVE  LiveInv'
<1>1. Traffic'
  BY AnswerIsHeard DEF LiveInv, RefuseIngest, server
<1>2. Rows'
  BY DEF LiveInv, Rows, RefuseIngest, server
<1> QED
  BY <1>1, <1>2, PointsKept, PanelsKept DEF LiveInv, RefuseIngest, server

LEMMA WatchingKeeps ==
  ASSUME LiveInv, NEW v \in Viewers,
         OpenPanel(v) \/ OpenStream(v) \/ StreamDrops(v) \/ LeavePanel(v)
  PROVE  LiveInv'
<1>1. PICK panel \in [state: {"closed", "waiting", "open"}, last: Points \cup {0}] :
        SetView(v, panel) /\ (panel.state = "closed" => panel.last = 0)
  BY DEF LiveInv, Panels, OpenPanel, OpenStream, StreamDrops, LeavePanel, Closed
<1>2. Panels'
  BY <1>1 DEF LiveInv, Panels, SetView
<1>3. UNCHANGED <<server, phone>>
  BY <1>1 DEF SetView
<1>4. Rows'
  BY <1>3 DEF LiveInv, Rows, server, phone
<1>5. Traffic'
  BY <1>3, TrafficKept DEF LiveInv, server, phone
<1> QED
  BY <1>2, <1>3, <1>4, <1>5, PointsKept DEF LiveInv, server, phone

-----------------------------------------------------------------------------
(* The theorems.                                                           *)

LEMMA InvariantInit == Init => LiveInv
<1> SUFFICES ASSUME Init
             PROVE  LiveInv
  OBVIOUS
<1>1. Rows
  BY DEF Init, Rows
<1>2. Panels
  BY DEF Init, Panels, Closed
<1>3. Traffic
  BY Basics DEF Init, Traffic, WorkersAreSound, RequestsAreSound
<1>4. EveryPointOnce
  BY DEF Init, EveryPointOnce
<1> QED
  BY <1>1, <1>2, <1>3, <1>4 DEF LiveInv

LEMMA InvariantStep == LiveInv /\ [Next]_vars => LiveInv'
<1> SUFFICES ASSUME LiveInv, [Next]_vars
             PROVE  LiveInv'
  OBVIOUS
<1>1. CASE UNCHANGED vars
  BY <1>1, TrafficKept, PointsKept, PanelsKept DEF LiveInv, Rows, vars, server, phone
<1>2. ASSUME NEW t \in Trips, Assign(t) \/ StartTrip(t) \/ DeliverTrip(t) \/ SyncStatus(t)
      PROVE  LiveInv'
  BY <1>2, AssignKeeps, StartTripKeeps, DeliverTripKeeps, SyncStatusKeeps
<1>3. ASSUME NEW w \in Workers, FlushRead(w) \/ FlushPost(w) \/ FlushAccepted(w)
                                \/ FlushRefused(w) \/ FlushFails(w)
      PROVE  LiveInv'
  BY <1>3, FlushReadKeeps, FlushPostKeeps, FlushAcceptedKeeps, FlushRefusedKeeps, FlushFailsKeeps
<1>4. ASSUME NEW q \in net, LoseRequest(q) \/ Ingest(q) \/ RefuseIngest(q)
      PROVE  LiveInv'
  BY <1>4, LoseRequestKeeps, IngestKeeps, RefuseIngestKeeps
<1> QED
  BY <1>1, <1>2, <1>3, <1>4, StepCases, OpenTripsKeeps, DieKeeps, BootKeeps, SampleKeeps,
     WatchingKeeps

LEMMA InvariantHolds == Spec => []LiveInv
BY InvariantInit, InvariantStep, PTL DEF Spec

\* Trips, points, workers, requests on their way and panels stay well-formed.
THEOREM LiveTypeCorrect == Spec => []TypeOK
BY InvariantHolds, InvariantTypes, PTL

\* "No point is ever dropped" and none counts twice: what the phone no longer
\* keeps is stored, however the two workers overlap, whatever answers are lost and
\* however late a cancelled worker's request arrives.
THEOREM PointsCountOnce == Spec => []EveryPointOnce
<1>1. LiveInv => EveryPointOnce
  BY DEF LiveInv
<1> QED
  BY <1>1, InvariantHolds, PTL

\* A step that publishes, opens or closes a stream never takes an open panel back.
LEMMA StepMovesOn ==
  ASSUME LiveInv, [Next]_vars, NEW v \in Viewers, view'[v].state # "closed"
  PROVE  view'[v].last >= view[v].last
<1>1. view[v].last \in Points \cup {0} /\ view[v].last >= view[v].last
  <2>1. view[v].last \in Points \cup {0}
    BY DEF LiveInv, Panels
  <2>2. view[v].last \in Nat
    BY <2>1, PointsAreNumbers
  <2> QED
    BY <2>1, <2>2
<1>2. CASE view' = view
  BY <1>1, <1>2
<1>3. ASSUME NEW q \in net, Ingest(q)
      PROVE  view'[v].last >= view[v].last
  <2>1. view'[v] = IF view[v].state = "open" /\ Follows[v] = q.trip
                   THEN [view[v] EXCEPT !.last = applyAll(@, q.points)] ELSE view[v]
    BY <1>3 DEF Ingest, publish
  <2>2. applyAll(view[v].last, q.points) >= view[v].last
    BY <1>1, AppliedNeverBack
  <2>3. [view[v] EXCEPT !.last = applyAll(@, q.points)].last = applyAll(view[v].last, q.points)
    BY DEF LiveInv, Panels
  <2> QED
    BY <1>1, <2>1, <2>2, <2>3
<1>4. ASSUME NEW u \in Viewers,
             OpenPanel(u) \/ OpenStream(u) \/ StreamDrops(u) \/ LeavePanel(u)
      PROVE  view'[v].last >= view[v].last
  <2>1. CASE u # v
    BY <1>1, <1>4, <2>1 DEF OpenPanel, OpenStream, StreamDrops, LeavePanel, SetView, LiveInv, Panels
  <2>2. CASE u = v /\ OpenPanel(u)
    BY <2>2 DEF OpenPanel, SetView, LiveInv, Panels
  <2>3. CASE u = v /\ LeavePanel(u)
    BY <2>3 DEF LeavePanel, SetView, Closed, LiveInv, Panels
  <2>4. CASE u = v /\ (OpenStream(u) \/ StreamDrops(u))
    BY <1>1, <2>4 DEF OpenStream, StreamDrops, SetView, Closed, LiveInv, Panels
  <2> QED
    BY <1>4, <2>1, <2>2, <2>3, <2>4
<1> QED
  BY <1>2, <1>3, <1>4, StepCases
     DEF Assign, StartTrip, DeliverTrip, SyncStatus, OpenTrips, Die, Boot, Sample, FlushRead,
         FlushPost, FlushAccepted, FlushRefused, FlushFails, LoseRequest, RefuseIngest, vars

\* "The map never jumps backwards": while a panel shows one trip its position only
\* gets newer, in whatever order batches are stored, replayed and published.
THEOREM MapOnlyMovesOn == Spec => MapNeverJumpsBack
<1>1. LiveInv /\ [Next]_vars =>
        [\A v \in Viewers : view'[v].state # "closed" => view'[v].last >= view[v].last]_vars
  BY StepMovesOn
<1> QED
  BY <1>1, InvariantHolds, PTL DEF Spec, MapNeverJumpsBack

=============================================================================
