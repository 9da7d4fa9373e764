------------------------- MODULE DriverQueueProofs -------------------------
(* Theorems about the programs a person holds: DriverQueue (any number of   *)
(* changes, passes, dispatcher's moves and troubles, any of the three      *)
(* clients, any first status), DriverSurfaces, and WebApps (any number of  *)
(* people, items and requests in flight, any roles).                       *)
EXTENDS DriverQueue, DriverSurfaces, WebApps, TLAPS

\* A change that is planned, sent or settled by a pass, or sent directly, has
\* been made.
LEMMA MadeAreIds == TypeOK => 1 .. Len(change) \subseteq Ids /\ Len(change) \in Nat
  BY QueueBounds DEF TypeOK, Ids

\* What each step is, in the order of Next.
LEMMA StepCases ==
  ASSUME [Next]_vars,
         NEW P,
         \A to \in TRIP_STATUSES : PressStatus(to) => P,
         \A to \in TRIP_STATUSES : DispatcherMove(to) => P,
         CapturePod => P, Refresh => P, Expire => P, SignIn => P, Crash => P,
         \A i \in Ids : Discard(i) => P,
         \A p \in Passes : BeginPass(p) => P,
         \A p \in Passes : LoadQueue(p) => P,
         \A p \in Passes : Fold(p) => P,
         \A p \in Passes, i \in Ids, heard \in Heard : Send(p, i, heard) => P,
         \A i \in Ids, heard \in Heard : AnswerDirect(i, heard) => P,
         UNCHANGED vars => P
  PROVE  P
  BY DEF Next

-----------------------------------------------------------------------------
(* The shape of the state.                                                 *)

LEMMA AppendKeepsType ==
  ASSUME TypeOK, NEW items \in Seq(Change), items # <<>>, Do(items)
  PROVE  /\ change' \in Seq(Change) /\ Len(change') <= MaxChanges
         /\ Len(change') >= Len(change)
         /\ \A i \in 1 .. Len(change) : change'[i] = change[i]
         /\ NewIds(Len(items)) = 1 .. Len(change \o items) \ 1 .. Len(change)
         /\ \/ /\ Len(change') = Len(change) + Len(items)
               /\ queue' = queue \cup (1 .. Len(change') \ 1 .. Len(change)) /\ direct' = direct
            \/ /\ Len(change') = Len(change) + 1 /\ engine = "app"
               /\ direct' = direct \cup (1 .. Len(change') \ 1 .. Len(change)) /\ queue' = queue
<1>1. change \in Seq(Change) /\ Len(change) \in Nat /\ Len(items) \in Nat \ {0} /\ items[1] \in Change
  BY DEF TypeOK
<1>2. NewIds(Len(items)) = 1 .. Len(change \o items) \ 1 .. Len(change)
  BY <1>1 DEF NewIds
<1>3. CASE Enqueue(items)
  <2>1. change' = change \o items /\ queue' = queue \cup NewIds(Len(items)) /\ direct' = direct
    BY <1>3 DEF Enqueue
  <2>2. /\ change' \in Seq(Change) /\ Len(change') = Len(change) + Len(items)
        /\ \A i \in 1 .. Len(change) : change'[i] = change[i]
    BY <1>1, <2>1
  <2>3. Len(change) + Len(items) <= MaxChanges
    BY DEF Do
  <2> QED BY <1>1, <1>2, <2>1, <2>2, <2>3
<1>4. CASE engine = "app" /\ SendNow(items[1])
  <2>1. change' = Append(change, items[1]) /\ direct' = direct \cup NewIds(1) /\ queue' = queue
    BY <1>4 DEF SendNow
  <2>2. /\ change' \in Seq(Change) /\ Len(change') = Len(change) + 1
        /\ \A i \in 1 .. Len(change) : change'[i] = change[i]
    BY <1>1, <2>1
  <2>3. Len(change) + Len(items) <= MaxChanges /\ MaxChanges \in Nat
    BY QueueBounds DEF Do
  <2>4. NewIds(1) = 1 .. Len(change') \ 1 .. Len(change)
    BY <1>1, <2>2 DEF NewIds
  <2> QED BY <1>1, <1>2, <1>4, <2>1, <2>2, <2>3, <2>4
<1> QED BY <1>3, <1>4 DEF Do

\* What the driver may add: one status, or a photo with or without one.
LEMMA ItemsAreChanges ==
  /\ \A to \in TRIP_STATUSES : <<[kind |-> "status", to |-> to]>> \in Seq(Change)
  /\ <<[kind |-> "document"]>> \in Seq(Change)
  /\ Append(<<[kind |-> "document"]>>, [kind |-> "status", to |-> "POD_UPLOADED"]) \in Seq(Change)
  /\ \A to \in TRIP_STATUSES : <<[kind |-> "status", to |-> to]>> # <<>>
  /\ <<[kind |-> "document"]>> # <<>>
  /\ Append(<<[kind |-> "document"]>>, [kind |-> "status", to |-> "POD_UPLOADED"]) # <<>>
<1>1. /\ [kind |-> "document"] \in Change
      /\ \A to \in TRIP_STATUSES : [kind |-> "status", to |-> to] \in Change
  BY DEF Change
<1>2. "POD_UPLOADED" \in TRIP_STATUSES
  BY DEF TRIP_STATUSES, Billing
<1> QED BY <1>1, <1>2

\* Both ways a driver makes a change add items to the queue or send them.
LEMMA MakingIsDoing ==
  ASSUME (\E to \in TRIP_STATUSES : PressStatus(to)) \/ CapturePod
  PROVE  \E items \in Seq(Change) : items # <<>> /\ Do(items)
<1>1. CASE \E to \in TRIP_STATUSES : PressStatus(to)
  BY <1>1, ItemsAreChanges DEF PressStatus
<1>2. CASE CapturePod
  BY <1>2, ItemsAreChanges DEF CapturePod
<1> QED BY <1>1, <1>2

LEMMA HandledKeepsType ==
  ASSUME TypeOK, NEW i \in 1 .. Len(change), NEW heard \in Heard, Handled(i, heard)
  PROVE  /\ status' \in TRIP_STATUSES /\ pod' \in BOOLEAN /\ fate' \in [Ids -> Fates]
<1>1. i \in Ids /\ change[i] \in Change
  BY MadeAreIds DEF TypeOK
<1>2. ASSUME CarryOut(i) PROVE status' \in TRIP_STATUSES /\ pod' \in BOOLEAN /\ fate' \in [Ids -> Fates]
  BY <1>1, <1>2 DEF CarryOut, TypeOK, Change, Fates
<1>3. ASSUME Refuse(i) PROVE status' \in TRIP_STATUSES /\ pod' \in BOOLEAN /\ fate' \in [Ids -> Fates]
  BY <1>1, <1>3 DEF Refuse, TypeOK, Fates, server
<1> QED BY <1>2, <1>3 DEF Handled, TypeOK, server

\* One pass changes: planned and settled changes have been made.
LEMMA PassKeepsType ==
  ASSUME TypeOK, NEW p \in Passes, NEW row \in Pass,
         row.todo \cup row.settled \subseteq 1 .. Len(change),
         pass' = [pass EXCEPT ![p] = row], change' = change
  PROVE  /\ pass' \in [Passes -> Pass]
         /\ \A q \in Passes : pass'[q].todo \cup pass'[q].settled \subseteq 1 .. Len(change')
  BY DEF TypeOK

LEMMA PassRows ==
  ASSUME TypeOK
  PROVE  /\ IdlePass \in Pass
         /\ [at |-> "sending", todo |-> queue, settled |-> {}] \in Pass
         /\ \A p \in Passes : /\ [pass[p] EXCEPT !.at = "guarded"] \in Pass
                              /\ [pass[p] EXCEPT !.at = "guarded"].todo = pass[p].todo
                              /\ [pass[p] EXCEPT !.at = "guarded"].settled = pass[p].settled
<1>1. queue \in SUBSET Ids
  BY MadeAreIds DEF TypeOK
<1> QED BY <1>1 DEF TypeOK, Pass, IdlePass

LEMMA GiveUpType == TypeOK => \A ids : GiveUp(ids) \in [Ids -> Fates]
  BY DEF TypeOK, GiveUp, Fates

LEMMA InitType == Init => TypeOK
<1> SUFFICES ASSUME Init PROVE TypeOK
  OBVIOUS
<1>1. change \in Seq(Change) /\ Len(change) = 0
  BY DEF Init
<1>2. pass \in [Passes -> Pass] /\ \A p \in Passes : pass[p].todo \cup pass[p].settled = {}
  BY DEF Init, Pass, IdlePass
<1>3. engine \in Engines /\ status \in TRIP_STATUSES /\ shown \in Trip
  BY QueueBounds DEF Init, Trip
<1>4. fate \in [Ids -> Fates] /\ moves \in 0 .. DispatcherMoves /\ troubles \in 0 .. MaxTroubles
  BY QueueBounds DEF Init, Fates
<1>5. queue = {} /\ direct = {} /\ syncing = FALSE /\ pod = FALSE /\ signedIn = TRUE
  BY DEF Init
<1>6. Len(change) <= MaxChanges
  BY <1>1, QueueBounds
<1>7. \A p \in Passes : pass[p].todo \cup pass[p].settled \subseteq 1 .. Len(change)
  BY <1>2
<1>8. queue \subseteq 1 .. Len(change) /\ direct \subseteq 1 .. Len(change)
  BY <1>5
<1> QED BY <1>1, <1>2, <1>3, <1>4, <1>5, <1>6, <1>7, <1>8 DEF TypeOK

LEMMA StepType == TypeOK /\ [Next]_vars => TypeOK'
<1> SUFFICES ASSUME TypeOK, [Next]_vars PROVE TypeOK'
  OBVIOUS
<1>0. 1 .. Len(change) \subseteq Ids /\ Len(change) \in Nat
  BY MadeAreIds
<1>1. ASSUME NEW items \in Seq(Change), items # <<>>, Do(items) PROVE TypeOK'
  <2>1. /\ change' \in Seq(Change) /\ Len(change') <= MaxChanges /\ Len(change') >= Len(change)
        /\ queue' \subseteq 1 .. Len(change') /\ direct' \subseteq 1 .. Len(change')
        /\ Len(change') \in Nat
    <3>1. Len(change') \in Nat /\ Len(change') >= Len(change)
      BY <1>1, AppendKeepsType
    <3>2. 1 .. Len(change) \subseteq 1 .. Len(change')
      BY <1>0, <3>1
    <3>3. queue \subseteq 1 .. Len(change) /\ direct \subseteq 1 .. Len(change)
      BY DEF TypeOK
    <3> QED BY <1>1, <3>1, <3>2, <3>3, AppendKeepsType
  <2>2. 1 .. Len(change) \subseteq 1 .. Len(change')
    BY <1>0, <2>1
  <2> QED BY <1>1, <2>1, <2>2 DEF Do, TypeOK, server
<1>2. \A to \in TRIP_STATUSES : PressStatus(to) => TypeOK'
  BY <1>1, MakingIsDoing
<1>3. CapturePod => TypeOK'
  BY <1>1, MakingIsDoing
<1>4. \A to \in TRIP_STATUSES : DispatcherMove(to) => TypeOK'
  BY QueueBounds DEF DispatcherMove, TypeOK, client
<1>5. Refresh => TypeOK'
  BY DEF Refresh, TypeOK, server, Trip
<1>6. ASSUME Expire PROVE TypeOK'
  <2>1. troubles' \in 0 .. MaxTroubles
    BY <1>6, QueueBounds DEF Expire, TypeOK
  <2> QED BY <1>6, <2>1 DEF Expire, TypeOK, server, client
<1>7. SignIn => TypeOK'
  BY DEF SignIn, TypeOK, server, client
<1>8. ASSUME Crash PROVE TypeOK'
  <2>1. fate' \in [Ids -> Fates]
    BY <1>8, GiveUpType DEF Crash
  <2>2. pass' \in [Passes -> Pass]
        /\ \A p \in Passes : pass'[p].todo \cup pass'[p].settled \subseteq 1 .. Len(change')
    BY <1>8, PassRows DEF Crash, IdlePass
  <2>3. troubles' \in 0 .. MaxTroubles
    BY <1>8, QueueBounds DEF Crash, TypeOK
  <2> QED BY <1>8, <2>1, <2>2, <2>3 DEF Crash, TypeOK, server
<1>9. ASSUME NEW i \in Ids, Discard(i) PROVE TypeOK'
  <2>1. fate' \in [Ids -> Fates]
    BY <1>9, GiveUpType DEF Discard
  <2> QED BY <1>9, <2>1 DEF Discard, TypeOK, server
<1>10. ASSUME NEW p \in Passes, BeginPass(p) PROVE TypeOK'
  <2>1. \E row \in Pass : /\ pass' = [pass EXCEPT ![p] = row]
                          /\ row.todo \cup row.settled \subseteq 1 .. Len(change)
    <3>1. CASE engine = "pilot"
      <4> DEFINE row == [pass[p] EXCEPT !.at = "guarded"]
      <4>1. pass' = [pass EXCEPT ![p] = row]
        BY <1>10, <3>1 DEF BeginPass
      <4>2. row \in Pass /\ row.todo \cup row.settled \subseteq 1 .. Len(change)
        BY PassRows DEF TypeOK
      <4> HIDE DEF row
      <4> QED BY <4>1, <4>2
    <3>2. CASE engine # "pilot"
      <4> DEFINE row == [at |-> "sending", todo |-> queue, settled |-> {}]
      <4>1. pass' = [pass EXCEPT ![p] = row]
        BY <1>10, <3>2 DEF BeginPass
      <4>2. row \in Pass /\ row.todo \cup row.settled \subseteq 1 .. Len(change)
        BY PassRows DEF TypeOK
      <4> HIDE DEF row
      <4> QED BY <4>1, <4>2
    <3> QED BY <3>1, <3>2
  <2>2. change' = change /\ syncing' \in BOOLEAN
    BY <1>10 DEF BeginPass, TypeOK
  <2>3. pass' \in [Passes -> Pass]
        /\ \A q \in Passes : pass'[q].todo \cup pass'[q].settled \subseteq 1 .. Len(change')
    BY <2>1, <2>2, PassKeepsType
  <2> QED BY <1>10, <2>2, <2>3 DEF BeginPass, TypeOK, server
<1>11. ASSUME NEW p \in Passes, LoadQueue(p) PROVE TypeOK'
  <2>1. \E row \in Pass : /\ pass' = [pass EXCEPT ![p] = row]
                          /\ row.todo \cup row.settled \subseteq 1 .. Len(change)
    <3>1. CASE queue = {}
      <4>1. IdlePass.todo \cup IdlePass.settled \subseteq 1 .. Len(change)
        BY DEF IdlePass
      <4> QED BY <1>11, <3>1, <4>1, PassRows DEF LoadQueue
    <3>2. CASE queue # {}
      <4> DEFINE row == [at |-> "sending", todo |-> queue, settled |-> {}]
      <4>1. pass' = [pass EXCEPT ![p] = row]
        BY <1>11, <3>2 DEF LoadQueue
      <4>2. row \in Pass /\ row.todo \cup row.settled \subseteq 1 .. Len(change)
        BY PassRows DEF TypeOK
      <4> HIDE DEF row
      <4> QED BY <4>1, <4>2
    <3> QED BY <3>1, <3>2
  <2>2. change' = change /\ syncing' \in BOOLEAN
    BY <1>11 DEF LoadQueue, TypeOK
  <2>3. pass' \in [Passes -> Pass]
        /\ \A q \in Passes : pass'[q].todo \cup pass'[q].settled \subseteq 1 .. Len(change')
    BY <2>1, <2>2, PassKeepsType
  <2> QED BY <1>11, <2>2, <2>3 DEF LoadQueue, TypeOK, server
<1>12. ASSUME NEW p \in Passes, Fold(p) PROVE TypeOK'
  <2>1. IdlePass.todo \cup IdlePass.settled \subseteq 1 .. Len(change)
    BY DEF IdlePass
  <2>2. change' = change /\ pass' = [pass EXCEPT ![p] = IdlePass]
    BY <1>12 DEF Fold
  <2>3. pass' \in [Passes -> Pass]
        /\ \A q \in Passes : pass'[q].todo \cup pass'[q].settled \subseteq 1 .. Len(change')
    BY <2>1, <2>2, PassRows, PassKeepsType
  <2> QED BY <1>12, <2>3 DEF Fold, TypeOK, server
<1>13. ASSUME NEW p \in Passes, NEW i \in Ids, NEW heard \in Heard, Send(p, i, heard) PROVE TypeOK'
  <2>1. i \in pass[p].todo /\ i \in 1 .. Len(change)
    BY <1>13 DEF Send, Sendable, TypeOK
  <2>2. status' \in TRIP_STATUSES /\ pod' \in BOOLEAN /\ fate' \in [Ids -> Fates]
    BY <1>13, <2>1, HandledKeepsType DEF Send
  <2>3. /\ AfterAnswer(pass[p], i, heard) \in Pass
        /\ AfterAnswer(pass[p], i, heard).todo \subseteq pass[p].todo
        /\ AfterAnswer(pass[p], i, heard).settled \subseteq pass[p].settled \cup {i}
    BY <1>13 DEF AfterAnswer, TypeOK, Pass
  <2>4. pass' = [pass EXCEPT ![p] = AfterAnswer(pass[p], i, heard)]
    BY <1>13 DEF Send
  <2>5. pass' \in [Passes -> Pass]
        /\ \A q \in Passes : pass'[q].todo \cup pass'[q].settled \subseteq 1 .. Len(change)
    BY <2>1, <2>3, <2>4 DEF TypeOK
  <2> QED BY <1>13, <2>2, <2>5 DEF Send, TypeOK
<1>14. ASSUME NEW i \in Ids, NEW heard \in Heard, AnswerDirect(i, heard) PROVE TypeOK'
  <2>1. i \in 1 .. Len(change)
    BY <1>14 DEF AnswerDirect, TypeOK
  <2>2. status' \in TRIP_STATUSES /\ pod' \in BOOLEAN /\ fate' \in [Ids -> Fates]
    BY <1>14, <2>1, HandledKeepsType DEF AnswerDirect
  <2> QED BY <1>14, <2>1, <2>2 DEF AnswerDirect, TypeOK
<1>15. UNCHANGED vars => TypeOK'
  BY DEF vars, server, client, TypeOK
<1> QED
  BY <1>2, <1>3, <1>4, <1>5, <1>6, <1>7, <1>8, <1>9, <1>10, <1>11, <1>12, <1>13, <1>14, <1>15, StepCases

\* The queue, the passes and the trip stay well-formed, whatever is lost, dies or
\* overlaps.
THEOREM QueueTypeCorrect == Spec => []TypeOK
  BY InitType, StepType, PTL DEF Spec

-----------------------------------------------------------------------------
(* Nothing vanishes.                                                       *)

Decided(i) == fate[i] # "new"

\* What a pass will take out of the queue has been decided, refused included.
SettledIsDecided == \A p \in Passes : \A i \in pass[p].settled : Decided(i)
KeptInv == TypeOK /\ NothingVanishes /\ SettledIsDecided

\* An answer the client takes as final means that the change was decided, and no
\* decision is taken back.
LEMMA AnswersDecide ==
  ASSUME TypeOK, NEW i \in 1 .. Len(change), NEW heard \in Heard, Handled(i, heard)
  PROVE  /\ heard # "none" => fate'[i] # "new"
         /\ \A j \in Ids : Decided(j) => fate'[j] # "new"
<1>1. i \in Ids /\ fate \in [Ids -> Fates]
  BY MadeAreIds DEF TypeOK
<1>2. ASSUME CarryOut(i) PROVE fate'[i] # "new" /\ \A j \in Ids : Decided(j) => fate'[j] # "new"
  BY <1>1, <1>2 DEF CarryOut, Decided
<1>3. ASSUME Refuse(i) PROVE fate'[i] # "new" /\ \A j \in Ids : Decided(j) => fate'[j] # "new"
  BY <1>1, <1>3 DEF Refuse, Decided, CarriedOut
<1> QED BY <1>2, <1>3 DEF Handled, Decided

LEMMA GivingUpDecides ==
  ASSUME TypeOK, NEW ids \in SUBSET Ids, fate' = GiveUp(ids)
  PROVE  \A j \in Ids : (Decided(j) => fate'[j] # "new") /\ (j \in ids => fate'[j] # "new")
  BY DEF GiveUp, Decided

LEMMA InitKept == Init => KeptInv
<1> SUFFICES ASSUME Init PROVE KeptInv
  OBVIOUS
<1>1. TypeOK
  BY InitType
<1>2. Made = {}
  BY DEF Init, Made
<1>3. SettledIsDecided
  BY DEF Init, SettledIsDecided, IdlePass
<1> QED BY <1>1, <1>2, <1>3 DEF KeptInv, NothingVanishes

LEMMA StepKept == KeptInv /\ [Next]_vars => KeptInv'
<1> SUFFICES ASSUME KeptInv, [Next]_vars PROVE NothingVanishes' /\ SettledIsDecided'
  BY StepType DEF KeptInv
<1> DEFINE Goal == NothingVanishes' /\ SettledIsDecided'
<1>0. TypeOK /\ NothingVanishes /\ SettledIsDecided /\ Made \subseteq Ids
      /\ \A p \in Passes : pass[p].todo \subseteq Made /\ pass[p].settled \subseteq Made
  BY MadeAreIds DEF KeptInv, TypeOK, Made
<1>1. ASSUME NEW items \in Seq(Change), items # <<>>, Do(items) PROVE Goal
  <2>1. SettledIsDecided'
    BY <1>0, <1>1 DEF Do, SettledIsDecided, Decided
  <2>2. fate' = fate
    BY <1>1 DEF Do
  <2>3. \A i \in Made' : i \in Made \/ i \in queue' \cup direct'
    BY <1>0, <1>1, AppendKeepsType DEF Made
  <2>4. queue \subseteq queue' /\ direct \subseteq direct'
    BY <1>0, <1>1, AppendKeepsType
  <2>5. NothingVanishes'
    BY <1>0, <2>2, <2>3, <2>4 DEF NothingVanishes
  <2> QED BY <2>1, <2>5
<1>2. (\E to \in TRIP_STATUSES : PressStatus(to)) \/ CapturePod => Goal
  <2> HIDE DEF Goal
  <2> QED BY <1>1, MakingIsDoing
<1>3. ASSUME UNCHANGED <<fate, change, queue, direct, pass>> PROVE Goal
  BY <1>0, <1>3 DEF NothingVanishes, Made, SettledIsDecided, Decided
<1>4. \A to \in TRIP_STATUSES : DispatcherMove(to) => Goal
  <2> HIDE DEF Goal
  <2> QED BY <1>3 DEF DispatcherMove, client
<1>5. Refresh \/ Expire \/ SignIn \/ UNCHANGED vars => Goal
  <2> HIDE DEF Goal
  <2> QED BY <1>3 DEF Refresh, Expire, SignIn, vars, client
<1>6. ASSUME Crash PROVE Goal
  <2>1. direct \subseteq Ids /\ fate' = GiveUp(direct) /\ queue' = queue /\ change' = change
        /\ pass' = [p \in Passes |-> IdlePass]
    BY <1>0, <1>6, MadeAreIds DEF Crash, TypeOK
  <2>2. \A j \in Ids : (Decided(j) => fate'[j] # "new") /\ (j \in direct => fate'[j] # "new")
    BY <1>0, <2>1, GivingUpDecides
  <2>3. NothingVanishes'
    BY <1>0, <2>1, <2>2 DEF NothingVanishes, Made, Decided
  <2>4. SettledIsDecided'
    BY <2>1 DEF SettledIsDecided, IdlePass
  <2> QED BY <2>3, <2>4
<1>7. ASSUME NEW i \in Ids, Discard(i) PROVE Goal
  <2>1. fate' = GiveUp({i}) /\ queue' = queue \ {i} /\ direct' = direct /\ change' = change /\ pass' = pass
    BY <1>7 DEF Discard
  <2>2. \A j \in Ids : (Decided(j) => fate'[j] # "new") /\ (j \in {i} => fate'[j] # "new")
    BY <1>0, <2>1, GivingUpDecides
  <2>3. NothingVanishes'
    BY <1>0, <2>1, <2>2 DEF NothingVanishes, Made, Decided
  <2>4. SettledIsDecided'
    BY <1>0, <2>1, <2>2 DEF SettledIsDecided, Decided
  <2> QED BY <2>3, <2>4
<1>8. ASSUME NEW p \in Passes, BeginPass(p) \/ LoadQueue(p) PROVE Goal
  <2>1. UNCHANGED <<fate, change, queue, direct>>
    BY <1>8 DEF BeginPass, LoadQueue
  <2>2. \A q \in Passes : pass'[q].settled \subseteq pass[q].settled
    BY <1>0, <1>8 DEF BeginPass, LoadQueue, IdlePass, TypeOK, Pass
  <2> QED BY <1>0, <2>1, <2>2 DEF NothingVanishes, Made, SettledIsDecided, Decided
<1>9. ASSUME NEW p \in Passes, Fold(p) PROVE Goal
  <2>1. UNCHANGED <<fate, change, direct>> /\ queue' = queue \ pass[p].settled
        /\ pass' = [pass EXCEPT ![p] = IdlePass]
    BY <1>9 DEF Fold
  <2>2. \A q \in Passes : pass'[q].settled \subseteq pass[q].settled
    BY <1>0, <2>1 DEF IdlePass, TypeOK
  <2> QED BY <1>0, <2>1, <2>2 DEF NothingVanishes, Made, SettledIsDecided, Decided
<1>10. ASSUME NEW p \in Passes, NEW i \in Ids, NEW heard \in Heard, Send(p, i, heard) PROVE Goal
  <2>1. i \in Made /\ Handled(i, heard) /\ UNCHANGED <<change, queue, direct>>
        /\ pass' = [pass EXCEPT ![p] = AfterAnswer(pass[p], i, heard)]
    BY <1>0, <1>10 DEF Send, Sendable
  <2>2. /\ heard # "none" => fate'[i] # "new"
        /\ \A j \in Ids : Decided(j) => fate'[j] # "new"
    BY <1>0, <2>1, AnswersDecide DEF Made
  <2>3. /\ AfterAnswer(pass[p], i, heard).settled \subseteq pass[p].settled \cup {i}
        /\ heard = "none" => AfterAnswer(pass[p], i, heard).settled = pass[p].settled
    BY <1>0 DEF AfterAnswer, classifyFailure, TypeOK, Pass
  <2>4. \A q \in Passes : \A j \in pass'[q].settled :
          j \in pass[q].settled \/ (j = i /\ heard # "none")
    BY <1>0, <2>1, <2>3 DEF TypeOK
  <2>5. NothingVanishes'
    BY <1>0, <2>1, <2>2 DEF NothingVanishes, Made, Decided
  <2>6. SettledIsDecided'
    BY <1>0, <2>2, <2>4 DEF SettledIsDecided, Decided
  <2> QED BY <2>5, <2>6
<1>11. ASSUME NEW i \in Ids, NEW heard \in Heard, AnswerDirect(i, heard) PROVE Goal
  <2>1. i \in Made /\ Handled(i, heard) /\ UNCHANGED <<change, pass>> /\ direct' = direct \ {i}
        /\ queue' = IF heard = "none" THEN queue \cup {i} ELSE queue
    BY <1>0, <1>11 DEF AnswerDirect, TypeOK, Made
  <2>2. /\ heard # "none" => fate'[i] # "new"
        /\ \A j \in Ids : Decided(j) => fate'[j] # "new"
    BY <1>0, <2>1, AnswersDecide DEF Made
  <2>3. NothingVanishes'
    BY <1>0, <2>1, <2>2 DEF NothingVanishes, Made, Decided
  <2>4. SettledIsDecided'
    BY <1>0, <2>1, <2>2 DEF SettledIsDecided, Decided
  <2> QED BY <2>3, <2>4
<1> HIDE DEF Goal
<1>12. Goal
  BY <1>2, <1>4, <1>5, <1>6, <1>7, <1>8, <1>9, <1>10, <1>11, StepCases
<1> QED BY <1>12 DEF Goal

\* A change the driver made is never just gone, however many there are and however
\* many passes overlap: queue, pass and server account for it at every step.
THEOREM NothingEverVanishes == Spec => []NothingVanishes
<1>1. KeptInv => NothingVanishes
  BY DEF KeptInv
<1> QED BY <1>1, InitKept, StepKept, PTL DEF Spec

-----------------------------------------------------------------------------
(* A status happens once.                                                  *)

\* How far a trip has come.  A disruption is as far as the status it is left for,
\* but REFUSED, which is left for a later one.
Rank(s) ==
  CASE s = "DRAFT" -> 0 [] s = "ASSIGNED" -> 1 [] s \in {"EN_ROUTE", "BREAKDOWN"} -> 2
    [] s = "AT_PICKUP" -> 3 [] s = "REFUSED" -> 4 [] s = "LOADED" -> 5
    [] s \in {"IN_TRANSIT", "DELAYED"} -> 6 [] s \in {"AT_DELIVERY", "CUSTOMS_HOLD"} -> 7
    [] s = "DELIVERED" -> 8 [] s = "POD_UPLOADED" -> 9 [] s = "INVOICED" -> 10
    [] s = "SETTLED" -> 11 [] OTHER -> 12

\* No edge leads back, and those a driver may take lead on, but for BREAKDOWN.
LEMMA RankGrows ==
  ASSUME NEW from, NEW to, canTransition(from, to)
  PROVE  /\ Rank(from) \in Nat /\ Rank(to) \in Nat /\ Rank(from) <= Rank(to)
         /\ ~requiresCarrierActor(from, to) /\ to # "BREAKDOWN" => Rank(from) < Rank(to)
  BY DEF canTransition, Edges, Rank, requiresCarrierActor, Disruptions, DRIVER_REPORTABLE_ENDINGS

CarriedOutStatus(i) == change[i].kind = "status" /\ fate[i] \in CarriedOut

\* The trip is at least as far as any status that was carried out, and what has not
\* been made has no fate.
PastIsBehind == \A i \in Made : CarriedOutStatus(i) => Rank(change[i].to) <= Rank(status)
UnmadeIsNew == \A i \in Ids \ Made : fate[i] = "new"
OnceInv == TypeOK /\ StatusOnlyOnce /\ PastIsBehind /\ UnmadeIsNew

LEMMA RankIsNumber == \A s : Rank(s) \in Nat
  BY DEF Rank

LEMMA CarriedOutOnce ==
  ASSUME OnceInv, NEW i \in Made, NEW heard \in Heard, Handled(i, heard), change' = change
  PROVE  StatusOnlyOnce' /\ PastIsBehind' /\ UnmadeIsNew'
<1>0. /\ TypeOK /\ StatusOnlyOnce /\ PastIsBehind /\ UnmadeIsNew
      /\ i \in Ids /\ Made \subseteq Ids /\ Made' = Made /\ fate \in [Ids -> Fates]
      /\ \A j \in Made : change[j] \in Change
  BY MadeAreIds DEF OnceInv, TypeOK, Made
<1>1. CASE CarryOut(i)
  <2>1. /\ Accepts(i)
        /\ fate' = [fate EXCEPT ![i] = IF @ \in CarriedOut THEN "often" ELSE "once"]
        /\ change[i].kind = "status" => status' = change[i].to
        /\ change[i].kind # "status" => status' = status
    BY <1>1 DEF CarryOut
  <2>2. change[i].kind = "status" =>
          canTransition(status, change[i].to) /\ ~requiresCarrierActor(status, change[i].to)
    BY <2>1 DEF Accepts
  <2>3. Rank(status) <= Rank(status')
    BY <2>1, <2>2, RankGrows, RankIsNumber
  <2>4. change[i].kind = "status" /\ change[i].to # "BREAKDOWN" => fate[i] \notin CarriedOut
    BY <1>0, <2>2, RankGrows DEF PastIsBehind, CarriedOutStatus
  <2>5. StatusOnlyOnce'
    BY <1>0, <2>1, <2>4 DEF StatusOnlyOnce
  <2>6. PastIsBehind'
    <3> SUFFICES ASSUME NEW j \in Made, change[j].kind = "status", fate'[j] \in CarriedOut
                 PROVE  Rank(change[j].to) <= Rank(status')
      BY <1>0 DEF PastIsBehind, CarriedOutStatus
    <3>1. CASE j = i
      BY <2>1, <3>1, RankIsNumber
    <3>2. CASE j # i
      <4>1. fate[j] \in CarriedOut
        BY <1>0, <2>1, <3>2
      <4>2. Rank(change[j].to) <= Rank(status)
        BY <1>0, <4>1 DEF PastIsBehind, CarriedOutStatus
      <4> QED BY <2>3, <4>2, RankIsNumber
    <3> QED BY <3>1, <3>2
  <2>7. UnmadeIsNew'
    BY <1>0, <2>1 DEF UnmadeIsNew
  <2> QED BY <2>5, <2>6, <2>7
<1>2. CASE Refuse(i)
  <2>1. fate' = [fate EXCEPT ![i] = IF @ \in CarriedOut THEN @ ELSE "refused"] /\ status' = status
    BY <1>2 DEF Refuse, server
  <2>2. \A j \in Ids : fate'[j] \in CarriedOut => fate[j] = fate'[j]
    BY <1>0, <2>1 DEF CarriedOut
  <2>3. \A j \in Ids : j # i => fate'[j] = fate[j]
    BY <1>0, <2>1
  <2>4. StatusOnlyOnce'
    BY <1>0, <2>2 DEF StatusOnlyOnce, CarriedOut
  <2>5. PastIsBehind'
    BY <1>0, <2>1, <2>2 DEF PastIsBehind, CarriedOutStatus
  <2>6. UnmadeIsNew'
    BY <1>0, <2>3 DEF UnmadeIsNew
  <2> QED BY <2>4, <2>5, <2>6
<1>3. CASE UNCHANGED <<server, fate>>
  BY <1>0, <1>3 DEF server, StatusOnlyOnce, PastIsBehind, CarriedOutStatus, UnmadeIsNew
<1> QED BY <1>1, <1>2, <1>3 DEF Handled

LEMMA InitOnce == Init => OnceInv
<1> SUFFICES ASSUME Init PROVE OnceInv
  OBVIOUS
<1>1. Made = {} /\ fate = [i \in Ids |-> "new"]
  BY DEF Init, Made
<1> QED BY <1>1, InitType DEF OnceInv, StatusOnlyOnce, PastIsBehind, UnmadeIsNew

LEMMA StepOnce == OnceInv /\ [Next]_vars => OnceInv'
<1> SUFFICES ASSUME OnceInv, [Next]_vars PROVE StatusOnlyOnce' /\ PastIsBehind' /\ UnmadeIsNew'
  BY StepType DEF OnceInv
<1> DEFINE Goal == StatusOnlyOnce' /\ PastIsBehind' /\ UnmadeIsNew'
<1>0. /\ TypeOK /\ StatusOnlyOnce /\ PastIsBehind /\ UnmadeIsNew /\ Made \subseteq Ids
      /\ queue \subseteq Made /\ direct \subseteq Made /\ fate \in [Ids -> Fates]
      /\ \A p \in Passes : pass[p].todo \subseteq Made
  BY MadeAreIds DEF OnceInv, TypeOK, Made
<1>1. ASSUME NEW items \in Seq(Change), items # <<>>, Do(items) PROVE Goal
  <2>1. fate' = fate /\ status' = status
    BY <1>1 DEF Do, server
  <2>2. Made \subseteq Made' /\ \A i \in Made : change'[i] = change[i]
    BY <1>0, <1>1, AppendKeepsType, MadeAreIds DEF Made, TypeOK
  <2>3. Made' \subseteq Ids
    <3>1. change' \in Seq(Change) /\ Len(change') <= MaxChanges
      BY <1>0, <1>1, AppendKeepsType
    <3>2. Len(change') \in Nat
      BY <3>1
    <3> QED BY <3>1, <3>2, QueueBounds DEF Made, Ids
  <2>4. \A i \in Made' \ Made : fate'[i] = "new"
    BY <1>0, <2>1, <2>3 DEF UnmadeIsNew
  <2>5. StatusOnlyOnce'
    BY <1>0, <2>1, <2>2, <2>4 DEF StatusOnlyOnce
  <2>6. PastIsBehind'
    BY <1>0, <2>1, <2>2, <2>4 DEF PastIsBehind, CarriedOutStatus, CarriedOut
  <2>7. UnmadeIsNew'
    BY <1>0, <2>1, <2>2 DEF UnmadeIsNew
  <2> QED BY <2>5, <2>6, <2>7
<1>2. (\E to \in TRIP_STATUSES : PressStatus(to)) \/ CapturePod => Goal
  <2> HIDE DEF Goal
  <2> QED BY <1>1, MakingIsDoing
<1>3. ASSUME UNCHANGED <<fate, change, status>> PROVE Goal
  BY <1>0, <1>3 DEF StatusOnlyOnce, PastIsBehind, CarriedOutStatus, UnmadeIsNew, Made
<1>4. ASSUME NEW to \in TRIP_STATUSES, DispatcherMove(to) PROVE Goal
  <2>1. Rank(status) <= Rank(status') /\ fate' = fate /\ change' = change
    BY <1>4, RankGrows DEF DispatcherMove, client
  <2>2. PastIsBehind'
    <3> SUFFICES ASSUME NEW j \in Made, CarriedOutStatus(j)
                 PROVE  Rank(change[j].to) <= Rank(status')
      BY <2>1 DEF PastIsBehind, CarriedOutStatus, Made
    <3>1. Rank(change[j].to) <= Rank(status)
      BY <1>0 DEF PastIsBehind
    <3> QED BY <2>1, <3>1, RankIsNumber
  <2> QED BY <1>0, <2>1, <2>2 DEF StatusOnlyOnce, UnmadeIsNew, Made
<1>5. Refresh \/ Expire \/ SignIn \/ UNCHANGED vars => Goal
  <2> HIDE DEF Goal
  <2> QED BY <1>3 DEF Refresh, Expire, SignIn, vars, client, server
<1>6. \A p \in Passes : BeginPass(p) \/ LoadQueue(p) \/ Fold(p) => Goal
  <2> HIDE DEF Goal
  <2> QED BY <1>3 DEF BeginPass, LoadQueue, Fold, server
<1>7. ASSUME NEW ids \in SUBSET Made, fate' = GiveUp(ids), change' = change, status' = status
      PROVE  Goal
  <2>1. \A j \in Ids : fate'[j] = fate[j] \/ (fate'[j] = "given_up" /\ j \in Made)
    BY <1>0, <1>7 DEF GiveUp
  <2>2. \A j \in Ids : fate'[j] \in CarriedOut => fate[j] = fate'[j]
    BY <2>1 DEF CarriedOut
  <2>3. StatusOnlyOnce'
    BY <1>0, <1>7, <2>2 DEF StatusOnlyOnce, Made, CarriedOut
  <2>4. PastIsBehind'
    BY <1>0, <1>7, <2>2 DEF PastIsBehind, CarriedOutStatus, Made
  <2>5. UnmadeIsNew'
    BY <1>0, <1>7, <2>1 DEF UnmadeIsNew, Made
  <2> QED BY <2>3, <2>4, <2>5
<1>8. Crash => Goal
  <2> HIDE DEF Goal
  <2> QED BY <1>0, <1>7 DEF Crash, server
<1>9. ASSUME NEW i \in Ids, Discard(i) PROVE Goal
  <2> HIDE DEF Goal
  <2>1. {i} \in SUBSET Made
    BY <1>0, <1>9 DEF Discard
  <2> QED BY <1>7, <1>9, <2>1 DEF Discard, server
<1>10. ASSUME NEW p \in Passes, NEW i \in Ids, NEW heard \in Heard, Send(p, i, heard) PROVE Goal
  <2>1. i \in Made
    BY <1>0, <1>10 DEF Send, Sendable
  <2> QED BY <1>10, <2>1, CarriedOutOnce DEF Send
<1>11. ASSUME NEW i \in Ids, NEW heard \in Heard, AnswerDirect(i, heard) PROVE Goal
  <2>1. i \in Made
    BY <1>0, <1>11 DEF AnswerDirect
  <2> QED BY <1>11, <2>1, CarriedOutOnce DEF AnswerDirect
<1> HIDE DEF Goal
<1>12. Goal
  BY <1>2, <1>4, <1>5, <1>6, <1>8, <1>9, <1>10, <1>11, StepCases
<1> QED BY <1>12 DEF Goal

\* Replayed, resent or sent by two passes at once, no status but BREAKDOWN is carried
\* out twice: the trip is past it, and the way back is the carrier's.
THEOREM StatusesHappenOnce == Spec => []StatusOnlyOnce
<1>1. OnceInv => StatusOnlyOnce
  BY DEF OnceInv
<1> QED BY <1>1, InitOnce, StepOnce, PTL DEF Spec

-----------------------------------------------------------------------------
(* The driver page keeps the order.                                        *)

\* What is queued before a change that a pass is still to send is to be sent by it
\* too, or has been decided.
PassIsInOrder(p) ==
  \A i \in pass[p].todo : \A j \in queue : j < i => j \in pass[p].todo \/ j \in Arrived
OrderInv ==
  /\ TypeOK
  /\ engine = "pilot" => direct = {} /\ \A p \in Passes : PassIsInOrder(p)

LEMMA ArrivedStay ==
  ASSUME TypeOK, NEW i \in 1 .. Len(change), NEW heard \in Heard, Handled(i, heard)
  PROVE  /\ Arrived \subseteq Arrived' /\ Arrived' \subseteq Arrived \cup {i}
         /\ heard # "none" => i \in Arrived'
<1>1. i \in Ids /\ fate \in [Ids -> Fates]
  BY MadeAreIds DEF TypeOK
<1>2. CASE CarryOut(i)
  BY <1>1, <1>2 DEF CarryOut, Arrived, CarriedOut
<1>3. CASE Refuse(i)
  BY <1>1, <1>3 DEF Refuse, Arrived, CarriedOut
<1>4. CASE heard = "none" /\ fate' = fate
  BY <1>4 DEF Arrived
<1> QED BY <1>2, <1>3, <1>4 DEF Handled

LEMMA GivenUpNeverArrive ==
  ASSUME TypeOK, NEW ids, fate' = GiveUp(ids) PROVE Arrived' = Arrived
<1>1. \A j \in Ids : fate'[j] = fate[j] \/ (fate[j] = "new" /\ fate'[j] = "given_up")
  BY DEF GiveUp
<1> QED BY <1>1 DEF Arrived, CarriedOut

LEMMA InitOrder == Init => OrderInv
<1> SUFFICES ASSUME Init PROVE OrderInv
  OBVIOUS
<1>1. \A p \in Passes : pass[p].todo = {}
  BY DEF Init, IdlePass
<1>2. TypeOK /\ direct = {}
  BY InitType DEF Init
<1> QED BY <1>1, <1>2 DEF OrderInv, PassIsInOrder

LEMMA EngineIsKept ==
  ASSUME [Next]_vars PROVE engine' = engine
<1>1. \A to \in TRIP_STATUSES : DispatcherMove(to) => engine' = engine
  BY DEF DispatcherMove
<1>2. (\E to \in TRIP_STATUSES : PressStatus(to)) \/ CapturePod => engine' = engine
  BY MakingIsDoing DEF Do
<1>3. Refresh \/ Expire \/ SignIn \/ Crash \/ UNCHANGED vars => engine' = engine
  BY DEF Refresh, Expire, SignIn, Crash, vars
<1>4. \A i \in Ids : Discard(i) => engine' = engine
  BY DEF Discard
<1>5. \A p \in Passes : BeginPass(p) \/ LoadQueue(p) \/ Fold(p) => engine' = engine
  BY DEF BeginPass, LoadQueue, Fold
<1>6. \A p \in Passes, i \in Ids, heard \in Heard : Send(p, i, heard) => engine' = engine
  BY DEF Send
<1>7. \A i \in Ids, heard \in Heard : AnswerDirect(i, heard) => engine' = engine
  BY DEF AnswerDirect
<1> QED BY <1>1, <1>2, <1>3, <1>4, <1>5, <1>6, <1>7, StepCases

LEMMA StepOrder == OrderInv /\ [Next]_vars => OrderInv' /\ (engine = "pilot" => InOrder)
<1> SUFFICES ASSUME OrderInv, [Next]_vars, engine = "pilot"
             PROVE  direct' = {} /\ (\A q \in Passes : PassIsInOrder(q)') /\ InOrder
  BY EngineIsKept, StepType DEF OrderInv
<1> DEFINE Goal == direct' = {} /\ (\A q \in Passes : PassIsInOrder(q)') /\ InOrder
<1>0. /\ TypeOK /\ direct = {} /\ \A q \in Passes : PassIsInOrder(q)
      /\ Len(change) \in Nat /\ queue \subseteq 1 .. Len(change)
      /\ \A q \in Passes : pass[q].todo \subseteq 1 .. Len(change)
  BY MadeAreIds DEF OrderInv, TypeOK
<1>1. ASSUME NEW items \in Seq(Change), items # <<>>, Do(items) PROVE Goal
  <2>1. UNCHANGED <<fate, pass>> /\ direct' = {}
        /\ queue' = queue \cup (1 .. Len(change') \ 1 .. Len(change))
        /\ change' \in Seq(Change)
    BY <1>0, <1>1, AppendKeepsType DEF Do
  <2>2. \A j \in queue' : j \in queue \/ j > Len(change)
    <3>1. Len(change') \in Nat
      BY <2>1
    <3> QED BY <1>0, <2>1, <3>1
  <2>3. \A q \in Passes : PassIsInOrder(q)'
    <3> SUFFICES ASSUME NEW q \in Passes, NEW i \in pass[q].todo, NEW j \in queue', j < i
                 PROVE  j \in pass[q].todo \/ j \in Arrived
      BY <2>1 DEF PassIsInOrder, Arrived
    <3>1. j \in queue
      BY <1>0, <2>2, <2>1
    <3> QED BY <1>0, <3>1 DEF PassIsInOrder
  <2>4. InOrder
    BY <2>1 DEF InOrder, Arrived
  <2> QED BY <2>1, <2>3, <2>4
<1>2. (\E to \in TRIP_STATUSES : PressStatus(to)) \/ CapturePod => Goal
  <2> HIDE DEF Goal
  <2> QED BY <1>1, MakingIsDoing
<1>3. ASSUME Arrived' = Arrived, queue' \subseteq queue, direct' = {},
             \A q \in Passes : pass'[q].todo = pass[q].todo \/ pass'[q].todo \in {{}, queue}
      PROVE  Goal
  <2>1. \A q \in Passes : PassIsInOrder(q)'
    <3> SUFFICES ASSUME NEW q \in Passes PROVE PassIsInOrder(q)'
      OBVIOUS
    <3>1. CASE pass'[q].todo = pass[q].todo
      BY <1>0, <1>3, <3>1 DEF PassIsInOrder
    <3>2. CASE pass'[q].todo \in {{}, queue}
      BY <1>3, <3>2 DEF PassIsInOrder
    <3> QED BY <1>3, <3>1, <3>2
  <2>2. InOrder
    BY <1>3 DEF InOrder
  <2> QED BY <1>3, <2>1, <2>2
<1>4. (\E to \in TRIP_STATUSES : DispatcherMove(to)) \/ Refresh \/ Expire \/ SignIn \/ UNCHANGED vars
      => Goal
  <2> HIDE DEF Goal
  <2> SUFFICES ASSUME UNCHANGED <<fate, queue, direct, pass>> PROVE Goal
    BY DEF DispatcherMove, Refresh, Expire, SignIn, vars, client
  <2> QED BY <1>0, <1>3 DEF Arrived
<1>5. ASSUME Crash PROVE Goal
  <2> HIDE DEF Goal
  <2>1. Arrived' = Arrived /\ queue' = queue /\ direct' = {}
    BY <1>0, <1>5, GivenUpNeverArrive DEF Crash
  <2>2. \A q \in Passes : pass'[q].todo = {}
    BY <1>5 DEF Crash, IdlePass
  <2> QED BY <1>3, <2>1, <2>2
<1>6. ASSUME NEW i \in Ids, Discard(i) PROVE Goal
  <2> HIDE DEF Goal
  <2>1. Arrived' = Arrived /\ queue' \subseteq queue /\ direct' = {} /\ pass' = pass
    BY <1>0, <1>6, GivenUpNeverArrive DEF Discard
  <2> QED BY <1>3, <2>1
<1>7. ASSUME NEW p \in Passes, BeginPass(p) \/ LoadQueue(p) \/ Fold(p) PROVE Goal
  <2> HIDE DEF Goal
  <2>1. Arrived' = Arrived /\ queue' \subseteq queue /\ direct' = {}
    BY <1>0, <1>7 DEF BeginPass, LoadQueue, Fold, Arrived
  <2>2. PICK row : /\ pass' = [pass EXCEPT ![p] = row]
                   /\ row.todo = pass[p].todo \/ row.todo \in {{}, queue}
    <3>1. CASE BeginPass(p)
      <4>1. [pass EXCEPT ![p].at = "guarded"] = [pass EXCEPT ![p] = [pass[p] EXCEPT !.at = "guarded"]]
        OBVIOUS
      <4>2. [pass[p] EXCEPT !.at = "guarded"].todo = pass[p].todo
        BY <1>0 DEF TypeOK, Pass
      <4> QED BY <3>1, <4>1, <4>2 DEF BeginPass
    <3>2. CASE LoadQueue(p)
      BY <3>2 DEF LoadQueue, IdlePass
    <3>3. CASE Fold(p)
      BY <3>3 DEF Fold, IdlePass
    <3> QED BY <1>7, <3>1, <3>2, <3>3
  <2>3. \A q \in Passes : pass'[q] = IF q = p THEN row ELSE pass[q]
    BY <1>0, <2>2 DEF TypeOK
  <2> QED BY <1>3, <2>1, <2>2, <2>3
<1>8. ASSUME NEW p \in Passes, NEW i \in Ids, NEW heard \in Heard, Send(p, i, heard) PROVE Goal
  <2>1. /\ i \in pass[p].todo /\ (\A j \in pass[p].todo : i <= j) /\ Handled(i, heard)
        /\ UNCHANGED <<queue, direct>> /\ pass' = [pass EXCEPT ![p] = AfterAnswer(pass[p], i, heard)]
    BY <1>8 DEF Send, Sendable
  <2>2. /\ Arrived \subseteq Arrived' /\ Arrived' \subseteq Arrived \cup {i}
        /\ heard # "none" => i \in Arrived'
    BY <1>0, <2>1, ArrivedStay
  <2>3. /\ heard # "none" => AfterAnswer(pass[p], i, heard).todo = pass[p].todo \ {i}
        /\ heard = "none" => AfterAnswer(pass[p], i, heard).todo = {}
    BY <1>0 DEF AfterAnswer, classifyFailure, TypeOK, Pass, Heard
  <2>4. \A q \in Passes : PassIsInOrder(q)'
    <3> SUFFICES ASSUME NEW q \in Passes, NEW k \in pass'[q].todo, NEW j \in queue, j < k
                 PROVE  j \in pass'[q].todo \/ j \in Arrived'
      BY <2>1 DEF PassIsInOrder
    <3>1. CASE q # p
      <4>1. pass'[q] = pass[q]
        BY <1>0, <2>1, <3>1 DEF TypeOK
      <4> QED BY <1>0, <2>2, <4>1 DEF PassIsInOrder
    <3>2. CASE q = p
      <4>1. heard # "none" /\ pass'[q].todo = pass[q].todo \ {i}
        BY <1>0, <2>1, <2>3, <3>2 DEF TypeOK
      <4>2. j \in pass[q].todo \/ j \in Arrived
        BY <1>0, <4>1 DEF PassIsInOrder
      <4> QED BY <2>2, <4>1, <4>2
    <3> QED BY <3>1, <3>2
  <2>5. InOrder
    <3> SUFFICES ASSUME NEW j \in queue, j < i PROVE j \in Arrived
      BY <2>2 DEF InOrder
    <3>1. j \notin pass[p].todo
      BY <1>0, <2>1
    <3> QED BY <1>0, <2>1, <3>1 DEF PassIsInOrder
  <2> QED BY <1>0, <2>1, <2>4, <2>5
<1>9. \A i \in Ids, heard \in Heard : AnswerDirect(i, heard) => Goal
  BY <1>0 DEF AnswerDirect
<1> HIDE DEF Goal
<1>10. Goal
  BY <1>2, <1>4, <1>5, <1>6, <1>7, <1>8, <1>9, StepCases
<1> QED BY <1>10 DEF Goal

\* Although two passes may overlap, the server never sees a change of the driver page
\* before an older one that is queued and undecided.
THEOREM PilotKeepsTheOrder == Spec => PilotReplaysInOrder
<1>1. OrderInv /\ [Next]_vars => [engine = "pilot" => InOrder]_vars
  BY StepOrder
<1> QED BY <1>1, InitOrder, StepOrder, PTL DEF Spec, PilotReplaysInOrder

-----------------------------------------------------------------------------
(* The surfaces a driver sees: the promises of DriverSurfaces, for every    *)
(* file, fix and list of documents, and the one the fleet app breaks.       *)

\* Whatever the status, the buttons of the pages are legal edges for the one who
\* sees them, every ending has one way in and one way out, and both are offered.
THEOREM PagesOfferWhatIsLegal ==
  ASSUME NEW s \in TRIP_STATUSES
  PROVE  OffersAreLegal(s)
<1> USE DEF TRIP_STATUSES, ACTIVE_ASSIGNMENT_STATUSES, EnRouteToDelivery, Disruptions, Billing
<1>1. actionsFrom(s, TRUE) = IF s \in Disruptions THEN {resumeStatus(s)} ELSE endingsFrom(s)
  <2>1. isEnding(s) <=> s \in Disruptions
    BY DEF isEnding, ENDINGS
  <2>2. ASSUME s \in Disruptions
        PROVE  Recovery(s) = {resumeStatus(s)}
    <3>1. \A e \in ENDINGS : e.status = s => e.resumeTo = resumeStatus(s)
      BY <2>2 DEF ENDINGS, resumeStatus, DISRUPTION_RESUME
    <3>2. PICK e \in ENDINGS : e.status = s
      BY <2>1, <2>2 DEF isEnding
    <3> QED BY <3>1, <3>2 DEF Recovery
  <2>3. EndingsShown(s, TRUE) = endingsFrom(s)
    <3>1. \A e \in ENDINGS : s \in e.sources => e.status \in endingsFrom(s)
      BY DEF ENDINGS, endingsFrom, canTransition, Edges
    <3>2. \A to \in endingsFrom(s) : \E e \in ENDINGS : e.status = to /\ s \in e.sources
      BY DEF ENDINGS, endingsFrom, canTransition, Edges
    <3> QED BY <3>1, <3>2 DEF EndingsShown
  <2> QED BY <2>1, <2>2, <2>3 DEF actionsFrom
<1>2. \A to \in actionsFrom(s, FALSE) : canTransition(s, to) /\ ~requiresCarrierActor(s, to)
  BY DEF actionsFrom, isEnding, EndingsShown, Recovery, ENDINGS, canTransition, Edges,
         requiresCarrierActor, DRIVER_REPORTABLE_ENDINGS
<1>3. s \in Disruptions =>
        \A to \in TRIP_STATUSES : canTransition(s, to) <=> to = resumeStatus(s)
  BY DEF resumeStatus, DISRUPTION_RESUME, canTransition, Edges
<1>4. s \in Disruptions =>
        \A from \in TRIP_STATUSES : canTransition(from, s) <=> from \in DISRUPTION_SOURCES[s]
  BY DEF DISRUPTION_SOURCES, canTransition, Edges
<1>5. \A to \in actionsFrom(s, TRUE) : canTransition(s, to)
  <2>1. s \in Disruptions => canTransition(s, resumeStatus(s))
    BY DEF resumeStatus, DISRUPTION_RESUME, canTransition, Edges
  <2>2. \A to \in endingsFrom(s) : canTransition(s, to)
    BY Zenon DEF endingsFrom
  <2> QED BY <1>1, <2>1, <2>2, Zenon
<1>6. \A to \in nextStatusAfter(s) : canTransition(s, to)
  BY DEF nextStatusAfter, SOLO_STATUS_CHAIN, canTransition, Edges
<1>7. needsPodCapture(s) <=> canTransition(s, "POD_UPLOADED")
  BY DEF needsPodCapture, nextStatusAfter, SOLO_STATUS_CHAIN, canTransition, Edges
<1> QED BY <1>1, <1>2, <1>3, <1>4, <1>5, <1>6, <1>7 DEF OffersAreLegal, SoloOffers

\* The page shows a driver as busy exactly when the API would refuse him a new job.
THEOREM BusyOnBothSides ==
  ASSUME NEW jobs
  PROVE  BusyIsBusy(jobs)
<1>1. ACTIVE_JOB_STATUSES = ACTIVE_ASSIGNMENT_STATUSES
  BY DEF ACTIVE_JOB_STATUSES, ACTIVE_ASSIGNMENT_STATUSES, EnRouteToDelivery, Disruptions
<1> QED BY <1>1 DEF BusyIsBusy, activeJob, isActiveAssignment

\* A file the fleet app or the solo page lets through is taken by the API, unless
\* nothing is left of its name; the fleet app turns away nothing the API takes.
THEOREM NoDoomedUpload ==
  ASSUME NEW docType, NEW filename, NEW mimeType, NEW size,
         NEW maxBytes \in Nat
  PROVE  CheckedFilesAreTaken([docType |-> docType, filename |-> filename,
                               mimeType |-> mimeType, size |-> size], maxBytes)
<1> DEFINE file == [docType |-> docType, filename |-> filename,
                    mimeType |-> mimeType, size |-> size]
<1>1. ASSUME maxBytes >= MAX_UPLOAD_BYTES, size \in 1 .. MAX_UPLOAD_BYTES
      PROVE  size \in 1 .. maxBytes
  <2>1. MAX_UPLOAD_BYTES \in Int
    BY DEF MAX_UPLOAD_BYTES
  <2> QED BY <1>1, <2>1
<1>2. ASSUME maxBytes >= MAX_UPLOAD_BYTES, Sanitized(filename) # Empty, validateUpload(file)
      PROVE  validateDocumentUpload(file, maxBytes)
  BY <1>1, <1>2 DEF validateUpload, validateDocumentUpload
<1>3. ASSUME maxBytes >= MAX_UPLOAD_BYTES, Sanitized(filename) # Empty, validatePodCapture(file)
      PROVE  validateDocumentUpload([file EXCEPT !.docType = "pod"], maxBytes)
  <2>1. [file EXCEPT !.docType = "pod"] = [docType |-> "pod", filename |-> filename,
                                           mimeType |-> mimeType, size |-> size]
    OBVIOUS
  <2> QED BY <1>1, <1>3, <2>1 DEF validatePodCapture, validateDocumentUpload, DOC_TYPES
<1>4. validateDocumentUpload(file, MAX_UPLOAD_BYTES) => validateUpload(file)
  BY DEF validateUpload, validateDocumentUpload
<1> QED BY <1>2, <1>3, <1>4 DEF CheckedFilesAreTaken

\* The size of a verification paper is measured to the byte from its base64 form,
\* whatever the padding.
THEOREM PapersAreMeasuredToTheByte ==
  ASSUME NEW n \in Nat
  PROVE  MeasuredBytes(Base64Chars(n), Base64Padding(n)) = n
<1> DEFINE q == n \div 3
<1>1. PICK r \in 0 .. 2 : n = 3 * q + r /\ n % 3 = r /\ q \in Nat
  OBVIOUS
<1>2. CASE r = 0
  <2>1. (n + 2) \div 3 = q /\ Base64Padding(n) = 0
    BY <1>1, <1>2 DEF Base64Padding
  <2> QED BY <1>1, <1>2, <2>1 DEF MeasuredBytes, Base64Chars
<1>3. CASE r = 1
  <2>1. (n + 2) \div 3 = q + 1 /\ Base64Padding(n) = 2
    BY <1>1, <1>3 DEF Base64Padding
  <2> QED BY <1>1, <1>3, <2>1 DEF MeasuredBytes, Base64Chars
<1>4. CASE r = 2
  <2>1. (n + 2) \div 3 = q + 1 /\ Base64Padding(n) = 1
    BY <1>1, <1>4 DEF Base64Padding
  <2> QED BY <1>1, <1>4, <2>1 DEF MeasuredBytes, Base64Chars
<1> QED BY <1>1, <1>2, <1>3, <1>4

-----------------------------------------------------------------------------
(* Positions.                                                              *)

\* Rounding to whole metres twice is rounding once.
LEMMA RoundedStaysRounded ==
  ASSUME NEW a \in Nat
  PROVE  Round(a) \in Nat /\ Round(Round(a)) = Round(a)
<1> DEFINE k == (a + 5) \div 10
<1>1. k \in Nat
  OBVIOUS
<1>2. (k * 10 + 5) \div 10 = k
  BY <1>1
<1> QED BY <1>1, <1>2 DEF Round

LEMMA BoundsAreIntegers == MAX_LAT \in Int /\ MAX_LNG \in Int /\ MAX_LAT >= 0 /\ MAX_LNG >= 0
  BY SMT DEF MAX_LAT, MAX_LNG

\* What is filed of a fix the phone took, and that it is a fix again.
LEMMA FiledFix ==
  ASSUME NEW fix \in Fix
  PROVE  /\ normalizeCapture(fix) = [lat |-> fix.lat, lng |-> fix.lng,
                                     accuracy |-> Round(fix.accuracy)]
         /\ normalizeCapture(fix) \in Fix
         /\ InRange(fix) /\ fix # Null
<1>1. /\ fix.lat \in -MAX_LAT .. MAX_LAT /\ fix.lng \in -MAX_LNG .. MAX_LNG
      /\ fix.lat \in Int /\ fix.lng \in Int /\ fix.accuracy \in Nat
  BY BoundsAreIntegers DEF Fix
<1>2. fix # Null
  <2>1. fix \in [lat: Int \cup {Null}, lng: Int \cup {Null}, accuracy: Int \cup {Null}]
    BY <1>1 DEF Fix
  <2> QED BY <2>1, ValueAssumption
<1>3. Null \notin Int
  BY ValueAssumption
<1>4. fix.lat # Null /\ fix.lng # Null /\ fix.accuracy # Null
  BY <1>1, <1>3
<1>5. NumberOf(fix.lat) = fix.lat /\ NumberOf(fix.lng) = fix.lng
  BY <1>4 DEF NumberOf
<1>6. normalizeCapture(fix) = [lat |-> fix.lat, lng |-> fix.lng,
                               accuracy |-> Round(fix.accuracy)]
  BY <1>2, <1>4, <1>5 DEF normalizeCapture
<1>7. Round(fix.accuracy) \in Nat
  BY <1>1, RoundedStaysRounded
<1>8. normalizeCapture(fix) \in Fix
  BY <1>1, <1>6, <1>7 DEF Fix
<1> QED BY <1>1, <1>2, <1>5, <1>6, <1>8 DEF InRange

\* What is filed of what was filed is the same.
LEMMA FiledTwice ==
  ASSUME NEW fix \in Fix
  PROVE  normalizeCapture(normalizeCapture(fix)) = normalizeCapture(fix)
<1> DEFINE filed == normalizeCapture(fix)
<1>1. /\ filed = [lat |-> fix.lat, lng |-> fix.lng, accuracy |-> Round(fix.accuracy)]
      /\ filed \in Fix
  BY FiledFix
<1>2. normalizeCapture(filed) = [lat |-> filed.lat, lng |-> filed.lng,
                                 accuracy |-> Round(filed.accuracy)]
  BY <1>1, FiledFix
<1>3. Round(Round(fix.accuracy)) = Round(fix.accuracy)
  BY RoundedStaysRounded DEF Fix
<1> QED BY <1>1, <1>2, <1>3

\* The fleet app's last step changes nothing of a fix but the rounding.
LEMMA SentFix ==
  ASSUME NEW fix \in Fix
  PROVE  normalizeGeo(fix) = normalizeCapture(fix)
<1>1. fix.lat \in Int /\ fix.lng \in Int /\ fix.accuracy \in Nat
  BY DEF Fix
<1>2. Null \notin Int
  BY ValueAssumption
<1>3. fix.lat # Null /\ fix.lng # Null /\ fix.accuracy # Null
  BY <1>1, <1>2
<1>4. /\ NumberOf(fix.lat) = fix.lat /\ NumberOf(fix.lng) = fix.lng
      /\ NumberOf(fix.accuracy) = fix.accuracy
  BY <1>3 DEF NumberOf
<1>5. normalizeGeo(fix) = [lat |-> fix.lat, lng |-> fix.lng, accuracy |-> Round(fix.accuracy)]
  BY <1>1, <1>4, FiledFix DEF normalizeGeo
<1> QED BY <1>5, FiledFix

\* The driver page and the trip panel file the fix the phone took, or that there
\* was none; My trips does so when there is one.
THEOREM PositionsAreFiledAsTaken ==
  ASSUME NEW fix \in Fix \cup {Null}
  PROVE  FiledAsTaken(fix)
<1>1. CASE fix \in Fix
  <2> DEFINE filed == normalizeCapture(fix)
  <2>1. filed \in Fix /\ filed.lat # Null
    <3>1. filed \in Fix /\ filed.lat \in Int
      BY <1>1, FiledFix DEF Fix
    <3> QED BY <3>1, ValueAssumption
  <2>2. PilotSends(fix) = filed
    BY <2>1 DEF PilotSends
  <2>3. PanelSends(fix) = filed
    BY <1>1, SentFix DEF PanelSends
  <2>4. MyTripsSends(fix) = filed
    BY <1>1, <2>1, SentFix, FiledTwice DEF MyTripsSends
  <2> QED BY <1>1, <2>2, <2>3, <2>4, FiledTwice DEF FiledAsTaken
<1>2. CASE fix = Null
  <2>1. normalizeCapture(Null) = Nowhere /\ Nowhere.lat = Null
    BY DEF normalizeCapture, Nowhere
  <2>2. PilotSends(Null) = Null /\ PanelSends(Null) = Null
    BY <2>1 DEF PilotSends, PanelSends, normalizeGeo
  <2> QED BY <1>2, <2>2 DEF FiledAsTaken
<1> QED BY <1>1, <1>2

\* Without a fix, My trips files its photo at latitude 0, longitude 0, as measured
\* to the metre: Number(null) is 0.
THEOREM PhotoWithoutFixIsFiledAtZero ==
  normalizeCapture(MyTripsSends(Null)) = [lat |-> 0, lng |-> 0, accuracy |-> 0]
<1>1. normalizeCapture(Null) = Nowhere
  BY DEF normalizeCapture
<1>2. Nowhere # Null
  <2>1. Nowhere \in [lat: Int \cup {Null}, lng: Int \cup {Null}, accuracy: Int \cup {Null}]
    BY DEF Nowhere
  <2> QED BY <2>1, ValueAssumption
<1>3. /\ NumberOf(Nowhere.lat) = 0 /\ NumberOf(Nowhere.lng) = 0
      /\ NumberOf(Nowhere.accuracy) = 0
  BY DEF NumberOf, Nowhere
<1>4. InRange(Nowhere)
  BY <1>3, BoundsAreIntegers DEF InRange
<1>5. Round(0) = 0
  BY DEF Round
<1>6. normalizeGeo(Nowhere) = [lat |-> 0, lng |-> 0, accuracy |-> 0]
  BY <1>2, <1>3, <1>4, <1>5 DEF normalizeGeo
<1> DEFINE zero == [lat |-> 0, lng |-> 0, accuracy |-> 0]
<1>7. zero \in Fix
  BY BoundsAreIntegers DEF Fix
<1>8. normalizeCapture(zero) = zero
  BY <1>5, <1>7, FiledFix
<1> QED BY <1>1, <1>6, <1>8 DEF MyTripsSends

-----------------------------------------------------------------------------
\* A ticked required row means the gate is open, and nothing is missing exactly
\* when it is, whatever documents a trip has collected.
THEOREM ChecklistIsHonest ==
  ASSUME NEW docs
  PROVE  ChecklistKeepsItsWord(docs)
<1> DEFINE Shown(type) == \E i \in 1 .. Len(docs) : /\ docs[i].docType = type
                                                     /\ IsNewest(docs, i)
                                                     /\ docs[i].status \in Present
<1>1. ASSUME NEW row \in documentChecklist(docs), row.required, row.present
      PROVE  podSatisfied(docs)
  <2>1. PICK type \in POD_DOC_TYPES \cup {"e_irsaliye", "invoice", "tacho_file"} :
          row = [docType |-> type, required |-> type \in POD_DOC_TYPES,
                 present |-> Shown(type)]
    BY DEF documentChecklist
  <2> HIDE DEF Shown
  <2>2. row.required = (type \in POD_DOC_TYPES) /\ row.present = Shown(type)
    BY <2>1
  <2>3. type \in POD_DOC_TYPES /\ Shown(type)
    BY <1>1, <2>2, Zenon
  <2>4. hasPresentDocument(docs, type)
    BY <2>3 DEF Shown, hasPresentDocument
  <2> QED BY <2>3, <2>4 DEF podSatisfied
<1>2. requiredMissing(docs) = {} <=> podSatisfied(docs)
  BY DEF requiredMissing, REQUIRED_GROUPS, podSatisfied
<1> QED BY <1>1, <1>2, Zenon DEF ChecklistKeepsItsWord

-----------------------------------------------------------------------------
(* WebApps.  The handlers of each application, as far as its proofs need   *)
(* them.                                                                   *)

\* The fleet app: a panel is filled by a loader that compares a token, a trip is
\* drawn by renderTripDetail only, and only the boot's check may end a session
\* before there is one.
FleetKind(h) ==
  /\ h.starts = "enter" => h.ok = "enter" /\ (h.expires => h.at = "boot")
  /\ h.starts # "enter" => h.ok \in {"page", "part", "note", "reload", "detail"}
  /\ h.ok = "page" => h.starts = "render" /\ h.check # "none" /\ h.at # "trip"
  /\ h.ok = "detail" => h = Fleet!renderTripDetail \/ h.starts = "press"
  /\ h.check = "panel" => h.ok # "detail"
  /\ h.starts = "detail" => h.ok = "part"

\* The portal: a list that is fetched again has a loader, and no list is a shipment.
CustomerKind(h) ==
  /\ h.starts = "enter" => h.ok \in {"token", "enter"}
  /\ h.starts # "enter" => h.ok \in {"page", "detail", "reopen", "booked", "reload", "awarded", "note"}
  /\ h.ok = "detail" => h = Customer!openShipment
  /\ h.starts = "render" => h.ok = "page"
  /\ h.ok \in {"page", "reload", "awarded"} => h.at # "shipment"
  /\ h.ok \in {"reload", "awarded"} =>
       \E g \in Customer!CustomerHandlers : g.starts = "render" /\ g.at = h.at /\ g.ok = "page"

SoloKind(h) ==
  /\ h.starts = "enter" => h.ok \in {"token", "enter"}
  /\ h.starts # "enter" => h.ok \in {"page", "detail", "reload", "again"}
  /\ h.at \notin {"trip", "shipment"}

-----------------------------------------------------------------------------
(* The inductive invariant.                                                *)

Shape ==
  /\ app \in {"fleet", "customer", "solo"} /\ session \in Someone
  /\ page = Page(page.panel, page.what, page.of, page.item)
  /\ \A r \in flight : r.user \in Someone

\* What is in flight was sent by the application the tab shows.
OwnHandlers ==
  \A r \in flight : /\ app = "fleet" => FleetKind(r.h)
                    /\ app = "customer" => CustomerKind(r.h)
                    /\ app = "solo" => SoloKind(r.h)

\* The fleet app: an answer that may fill the panel or the trip on the screen was
\* asked for with the token of the session, and for the trip the page is about.
AnswersFit ==
  app = "fleet" =>
    /\ screen = "app" => session # None
    /\ \A r \in flight : r.h = Fleet!renderTripDetail =>
         page.panel = "trip" /\ r.item = page.item
    /\ screen = "app" => \A r \in flight :
         /\ r.user # None
         /\ r.h = Fleet!renderTripDetail \/ (r.h.ok = "page" /\ r.h.at = page.panel)
         => r.user = session

\* The portal: what a page acts on when it shows no shipment; the solo app: the
\* load its page is about is the one it holds.
PagesFit ==
  /\ app = "customer" /\ page.panel # "shipment" => page.item = None
  /\ app = "customer" /\ page.panel = "shipment" /\ page.what = "rows" => live \in {page.item, None}
  /\ app # "fleet" => page.panel # "trip"
  /\ app # "customer" => page.panel # "shipment"
  /\ app # "solo" => page.panel # "load"
  /\ app = "solo" => page.what # "loading"
  /\ app = "solo" /\ page.panel = "load" => page.item = held

TabInv ==
  /\ Shape /\ OwnHandlers /\ AnswersFit /\ PagesFit
  /\ OwnRowsOnly /\ LoadingIsAwaited /\ ActsOnWhatIsShown

-----------------------------------------------------------------------------
(* The handlers have these kinds.                                          *)

LEMMA FleetEntryKinds ==
  \A h \in {Fleet!login, Fleet!register, Fleet!restoreSession} :
    FleetKind(h) /\ h.starts = "enter" /\ h.check = "none"
BY DEF FleetKind, Fleet!login, Fleet!register, Fleet!restoreSession,
       Fleet!Entry, Fleet!Loader

LEMMA FleetLoaderKinds ==
  \A h \in {Fleet!renderDashboard, Fleet!loadTrips, Fleet!loadDriverOptions,
            Fleet!renderTripDetail, Fleet!renderDocuments, Fleet!renderMyTrips,
            Fleet!loadTrackingList, Fleet!loadDispatchReference, Fleet!loadCustomers,
            Fleet!loadMoreCustomers, Fleet!loadReviewPrompts} : FleetKind(h)
<1> USE DEF FleetKind, Fleet!Loader, Fleet!FleetLoader
<1>1. FleetKind(Fleet!renderDashboard)
  BY DEF Fleet!renderDashboard
<1>2. FleetKind(Fleet!loadTrips)
  BY DEF Fleet!loadTrips
<1>3. FleetKind(Fleet!loadDriverOptions)
  BY DEF Fleet!loadDriverOptions, Fleet!loadTrips
<1>4. FleetKind(Fleet!renderTripDetail)
  BY DEF Fleet!renderTripDetail
<1>5. FleetKind(Fleet!renderDocuments)
  BY DEF Fleet!renderDocuments
<1>6. FleetKind(Fleet!renderMyTrips)
  BY DEF Fleet!renderMyTrips
<1>7. FleetKind(Fleet!loadTrackingList)
  BY DEF Fleet!loadTrackingList
<1>8. FleetKind(Fleet!loadDispatchReference)
  BY DEF Fleet!loadDispatchReference
<1>9. FleetKind(Fleet!loadCustomers)
  BY DEF Fleet!loadCustomers
<1>10. FleetKind(Fleet!loadMoreCustomers)
  BY DEF Fleet!loadMoreCustomers, Fleet!loadCustomers
<1>11. FleetKind(Fleet!loadReviewPrompts)
  BY DEF Fleet!loadReviewPrompts
<1> HIDE DEF FleetKind, Fleet!Loader, Fleet!FleetLoader
<1> QED
  BY <1>1, <1>2, <1>3, <1>4, <1>5, <1>6, <1>7, <1>8, <1>9, <1>10, <1>11

LEMMA FleetPressKinds ==
  \A h \in {Fleet!loadAssignControl, Fleet!loadTrackingControl, Fleet!mintTrackingLink,
            Fleet!revokeTrackingLink, Fleet!mintWorkLink, Fleet!revokeWorkLink,
            Fleet!submitReviewPrompt} : FleetKind(h)
<1> USE DEF FleetKind, Fleet!Loader, Fleet!FleetLoader, Fleet!FleetPart
<1>1. FleetKind(Fleet!loadAssignControl)
  BY DEF Fleet!loadAssignControl
<1>2. FleetKind(Fleet!loadTrackingControl)
  BY DEF Fleet!loadTrackingControl
<1>3. FleetKind(Fleet!mintTrackingLink)
  BY DEF Fleet!mintTrackingLink
<1>4. FleetKind(Fleet!revokeTrackingLink)
  BY DEF Fleet!revokeTrackingLink
<1>5. FleetKind(Fleet!mintWorkLink)
  BY DEF Fleet!mintWorkLink
<1>6. FleetKind(Fleet!revokeWorkLink)
  BY DEF Fleet!revokeWorkLink, Fleet!mintWorkLink
<1>7. FleetKind(Fleet!submitReviewPrompt)
  BY DEF Fleet!submitReviewPrompt, Fleet!loadReviewPrompts
<1> HIDE DEF FleetKind, Fleet!Loader, Fleet!FleetLoader, Fleet!FleetPart
<1> QED
  BY <1>1, <1>2, <1>3, <1>4, <1>5, <1>6, <1>7

LEMMA FleetFormKinds ==
  \A h \in {Fleet!submitEnding, Fleet!submitAssign, Fleet!submitDocument,
            Fleet!submitDocumentStatus, Fleet!submitDispatch, Fleet!submitCustomer,
            Fleet!submitFleetOrder, Fleet!repeatFleetOrder,
            Fleet!submitCustomerInvite} : FleetKind(h)
<1> USE DEF FleetKind, Fleet!Loader, Fleet!Press, Fleet!FleetForm
<1>1. FleetKind(Fleet!submitEnding)
  BY DEF Fleet!submitEnding
<1>2. FleetKind(Fleet!submitAssign)
  BY DEF Fleet!submitAssign
<1>3. FleetKind(Fleet!submitDocument)
  BY DEF Fleet!submitDocument
<1>4. FleetKind(Fleet!submitDocumentStatus)
  BY DEF Fleet!submitDocumentStatus
<1>5. FleetKind(Fleet!submitDispatch)
  BY DEF Fleet!submitDispatch
<1>6. FleetKind(Fleet!submitCustomer)
  BY DEF Fleet!submitCustomer
<1>7. FleetKind(Fleet!submitFleetOrder)
  BY DEF Fleet!submitFleetOrder
<1>8. FleetKind(Fleet!repeatFleetOrder)
  BY DEF Fleet!repeatFleetOrder
<1>9. FleetKind(Fleet!submitCustomerInvite)
  BY DEF Fleet!submitCustomerInvite
<1> HIDE DEF FleetKind, Fleet!Loader, Fleet!Press, Fleet!FleetForm
<1> QED
  BY <1>1, <1>2, <1>3, <1>4, <1>5, <1>6, <1>7, <1>8, <1>9

LEMMA FleetKinds ==
  ASSUME NEW role, NEW h \in Fleet!FleetHandlers(role)
  PROVE  FleetKind(h)
BY FleetLoaderKinds, FleetPressKinds, FleetFormKinds
   DEF Fleet!FleetHandlers, Fleet!renderTripsList, Fleet!loadDashboard, Fleet!renderDispatch,
       Fleet!renderReviews, Fleet!reviewPromptHtml, Fleet!renderTracking,
       Fleet!trackingWorklistHtml, Fleet!renderCustomers, Fleet!renderCustomersMore,
       Fleet!renderFleetOrders, Fleet!inviteForm, Fleet!tripDetailHtml,
       Fleet!trackingBodyHtml, Fleet!disruptionBoxHtml, Fleet!assignBoxHtml,
       Fleet!docTableHtml, Fleet!docUploadFormHtml, Fleet!documentsPanelHtml

\* The loaders of the portal's lists.
LEMMA PortalLoaders ==
  \A h \in {Customer!renderShipments, Customer!renderOffers, Customer!renderAutoMatch,
            Customer!renderAccount, Customer!renderReviews} :
    /\ h \in Customer!CustomerHandlers /\ CustomerKind(h)
    /\ h.starts = "render" /\ h.ok = "page"
BY DEF CustomerKind, Customer!CustomerHandlers, Customer!Loader, Customer!renderShipments, Customer!renderOffers,
       Customer!renderAutoMatch, Customer!renderAccount, Customer!renderReviews

LEMMA PortalKinds ==
  \A h \in Customer!CustomerHandlers \cup {Customer!openShipment} : CustomerKind(h)
<1> USE DEF CustomerKind, Customer!Loader, Customer!Press
<1>1. CustomerKind(Customer!openShipment)
  BY DEF Customer!openShipment
<1>2. CustomerKind(Customer!mintTrackLink)
  BY DEF Customer!mintTrackLink
<1>3. CustomerKind(Customer!onSubmitBooking)
  BY DEF Customer!onSubmitBooking
<1>4. CustomerKind(Customer!onSubmitProfile)
  BY DEF Customer!onSubmitProfile
<1>5. CustomerKind(Customer!onSubmitTeam)
  BY DEF Customer!onSubmitTeam
<1>6. CustomerKind(Customer!sendCounter)
  BY PortalLoaders DEF Customer!sendCounter, Customer!renderOffers
<1>7. CustomerKind(Customer!declineOffer)
  BY PortalLoaders DEF Customer!declineOffer, Customer!renderOffers
<1>8. CustomerKind(Customer!awardOffer)
  BY PortalLoaders DEF Customer!awardOffer, Customer!renderOffers
<1>9. CustomerKind(Customer!onSubmitAutoMatch)
  BY PortalLoaders DEF Customer!onSubmitAutoMatch, Customer!renderAutoMatch
<1>10. CustomerKind(Customer!onSubmitAddress)
  BY PortalLoaders DEF Customer!onSubmitAddress, Customer!renderAccount
<1>11. CustomerKind(Customer!removeAddress)
  BY PortalLoaders DEF Customer!removeAddress, Customer!renderAccount
<1>12. CustomerKind(Customer!submitReviewPrompt)
  BY PortalLoaders DEF Customer!submitReviewPrompt, Customer!renderReviews
<1> HIDE DEF CustomerKind, Customer!Loader, Customer!Press
<1> QED
  BY PortalLoaders, <1>1, <1>2, <1>3, <1>4, <1>5, <1>6, <1>7, <1>8, <1>9, <1>10, <1>11,
     <1>12
     DEF Customer!CustomerHandlers, Customer!renderBook, Customer!renderShipment,
         Customer!onOffersClick, Customer!autoMatchForm, Customer!accountForms,
         Customer!onReviewsClick

LEMMA PortalEntryKinds ==
  /\ CustomerKind(Customer!onSubmitLogin) /\ CustomerKind(Customer!onSubmitSignup)
  /\ \A at : CustomerKind(Customer!loadMe(at))
BY DEF CustomerKind, Customer!onSubmitLogin, Customer!onSubmitSignup, Customer!loadMe,
       Customer!Entry, Customer!Loader

LEMMA SoloKinds ==
  /\ \A h \in Solo!SoloHandlers \cup {Solo!openLoad, Solo!RefetchLoad} : SoloKind(h)
  /\ \A p : p \notin {"trip", "shipment"} =>
       SoloKind(Solo!openPanel(p)) /\ SoloKind(Solo!Refetch(p))
<1> USE DEF SoloKind, Solo!Loader, Solo!Press
<1>1. SoloKind(Solo!openLoad)
  BY DEF Solo!openLoad
<1>2. SoloKind(Solo!placeBid)
  BY DEF Solo!placeBid
<1>3. SoloKind(Solo!loadFeed)
  BY DEF Solo!loadFeed
<1>4. SoloKind(Solo!saveSearch)
  BY DEF Solo!saveSearch
<1>5. SoloKind(Solo!publishBeacon)
  BY DEF Solo!publishBeacon
<1>6. SoloKind(Solo!uploadVerification)
  BY DEF Solo!uploadVerification
<1>7. SoloKind(Solo!createJob)
  BY DEF Solo!createJob
<1>8. SoloKind(Solo!addCustomer)
  BY DEF Solo!addCustomer
<1>9. SoloKind(Solo!saveProfile)
  BY DEF Solo!saveProfile
<1>10. SoloKind(Solo!sendOtp)
  BY DEF Solo!sendOtp
<1>11. SoloKind(Solo!verifyOtp)
  BY DEF Solo!verifyOtp
<1>12. SoloKind(Solo!advanceJob)
  BY DEF Solo!advanceJob
<1>13. SoloKind(Solo!attachPod)
  BY DEF Solo!attachPod
<1>14. SoloKind(Solo!shareJob)
  BY DEF Solo!shareJob
<1>15. SoloKind(Solo!RefetchLoad)
  BY DEF Solo!RefetchLoad, Solo!openLoad
<1>16. \A p : p \notin {"trip", "shipment"} =>
       SoloKind(Solo!openPanel(p)) /\ SoloKind(Solo!Refetch(p))
  BY DEF Solo!openPanel, Solo!Refetch
<1> HIDE DEF SoloKind, Solo!Loader, Solo!Press
<1> QED
  BY <1>1, <1>2, <1>3, <1>4, <1>5, <1>6, <1>7, <1>8, <1>9, <1>10, <1>11, <1>12, <1>13,
     <1>14, <1>15, <1>16
     DEF Solo!SoloHandlers, Solo!SoloPanels, Solo!feedView, Solo!loadView, Solo!beaconView, Solo!verifyView,
         Solo!jobsView, Solo!customersView, Solo!profileView

LEMMA SoloEntryKinds ==
  /\ SoloKind(Solo!signIn) /\ SoloKind(Solo!signUp)
  /\ \A at : at \notin {"trip", "shipment"} => SoloKind(Solo!refreshMe(at))
BY DEF SoloKind, Solo!signIn, Solo!signUp, Solo!refreshMe, Solo!Entry, Solo!Loader

\* Drawing a trip always starts its loader.
LEMMA TripIsLoaded ==
  /\ \A role : Fleet!renderTripDetail \in Fleet!FleetHandlers(role)
  /\ Fleet!renderTripDetail.at = "trip" /\ Fleet!renderTripDetail.starts = "render"
  /\ Fleet!renderTripDetail.check = "outlet" /\ Fleet!renderTripDetail.ok = "detail"
BY DEF Fleet!FleetHandlers, Fleet!renderTripDetail, Fleet!FleetLoader, Fleet!Loader

\* Opening a shipment waits for its answer.
LEMMA ShipmentIsLoaded ==
  /\ Customer!openShipment.at = "shipment" /\ Customer!openShipment.starts = "open"
  /\ Customer!openShipment.ok = "detail"
BY DEF Customer!openShipment, Customer!Loader

-----------------------------------------------------------------------------
(* What steps do to the invariant.                                         *)

LEMMA Fields ==
  /\ \A h, u, i : /\ Sent(h, u, i).h = h /\ Sent(h, u, i).item = i
                  /\ Sent(h, u, i).user \in {u, None}
  /\ \A p, what, u, i : /\ Page(p, what, u, i).panel = p /\ Page(p, what, u, i).what = what
                        /\ Page(p, what, u, i).of = u /\ Page(p, what, u, i).item = i
BY DEF Sent, Page

LEMMA PageEdited ==
  ASSUME Shape, NEW what, NEW u
  PROVE  /\ [page EXCEPT !.what = what] = Page(page.panel, what, page.of, page.item)
         /\ [page EXCEPT !.what = what, !.of = u] = Page(page.panel, what, u, page.item)
<1> DEFINE Like(p, w, u1, i) == [panel: {p}, what: {w}, of: {u1}, item: {i}]
<1>1. \A p, w, u1, i : \A x \in Like(p, w, u1, i) : x = Page(p, w, u1, i)
  BY DEF Page
<1>2. \A p, w, u1, i : Page(p, w, u1, i) \in Like(p, w, u1, i)
  BY DEF Page
<1>3. page \in Like(page.panel, page.what, page.of, page.item)
  BY <1>2 DEF Shape
<1>4. /\ [page EXCEPT !.what = what] \in Like(page.panel, what, page.of, page.item)
      /\ [page EXCEPT !.what = what, !.of = u] \in Like(page.panel, what, u, page.item)
  BY <1>3
<1> HIDE DEF Like
<1> QED
  BY <1>1, <1>4

\* A request the panel waits for, and one that cannot disturb what is drawn.
Awaited(r) ==
  /\ r.h.at = page.panel /\ r.h.starts \in {"render", "open"}
  /\ r.h.ok \in {"page", "detail"} /\ r.item = page.item

Kind(h) == /\ app = "fleet" => FleetKind(h)
           /\ app = "customer" => CustomerKind(h)
           /\ app = "solo" => SoloKind(h)

Harmless(r) ==
  /\ r.user \in Someone /\ Kind(r.h)
  /\ app = "fleet" => /\ r.h # Fleet!renderTripDetail
                      /\ r.h.ok = "page" => r.user \in {session, None}

\* A step that draws nothing: it may send harmless requests, answer requests the
\* panel does not wait for, end the session, or leave the screen.
LEMMA NothingDrawn ==
  ASSUME TabInv, UNCHANGED <<app, page>>, session' \in Someone,
         live' = live \/ live' = None \/ page.panel # "shipment",
         held' = held \/ app = "customer",
         \A r \in flight' : r \in flight \/ Harmless(r),
         app = "fleet" /\ screen' = "app" => screen = "app" /\ session' = session,
         screen' = "app" /\ page.what = "loading" =>
           screen = "app" /\ \A r \in flight : Awaited(r) => r \in flight'
  PROVE  TabInv'
<1>1. Shape' /\ OwnHandlers'
  BY DEF TabInv, Shape, OwnHandlers, Harmless, Kind
<1>2. AnswersFit'
  BY DEF TabInv, AnswersFit, Harmless
<1>3. PagesFit'
  BY DEF TabInv, PagesFit
<1>4. OwnRowsOnly'
  BY DEF TabInv, OwnRowsOnly
<1>5. LoadingIsAwaited'
  BY DEF TabInv, LoadingIsAwaited, Awaited
<1>6. ActsOnWhatIsShown'
  BY DEF TabInv, ActsOnWhatIsShown, Detail, PagesFit
<1> QED
  BY <1>1, <1>2, <1>3, <1>4, <1>5, <1>6 DEF TabInv

LEMMA GuardStaysInFleet ==
  ASSUME NEW role, NEW p \in FleetPanels
  PROVE  Fleet!guardDecision(role, p) \notin {"shipment", "load"}
BY DEF FleetPanels, Fleet!ROUTES, Fleet!guardDecision, Fleet!ROLE_HOME

\* The fleet app draws a panel for u: what outlives it cannot fill it.
LEMMA PanelDrawn ==
  ASSUME TabInv, app = "fleet", NEW p, p \notin {"shipment", "load"}, NEW i, NEW u \in Users,
         NEW rest, rest \subseteq flight, renderPanel(p, i, u, rest),
         app' = app, held' = held, session' = u, screen' = "app"
  PROVE  TabInv'
<1> DEFINE loaders == {h \in Fleet!FleetHandlers(RoleOf(u)) : h.starts = "render" /\ h.at = p}
           waits == \E h \in loaders : h.ok \in {"page", "detail"}
<1>1. page' = Page(p, IF waits THEN "loading" ELSE "rows", u, i)
  BY DEF renderPanel
<1>2. flight' = {r \in rest : Outlives(r, p)} \cup {Sent(h, u, i) : h \in loaders}
  BY DEF renderPanel
<1>3. /\ page'.panel = p /\ page'.of = u /\ page'.item = i
      /\ page'.what = IF waits THEN "loading" ELSE "rows"
  BY <1>1, Fields
<1>4. \A r \in flight' : \/ r \in flight /\ Outlives(r, p)
                         \/ \E h \in loaders : r = Sent(h, u, i)
  BY <1>2
<1>5. \A h \in loaders : h.starts = "render" /\ h.at = p /\ FleetKind(h)
  BY FleetKinds
<1>6. \A r \in flight' :
        \/ r \in flight /\ FleetKind(r.h) /\ Outlives(r, p)
        \/ FleetKind(r.h) /\ r.h \in loaders /\ r.item = i /\ r.user \in {u, None}
  BY <1>4, <1>5, Fields DEF TabInv, OwnHandlers
<1> HIDE DEF loaders
<1>7. Shape' /\ OwnHandlers'
  <2>1. \A r \in flight' : r.user \in Someone /\ FleetKind(r.h)
    BY <1>6 DEF TabInv, Shape, Someone
  <2>2. page' = Page(page'.panel, page'.what, page'.of, page'.item)
    BY <1>1, <1>3
  <2> QED
    BY <2>1, <2>2 DEF TabInv, Shape, OwnHandlers, Someone
<1>8. AnswersFit'
  <2>1. \A r \in flight : r.h = Fleet!renderTripDetail => ~Outlives(r, p)
    BY TripIsLoaded DEF Outlives
  <2>2. \A r \in flight : FleetKind(r.h) /\ Outlives(r, p) /\ r.h.ok = "page" => r.h.at # p
    BY DEF Outlives, FleetKind
  <2>3. \A r \in flight' : r.h = Fleet!renderTripDetail => p = "trip" /\ r.item = i
    BY <1>5, <1>6, <2>1, TripIsLoaded
  <2>4. u # None
    BY NoneIsNothing
  <2> QED
    BY <1>3, <1>6, <2>1, <2>2, <2>3, <2>4 DEF AnswersFit
<1>9. waits => \E r \in flight' : /\ r.h.at = p /\ r.h.starts \in {"render", "open"}
                                  /\ r.h.ok \in {"page", "detail"} /\ r.item = i
  BY <1>2, <1>5, Fields
<1>10. p = "trip" => waits
  BY TripIsLoaded DEF loaders
<1> HIDE DEF waits
<1>11. PagesFit' /\ OwnRowsOnly' /\ LoadingIsAwaited'
  BY <1>3, <1>9 DEF PagesFit, OwnRowsOnly, LoadingIsAwaited
<1>12. ActsOnWhatIsShown'
  BY <1>3, <1>10 DEF ActsOnWhatIsShown, Detail
<1> QED
  BY <1>7, <1>8, <1>11, <1>12 DEF TabInv

\* A form of a trip draws the trip again.
LEMMA TripRedrawn ==
  ASSUME TabInv, app = "fleet", NEW i, NEW rest, rest \subseteq flight, redrawTrip(i, rest),
         UNCHANGED <<app, session, screen, held>>
  PROVE  TabInv'
<1> PICK new : new = Sent(Fleet!renderTripDetail, session, i)
  OBVIOUS
<1>1. new.h = Fleet!renderTripDetail /\ new.item = i /\ new.user \in {session, None}
  BY Fields
<1>2. page' = Page("trip", "loading", session, i)
  BY DEF redrawTrip
<1>3. flight' = {r \in rest : Outlives(r, "trip")} \cup {new}
  BY DEF redrawTrip
<1>4. page'.panel = "trip" /\ page'.of = session /\ page'.item = i /\ page'.what = "loading"
  BY <1>2, Fields
<1>5. FleetKind(new.h)
  BY <1>1, TripIsLoaded, FleetKinds
<1>6. \A r \in flight' : r = new \/ (r \in flight /\ Outlives(r, "trip") /\ FleetKind(r.h))
  BY <1>3 DEF TabInv, OwnHandlers
<1>7. Shape' /\ OwnHandlers'
  <2>1. page' = Page(page'.panel, page'.what, page'.of, page'.item)
    BY <1>2, <1>4
  <2>2. \A r \in flight' : r.user \in Someone /\ FleetKind(r.h)
    BY <1>1, <1>5, <1>6 DEF TabInv, Shape, Someone
  <2> QED
    BY <2>1, <2>2 DEF TabInv, Shape, OwnHandlers
<1>8. AnswersFit'
  <2>1. \A r \in flight : Outlives(r, "trip") => r.h # Fleet!renderTripDetail
    BY TripIsLoaded DEF Outlives
  <2>2. \A r \in flight' : r # new => r.h # Fleet!renderTripDetail /\ (r.h.ok = "page" => r.h.at # "trip")
    BY <1>6, <2>1 DEF FleetKind
  <2> QED
    BY <1>1, <1>4, <1>6, <2>2 DEF TabInv, AnswersFit
<1>9. PagesFit' /\ OwnRowsOnly'
  BY <1>4 DEF PagesFit, OwnRowsOnly
<1>10. LoadingIsAwaited'
  BY <1>1, <1>3, <1>4, TripIsLoaded DEF LoadingIsAwaited
<1>11. ActsOnWhatIsShown'
  BY <1>4 DEF ActsOnWhatIsShown, Detail
<1> QED
  BY <1>7, <1>8, <1>9, <1>10, <1>11 DEF TabInv

\* The page is loaded: nothing is shown and nothing but the check of the session
\* is in flight.
LEMMA Booted ==
  ASSUME NEW a \in {"fleet", "customer", "solo"}, NEW u \in Someone, Boot(a, u)
  PROVE  TabInv'
<1>1. /\ app' = a /\ session' = u /\ screen' # "app" /\ page' = NoPage /\ held' = None /\ live' = None
  BY DEF Boot
<1>2. \A r \in flight' : \E h \in {Fleet!restoreSession, Customer!loadMe("boot"), Solo!refreshMe("boot")} :
        /\ r = Sent(h, u, None)
        /\ a = "fleet" => h = Fleet!restoreSession
        /\ a = "customer" => h = Customer!loadMe("boot")
        /\ a = "solo" => h = Solo!refreshMe("boot")
  BY DEF Boot
<1>3. \A r \in flight' : /\ r.user \in Someone
                         /\ a = "fleet" => FleetKind(r.h) /\ r.h.starts = "enter"
                         /\ a = "customer" => CustomerKind(r.h)
                         /\ a = "solo" => SoloKind(r.h)
  BY <1>2, Fields, FleetEntryKinds, PortalEntryKinds, SoloEntryKinds DEF Someone
<1>4. page'.panel = "none" /\ page'.what = "error" /\ page'.item = None /\ page'.of = None
  BY <1>1, Fields DEF NoPage
<1>5. Shape'
  BY <1>1, <1>3, <1>4 DEF Shape, NoPage
<1>6. OwnHandlers' /\ PagesFit'
  BY <1>1, <1>3, <1>4 DEF OwnHandlers, PagesFit
<1>7. AnswersFit'
  BY <1>1, <1>3, TripIsLoaded DEF AnswersFit
<1>8. OwnRowsOnly' /\ LoadingIsAwaited' /\ ActsOnWhatIsShown'
  BY <1>1 DEF OwnRowsOnly, LoadingIsAwaited, ActsOnWhatIsShown
<1> QED
  BY <1>5, <1>6, <1>7, <1>8 DEF TabInv

-----------------------------------------------------------------------------
(* Steps that change what the page shows, but not in the fleet app's way.  *)

\* The rows, or the error, come where the panel was waiting for them or showing
\* others; everything else stays as it is.
LEMMA PanelFilled ==
  ASSUME TabInv, app # "solo", NEW what \in {"rows", "error"}, NEW u,
         page' = Page(page.panel, what, u, page.item),
         app = "fleet" /\ screen = "app" /\ what = "rows" => u = session,
         page.panel \in {"trip", "shipment"} => what = "error",
         UNCHANGED <<app, session, screen, held, live>>,
         \A r \in flight' : r \in flight
  PROVE  TabInv'
<1>1. /\ page'.panel = page.panel /\ page'.what = what
      /\ page'.of = u /\ page'.item = page.item
  BY Fields
<1>2. Shape' /\ OwnHandlers'
  <2>1. page' = Page(page'.panel, page'.what, page'.of, page'.item)
    BY <1>1
  <2> QED
    BY <2>1 DEF TabInv, Shape, OwnHandlers
<1>3. AnswersFit'
  BY <1>1 DEF TabInv, AnswersFit
<1>4. PagesFit'
  BY <1>1 DEF TabInv, PagesFit
<1>5. OwnRowsOnly' /\ LoadingIsAwaited'
  BY <1>1 DEF OwnRowsOnly, LoadingIsAwaited
<1>6. ActsOnWhatIsShown'
  BY <1>1 DEF TabInv, PagesFit, ActsOnWhatIsShown, Detail
<1> QED
  BY <1>2, <1>3, <1>4, <1>5, <1>6 DEF TabInv

\* The portal draws something that is no shipment with its rows and waits for
\* what it has asked for.
LEMMA PortalDrawn ==
  ASSUME TabInv, app = "customer", app' = app, session' = session,
         NEW p, p \notin {"trip", "load"}, NEW what \in {"rows", "loading"}, NEW u, NEW i,
         page' = Page(p, what, u, i), p # "shipment" => i = None,
         p = "shipment" /\ what = "rows" => live' \in {i, None},
         what = "loading" => \E r \in flight' : /\ r.h.at = p /\ r.h.starts \in {"render", "open"}
                                               /\ r.h.ok \in {"page", "detail"} /\ r.item = i,
         \A r \in flight' : r \in flight \/ (r.user \in Someone /\ CustomerKind(r.h))
  PROVE  TabInv'
<1>1. page'.panel = p /\ page'.what = what /\ page'.of = u /\ page'.item = i
  BY Fields
<1>2. Shape' /\ OwnHandlers'
  <2>1. page' = Page(page'.panel, page'.what, page'.of, page'.item)
    BY <1>1
  <2> QED
    BY <2>1 DEF TabInv, Shape, OwnHandlers
<1>3. AnswersFit' /\ PagesFit' /\ OwnRowsOnly' /\ LoadingIsAwaited'
  BY <1>1 DEF AnswersFit, PagesFit, OwnRowsOnly, LoadingIsAwaited
<1>4. ActsOnWhatIsShown'
  BY <1>1 DEF ActsOnWhatIsShown, Detail
<1> QED
  BY <1>2, <1>3, <1>4 DEF TabInv

LEMMA PortalShows ==
  ASSUME TabInv, app = "customer", app' = app, session' = session,
         NEW p \in Customer!CustomerPanels, NEW u \in Someone,
         NEW rest, rest \subseteq flight, showPanel(p, u, rest)
  PROVE  TabInv'
<1> DEFINE loaders == {h \in Customer!CustomerHandlers : h.starts = "render" /\ h.at = p}
           what == IF loaders = {} THEN "rows" ELSE "loading"
<1>1. page' = Page(p, what, u, None) /\ flight' = rest \cup {Sent(h, u, None) : h \in loaders}
  BY DEF showPanel
<1>2. p \notin {"trip", "load", "shipment"}
  BY DEF Customer!CustomerPanels
<1>3. \A h \in loaders : CustomerKind(h) /\ h.starts = "render" /\ h.at = p /\ h.ok = "page"
  BY PortalKinds DEF CustomerKind
<1>4. \A r \in flight' : r \in flight \/ (r.user \in Someone /\ CustomerKind(r.h))
  BY <1>1, <1>3, Fields DEF Someone
<1>5. what = "loading" =>
        \E r \in flight' : /\ r.h.at = p /\ r.h.starts \in {"render", "open"}
                           /\ r.h.ok \in {"page", "detail"} /\ r.item = None
  <2> SUFFICES ASSUME loaders # {}
               PROVE  \E r \in flight' : /\ r.h.at = p /\ r.h.starts \in {"render", "open"}
                                         /\ r.h.ok \in {"page", "detail"} /\ r.item = None
    OBVIOUS
  <2>1. PICK h \in loaders : TRUE
    OBVIOUS
  <2>2. Sent(h, u, None) \in flight'
    BY <1>1
  <2> QED
    BY <1>3, <2>2, Fields
<1>6. what \in {"rows", "loading"}
  OBVIOUS
<1> HIDE DEF what, loaders
<1> QED
  BY <1>1, <1>2, <1>4, <1>5, <1>6, PortalDrawn

LEMMA ShipmentOpened ==
  ASSUME TabInv, app = "customer", app' = app, session' = session, NEW i,
         NEW rest, rest \subseteq flight, openShipment(i, rest)
  PROVE  TabInv'
<1> PICK new : new = Sent(Customer!openShipment, session, i)
  OBVIOUS
<1>1. /\ new.h = Customer!openShipment /\ new.item = i /\ new.user \in Someone
      /\ CustomerKind(new.h)
  BY Fields, PortalKinds DEF TabInv, Shape, Someone
<1>2. page' = Page("shipment", "loading", session, i) /\ flight' = rest \cup {new}
  BY DEF openShipment
<1>3. new.h.at = "shipment" /\ new.h.starts = "open" /\ new.h.ok = "detail"
  BY <1>1, ShipmentIsLoaded
<1> QED
  BY <1>1, <1>2, <1>3, PortalDrawn

\* The solo app draws a panel from what it holds.
LEMMA SoloDrawn ==
  ASSUME TabInv, app = "solo", app' = app, session' = session,
         NEW p, p \notin {"trip", "shipment"}, NEW u, render(p, u),
         \A r \in flight' : r \in flight
  PROVE  TabInv'
<1> PICK i : i = IF p = "load" THEN held' ELSE None
  OBVIOUS
<1>1. page' = Page(p, "rows", u, i)
  BY DEF render
<1>2. page'.panel = p /\ page'.what = "rows" /\ page'.of = u /\ page'.item = i
  BY <1>1, Fields
<1>3. Shape' /\ OwnHandlers'
  <2>1. page' = Page(page'.panel, page'.what, page'.of, page'.item)
    BY <1>1, <1>2
  <2> QED
    BY <2>1 DEF TabInv, Shape, OwnHandlers
<1>4. AnswersFit' /\ PagesFit' /\ OwnRowsOnly' /\ LoadingIsAwaited'
  BY <1>2 DEF AnswersFit, PagesFit, OwnRowsOnly, LoadingIsAwaited
<1>5. ActsOnWhatIsShown'
  BY <1>2 DEF ActsOnWhatIsShown, Detail
<1> QED
  BY <1>3, <1>4, <1>5 DEF TabInv

-----------------------------------------------------------------------------
(* What the person does.                                                   *)

LEMMA HandlersOfTheApp ==
  ASSUME TabInv, NEW h \in Handlers
  PROVE  Kind(h)
<1>1. app \in {"fleet", "customer", "solo"}
  BY DEF TabInv, Shape
<1>2. CASE app = "fleet"
  BY <1>2, FleetKinds DEF Handlers, Kind
<1>3. CASE app = "customer"
  BY <1>3, PortalKinds DEF Handlers, Kind
<1>4. CASE app = "solo"
  BY <1>4, SoloKinds DEF Handlers, Kind
<1> QED
  BY <1>1, <1>2, <1>3, <1>4

\* A request with the session's token that neither fills a panel nor draws a trip.
LEMMA SentIsHarmless ==
  ASSUME TabInv, NEW h, NEW i, Kind(h), app = "fleet" => h # Fleet!renderTripDetail
  PROVE  Harmless(Sent(h, session, i))
BY Fields DEF TabInv, Shape, Harmless, Someone

LEMMA SubmitEntryKeeps == ASSUME TabInv, SubmitEntry PROVE TabInv'
<1>1. PICK u \in Users, h \in {Fleet!login, Fleet!register, Customer!onSubmitLogin,
                               Customer!onSubmitSignup, Solo!signIn, Solo!signUp} :
        /\ flight' = flight \cup {Sent(h, u, None)}
        /\ app = "fleet" => h \in {Fleet!login, Fleet!register}
        /\ app = "customer" => h \in {Customer!onSubmitLogin, Customer!onSubmitSignup}
        /\ app = "solo" => h \in {Solo!signIn, Solo!signUp}
  BY DEF SubmitEntry, TabInv, Shape
<1>2. Kind(h) /\ (app = "fleet" => h.starts = "enter" /\ h.ok = "enter")
  BY <1>1, FleetEntryKinds, PortalEntryKinds, SoloEntryKinds DEF Kind, FleetKind
<1>3. Harmless(Sent(h, u, None))
  BY <1>2, Fields, TripIsLoaded DEF Harmless, Someone
<1> QED
  BY <1>1, <1>3, NothingDrawn DEF SubmitEntry, TabInv, Shape

LEMMA ReloadKeeps == ASSUME TabInv, Reload PROVE TabInv'
BY Booted DEF Reload, TabInv, Shape

LEMMA LogoutKeeps == ASSUME TabInv, logout PROVE TabInv'
BY NothingDrawn DEF logout, Someone

LEMMA RouteKeeps == ASSUME TabInv, route PROVE TabInv'
<1>1. PICK p \in FleetPanels :
        \E i : renderPanel(Fleet!guardDecision(Role[session], p), i, session, flight)
  BY DEF route
<1>2. session \in Users
  BY DEF route, TabInv, Shape, Someone
<1>3. Fleet!guardDecision(Role[session], p) \notin {"shipment", "load"}
  BY GuardStaysInFleet
<1> QED
  BY <1>1, <1>2, <1>3, PanelDrawn DEF route

LEMMA ShowPanelKeeps == ASSUME TabInv, ShowPanel PROVE TabInv'
BY PortalShows DEF ShowPanel, TabInv, Shape

LEMMA OpenShipmentKeeps == ASSUME TabInv, OpenShipment PROVE TabInv'
BY ShipmentOpened DEF OpenShipment

LEMMA OpenPanelKeeps == ASSUME TabInv, OpenPanel PROVE TabInv'
<1>1. PICK p \in Solo!SoloPanels : flight' = flight \cup {Sent(Solo!openPanel(p), session, None)}
  BY DEF OpenPanel
<1>2. Harmless(Sent(Solo!openPanel(p), session, None))
  <2>1. p \notin {"trip", "shipment"}
    BY DEF Solo!SoloPanels
  <2> QED
    BY <2>1, SoloKinds, SentIsHarmless DEF Kind, OpenPanel
<1> QED
  BY <1>1, <1>2, NothingDrawn DEF OpenPanel, TabInv, Shape

LEMMA OpenLoadKeeps == ASSUME TabInv, OpenLoad PROVE TabInv'
<1>1. PICK i : flight' = flight \cup {Sent(Solo!openLoad, session, i)}
  BY DEF OpenLoad
<1>2. Harmless(Sent(Solo!openLoad, session, i))
  BY SoloKinds, SentIsHarmless DEF Kind, OpenLoad
<1> QED
  BY <1>1, <1>2, NothingDrawn DEF OpenLoad, TabInv, Shape

LEMMA PressKeeps == ASSUME TabInv, Press PROVE TabInv'
<1> DEFINE i == IF app = "solo" THEN None ELSE page.item
<1>1. PICK h \in Handlers : h.starts = "press" /\ flight' = flight \cup {Sent(h, session, i)}
  BY DEF Press
<1> HIDE DEF i
<1>2. Harmless(Sent(h, session, i))
  BY <1>1, HandlersOfTheApp, TripIsLoaded, SentIsHarmless
<1> QED
  BY <1>1, <1>2, NothingDrawn DEF Press, TabInv, Shape

LEMMA StreamEndsKeeps == ASSUME TabInv, StreamEnds PROVE TabInv'
BY NothingDrawn DEF StreamEnds, TabInv, Shape

-----------------------------------------------------------------------------
(* Answers.                                                                *)

LEMMA KindInFlight ==
  ASSUME TabInv, NEW r \in flight
  PROVE  Kind(r.h) /\ r.user \in Someone /\ app \in {"fleet", "customer", "solo"}
BY DEF TabInv, OwnHandlers, Shape, Kind

LEMMA EnterFleetKeeps ==
  ASSUME TabInv, NEW r \in flight, r.user # None, EnterFleet(r, flight \ {r})
  PROVE  TabInv'
<1>1. r.user \in Users
  BY KindInFlight DEF Someone
<1>2. CASE \E a \in {"customer", "solo"} : Boot(a, r.user)
  BY <1>1, <1>2, Booted DEF Someone
<1>3. CASE \E p \in FleetPanels \ {"trip"} :
             renderPanel(Fleet!guardDecision(Role[r.user], p), None, r.user, flight \ {r})
           /\ session' = r.user /\ screen' = "app" /\ UNCHANGED <<app, held>>
  <2>1. PICK p \in FleetPanels :
          renderPanel(Fleet!guardDecision(Role[r.user], p), None, r.user, flight \ {r})
    BY <1>3
  <2>2. Fleet!guardDecision(Role[r.user], p) \notin {"shipment", "load"}
    BY GuardStaysInFleet
  <2> QED
    BY <1>1, <1>3, <2>1, <2>2, PanelDrawn DEF EnterFleet
<1> QED
  BY <1>2, <1>3 DEF EnterFleet

LEMMA EnterPortalKeeps ==
  ASSUME TabInv, NEW r \in flight, EnterPortal(r, flight \ {r})
  PROVE  TabInv'
<1>1. PICK p : p = IF r.h.at = "signup" THEN "book" ELSE "shipments"
  OBVIOUS
<1>2. p \in Customer!CustomerPanels /\ showPanel(p, session, flight \ {r})
  BY <1>1 DEF EnterPortal, Customer!CustomerPanels
<1> QED
  BY <1>2, PortalShows DEF EnterPortal, TabInv, Shape

LEMMA EnterSoloKeeps ==
  ASSUME TabInv, NEW r \in flight, EnterSolo(r, flight \ {r})
  PROVE  TabInv'
<1>1. flight' = (flight \ {r}) \cup {Sent(Solo!openPanel("feed"), session, None)}
  BY DEF EnterSolo
<1>2. Harmless(Sent(Solo!openPanel("feed"), session, None))
  BY SoloKinds, SentIsHarmless DEF Kind, EnterSolo
<1>3. page.what # "loading"
  BY DEF TabInv, PagesFit, EnterSolo
<1> QED
  BY <1>1, <1>2, <1>3, NothingDrawn DEF EnterSolo, TabInv, Shape

LEMMA TakeTokenKeeps ==
  ASSUME TabInv, NEW r \in flight, TakeToken(r, flight \ {r})
  PROVE  TabInv'
<1> PICK h : h = IF app = "solo" THEN Solo!refreshMe(r.h.at) ELSE Customer!loadMe(r.h.at)
  OBVIOUS
<1>1. flight' = (flight \ {r}) \cup {Sent(h, r.user, None)} /\ r.h.ok = "token"
  BY DEF TakeToken
<1>2. app # "fleet"
  BY <1>1, KindInFlight DEF Kind, FleetKind
<1>3. Kind(h)
  BY <1>2, KindInFlight, SoloEntryKinds, PortalEntryKinds DEF Kind, SoloKind
<1>4. Harmless(Sent(h, r.user, None))
  BY <1>2, <1>3, KindInFlight, Fields DEF Harmless, Someone
<1>5. ~Awaited(r)
  BY <1>1 DEF Awaited
<1> QED
  BY <1>1, <1>2, <1>4, <1>5, KindInFlight, NothingDrawn DEF TakeToken

LEMMA FillKeeps ==
  ASSUME TabInv, NEW r \in flight, r.user # None, Fill(r, flight \ {r})
  PROVE  TabInv'
<1>1. CASE page.panel = r.h.at
  <2>1. page' = Page(page.panel, "rows", r.user, page.item)
    BY <1>1, PageEdited DEF Fill, TabInv
  <2>2. page.panel \notin {"trip", "shipment"}
    BY <1>1, KindInFlight DEF Fill, Kind, FleetKind, CustomerKind, TabInv, PagesFit
  <2>3. app = "fleet" /\ screen = "app" => r.user = session
    BY <1>1 DEF Fill, TabInv, AnswersFit
  <2> QED
    BY <2>1, <2>2, <2>3, PanelFilled DEF Fill
<1>2. CASE page.panel # r.h.at
  BY <1>2, NothingDrawn DEF Fill, Awaited, TabInv, Shape
<1> QED
  BY <1>1, <1>2

LEMMA NoteKeeps ==
  ASSUME TabInv, NEW r \in flight, Note(r, flight \ {r})
  PROVE  TabInv'
<1>1. ~Awaited(r)
  BY DEF Note, Awaited
<1> QED
  BY <1>1, NothingDrawn DEF Note, TabInv, Shape

LEMMA RefetchKeeps ==
  ASSUME TabInv, NEW r \in flight, Refetch(r, flight \ {r})
  PROVE  TabInv'
<1> DEFINE lists == {g \in Handlers : g.starts = "render" /\ g.at = r.h.at /\ g.ok = "page"}
<1>1. flight' = (flight \ {r}) \cup {Sent(h, session, None) : h \in lists}
  BY DEF Refetch
<1>2. \A h \in lists : Kind(h) /\ h # Fleet!renderTripDetail
  BY HandlersOfTheApp, TripIsLoaded
<1>3. \A q \in flight' : q \in flight \/ Harmless(q)
  BY <1>1, <1>2, SentIsHarmless
<1>4. ~Awaited(r) /\ app # "solo" /\ r.h.ok \in {"reload", "awarded"}
  BY DEF Refetch, Awaited
<1>5. CASE app = "customer" /\ page.panel = r.h.at
  <2>1. page' = Page(page.panel, "loading", page.of, page.item)
    BY <1>5, PageEdited DEF Refetch, TabInv
  <2>2. CustomerKind(r.h)
    BY <1>5, KindInFlight DEF Kind
  <2>3. page.panel \notin {"trip", "load", "shipment"} /\ page.item = None
    BY <1>4, <1>5, <2>2 DEF CustomerKind, TabInv, PagesFit
  <2>4. PICK g \in lists : TRUE
    BY <1>4, <1>5, <2>2 DEF CustomerKind, Handlers
  <2>5. Sent(g, session, None) \in flight' /\ g.starts = "render" /\ g.at = r.h.at /\ g.ok = "page"
    BY <1>1, <2>4
  <2>6. \A q \in flight' : q \in flight \/ (q.user \in Someone /\ CustomerKind(q.h))
    BY <1>3, <1>5 DEF Harmless, Kind
  <2> HIDE DEF lists
  <2>7. app = "customer" /\ app' = app /\ session' = session
    BY <1>5 DEF Refetch
  <2>8. \E q \in flight' : /\ q.h.at = page.panel /\ q.h.starts \in {"render", "open"}
                           /\ q.h.ok \in {"page", "detail"} /\ q.item = page.item
    BY <1>5, <2>3, <2>5, Fields
  <2>9. page.panel \notin {"trip", "load"} /\ page.panel # "shipment"
    BY <2>3
  <2> QED
    BY <2>1, <2>3, <2>6, <2>7, <2>8, <2>9, PortalDrawn
<1>6. CASE ~(app = "customer" /\ page.panel = r.h.at)
  <2>1. page' = page /\ (held' = held \/ app = "customer")
    BY <1>6, KindInFlight DEF Refetch, Kind, FleetKind
  <2>2. \A q \in flight : Awaited(q) => q \in flight'
    BY <1>1, <1>4
  <2> HIDE DEF lists
  <2> QED
    BY <1>3, <2>1, <2>2, NothingDrawn DEF Refetch, TabInv, Shape
<1> QED
  BY <1>5, <1>6

LEMMA DrawTripKeeps ==
  ASSUME TabInv, NEW r \in flight, r.user # None, DrawTrip(r, flight \ {r})
  PROVE  TabInv'
<1>1. app = "fleet" /\ r.h = Fleet!renderTripDetail /\ UNCHANGED <<app, session, screen>>
  BY DEF DrawTrip
<1>2. page' = Page(page.panel, "rows", r.user, page.item)
  BY PageEdited DEF DrawTrip, TabInv
<1>3. /\ page'.panel = page.panel /\ page'.what = "rows"
      /\ page'.of = r.user /\ page'.item = page.item
  BY <1>2, Fields
<1>4. /\ page.panel = "trip" /\ r.item = page.item
      /\ screen = "app" => r.user = session /\ session # None
  BY <1>1 DEF TabInv, AnswersFit
<1>5. \A q \in flight' : \/ q \in flight
                         \/ /\ q.user \in Someone /\ FleetKind(q.h)
                            /\ q.h # Fleet!renderTripDetail /\ q.h.ok = "part"
  <2>1. \A h \in Handlers : h.starts = "detail" => FleetKind(h) /\ h.ok = "part"
    BY <1>1, HandlersOfTheApp DEF Kind, FleetKind
  <2>2. \A q \in flight' : \/ q \in flight
                           \/ \E h \in Handlers : h.starts = "detail" /\ q = Sent(h, session, r.item)
    BY DEF DrawTrip
  <2> QED
    BY <2>1, <2>2, Fields, TripIsLoaded DEF TabInv, Shape, Someone
<1>6. Shape' /\ OwnHandlers'
  <2>1. page' = Page(page'.panel, page'.what, page'.of, page'.item)
    BY <1>2, <1>3
  <2> QED
    BY <1>1, <1>5, <2>1 DEF TabInv, Shape, OwnHandlers
<1>7. AnswersFit'
  BY <1>1, <1>3, <1>4, <1>5 DEF TabInv, AnswersFit
<1>8. PagesFit' /\ OwnRowsOnly' /\ LoadingIsAwaited'
  BY <1>1, <1>3, <1>4 DEF PagesFit, OwnRowsOnly, LoadingIsAwaited
<1>9. ActsOnWhatIsShown'
  BY <1>1, <1>3, <1>4 DEF DrawTrip, ActsOnWhatIsShown, Detail, RoleOf
<1> QED
  BY <1>6, <1>7, <1>8, <1>9 DEF TabInv

LEMMA DrawShipmentKeeps ==
  ASSUME TabInv, NEW r \in flight, DrawShipment(r, flight \ {r})
  PROVE  TabInv'
<1>1. CASE page.panel = "shipment"
  <2>1. page' = Page("shipment", "rows", r.user, r.item) /\ live' \in {r.item, None}
    BY <1>1 DEF DrawShipment, renderShipment, openLiveChannel
  <2> QED
    BY <2>1, PortalDrawn DEF DrawShipment
<1>2. CASE page.panel # "shipment"
  <2>1. page' = page /\ ~Awaited(r)
    BY <1>2, ShipmentIsLoaded DEF DrawShipment, renderShipment, Awaited
  <2> QED
    BY <1>2, <2>1, NothingDrawn DEF DrawShipment, TabInv, Shape
<1> QED
  BY <1>1, <1>2

LEMMA ReopenShipmentKeeps ==
  ASSUME TabInv, NEW r \in flight, ReopenShipment(r, flight \ {r})
  PROVE  TabInv'
<1>1. app = "customer"
  BY KindInFlight DEF ReopenShipment, Kind, FleetKind, SoloKind
<1> QED
  BY <1>1, ShipmentOpened DEF ReopenShipment

LEMMA BookedKeeps ==
  ASSUME TabInv, NEW r \in flight, Booked(r, flight \ {r})
  PROVE  TabInv'
<1>1. app = "customer"
  BY KindInFlight DEF Booked, Kind, FleetKind, SoloKind
<1>2. CASE showPanel("offers", session, flight \ {r})
  <2>1. "offers" \in Customer!CustomerPanels
    BY DEF Customer!CustomerPanels
  <2> QED
    BY <1>1, <1>2, <2>1, PortalShows DEF Booked, TabInv, Shape
<1>3. CASE /\ page' = Page("shipment", "rows", r.user, held')
           /\ live' \in {held', None} /\ flight' = flight \ {r}
  <2> PICK i : i = held'
    OBVIOUS
  <2> QED
    BY <1>1, <1>3, PortalDrawn DEF Booked
<1> QED
  BY <1>2, <1>3 DEF Booked, openLiveChannel

LEMMA FetchAgainKeeps ==
  ASSUME TabInv, NEW r \in flight, FetchAgain(r, flight \ {r})
  PROVE  TabInv'
<1>1. app = "solo" /\ page.what # "loading" /\ SoloKind(r.h)
  BY KindInFlight DEF FetchAgain, Kind, TabInv, PagesFit
<1>2. Harmless(Sent(Solo!RefetchLoad, session, held))
  BY <1>1, SoloKinds, SentIsHarmless DEF Kind
<1>3. Harmless(Sent(Solo!Refetch(r.h.at), session, None))
  BY <1>1, SoloKinds, SentIsHarmless DEF Kind, SoloKind
<1> QED
  BY <1>1, <1>2, <1>3, NothingDrawn DEF FetchAgain, TabInv, Shape

LEMMA DrawLoadKeeps ==
  ASSUME TabInv, NEW r \in flight, DrawLoad(r, flight \ {r})
  PROVE  TabInv'
BY SoloDrawn DEF DrawLoad

LEMMA DrawSoloKeeps ==
  ASSUME TabInv, NEW r \in flight, DrawSolo(r, flight \ {r})
  PROVE  TabInv'
<1>1. r.h.at \notin {"trip", "shipment"}
  BY KindInFlight DEF DrawSolo, Kind, SoloKind
<1> QED
  BY <1>1, SoloDrawn DEF DrawSolo

LEMMA EntryFailsKeeps ==
  ASSUME TabInv, NEW r \in flight, NEW refused \in BOOLEAN, EntryFails(r, flight \ {r}, refused)
  PROVE  TabInv'
<1>1. ~Awaited(r) /\ flight' = flight \ {r} /\ UNCHANGED <<app, page, held, live>>
  BY DEF EntryFails, Awaited
<1>2. session' \in Someone /\ (screen' = "app" => screen = "app")
  BY DEF EntryFails, TabInv, Shape, Someone
<1>3. app = "fleet" /\ screen' = "app" => session' = session
  BY KindInFlight DEF EntryFails, Kind, FleetKind
<1> QED
  BY <1>1, <1>2, <1>3, NothingDrawn

LEMMA ExpiredKeeps ==
  ASSUME TabInv, NEW r \in flight, handleExpired(flight \ {r})
  PROVE  TabInv'
BY NothingDrawn DEF handleExpired, Someone

LEMMA FailedKeeps ==
  ASSUME TabInv, NEW r \in flight, Failed(r, flight \ {r})
  PROVE  TabInv'
<1>1. CASE app = "solo"
  <2> PICK p : p = IF r.h = Solo!openLoad THEN "feed" ELSE r.h.at
    OBVIOUS
  <2>1. p \notin {"trip", "shipment"}
    BY <1>1, KindInFlight DEF Kind, SoloKind
  <2>2. render(p, session)
    BY <1>1 DEF Failed
  <2> QED
    BY <1>1, <2>1, <2>2, SoloDrawn DEF Failed
<1> DEFINE waiting == /\ page.panel = r.h.at /\ r.h.starts \in {"render", "open"}
                      /\ r.h.ok \in {"page", "detail"}
<1>2. CASE app # "solo" /\ waiting
  <2>1. page' = Page(page.panel, "error", page.of, page.item)
    BY <1>2, PageEdited DEF Failed, TabInv
  <2> QED
    BY <1>2, <2>1, PanelFilled DEF Failed
<1>3. CASE app # "solo" /\ ~waiting
  <2>1. page' = page /\ ~Awaited(r)
    BY <1>3 DEF Failed, Awaited
  <2> QED
    BY <1>3, <2>1, NothingDrawn DEF Failed, TabInv, Shape
<1> QED
  BY <1>1, <1>2, <1>3

LEMMA AnswerKeeps == ASSUME TabInv, Answer PROVE TabInv'
<1>1. PICK r \in flight : GoodAnswer(r) \/ BadAnswer(r)
  BY DEF Answer
<1>2. CASE GoodAnswer(r)
  <2>1. r.user # None
    BY <1>2 DEF GoodAnswer
  <2> QED
    BY <1>2, <2>1, EnterFleetKeeps, EnterPortalKeeps, EnterSoloKeeps, TakeTokenKeeps, FillKeeps,
       NoteKeeps, RefetchKeeps, DrawTripKeeps, TripRedrawn, DrawShipmentKeeps,
       ReopenShipmentKeeps, BookedKeeps, FetchAgainKeeps, DrawLoadKeeps, DrawSoloKeeps
       DEF GoodAnswer, RedrawTrip
<1>3. CASE BadAnswer(r)
  BY <1>3, EntryFailsKeeps, ExpiredKeeps, FailedKeeps DEF BadAnswer
<1> QED
  BY <1>1, <1>2, <1>3

-----------------------------------------------------------------------------
(* The theorems.                                                           *)

LEMMA InitTab == TabInit => TabInv
<1> SUFFICES ASSUME TabInit
             PROVE  TabInv
  OBVIOUS
<1>1. page.panel = "none" /\ page.what = "error" /\ page.of = None /\ page.item = None
  BY Fields DEF TabInit, NoPage
<1>2. Shape
  BY <1>1 DEF TabInit, Shape, NoPage, Someone
<1> QED
  BY <1>1, <1>2 DEF TabInit, TabInv, OwnHandlers, AnswersFit, PagesFit, OwnRowsOnly,
                    LoadingIsAwaited, ActsOnWhatIsShown

LEMMA TabStep == TabInv /\ [TabNext]_tab => TabInv'
<1> SUFFICES ASSUME TabInv, [TabNext]_tab
             PROVE  TabInv'
  OBVIOUS
<1>1. CASE UNCHANGED tab
  BY <1>1 DEF tab, TabInv, Shape, OwnHandlers, AnswersFit, PagesFit, OwnRowsOnly,
              LoadingIsAwaited, ActsOnWhatIsShown, Detail
<1> QED
  BY <1>1, SubmitEntryKeeps, ReloadKeeps, LogoutKeeps, RouteKeeps, ShowPanelKeeps,
     OpenShipmentKeeps, OpenPanelKeeps, OpenLoadKeeps, PressKeeps, AnswerKeeps, StreamEndsKeeps
     DEF TabNext

LEMMA TabHolds == TabSpec => []TabInv
BY InitTab, TabStep, PTL DEF TabSpec

\* Whoever uses the fleet app sees only rows fetched with the token of the session
\* that is open, for any number of people, trips and requests in flight, however
\* late the answers of an earlier panel or session come.
THEOREM NobodySeesAnothersRows == TabSpec => []OwnRowsOnly
<1>1. TabInv => OwnRowsOnly
  BY DEF TabInv
<1> QED
  BY <1>1, TabHolds, PTL

\* A panel of the fleet app or the portal that says it is loading has a request
\* under way that will take the word away, whatever is answered, lost or redrawn.
THEOREM LoadingEnds == TabSpec => []LoadingIsAwaited
<1>1. TabInv => LoadingIsAwaited
  BY DEF TabInv
<1> QED
  BY <1>1, TabHolds, PTL

\* What a page acts on is what it shows: the trip a driver is assigned to, the load
\* a bid is made for, the shipment positions are drawn into.
THEOREM PagesActOnWhatTheyShow == TabSpec => []ActsOnWhatIsShown
<1>1. TabInv => ActsOnWhatIsShown
  BY DEF TabInv
<1> QED
  BY <1>1, TabHolds, PTL

=============================================================================
