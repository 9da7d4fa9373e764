--------------------------- MODULE ReviewsProofs ---------------------------
(***************************************************************************)
(* Proofs about Reviews for any number of participants, actions and        *)
(* overlapping requests, any cap and any disclosure window.                *)
(***************************************************************************)
EXTENDS Reviews, TLAPS, FiniteSetTheorems

\* One disjunct per action: what the proofs split on.
LEMMA StepCases ==
  ASSUME Next
  PROVE  \/ Tick
         \/ \E r \in Requests, a \in Actions : ReadToDeliver(r, a)
         \/ \E r \in Requests : CommitDelivery(r)
         \/ \E r \in Requests : planReviewPrompts(r)
         \/ \E r \in Requests : bumpSampling(r)
         \/ \E r \in Requests : NotSampled(r)
         \/ \E r \in Requests : CreatePrompt(r)
         \/ \E r \in Requests : ResetSampling(r)
         \/ \E r \in Requests, a \in Actions, s \in Sides, n \in Ratings :
              ReadPrompt(r, a, s, n)
         \/ \E r \in Requests : CommitReview(r)
         \/ \E r \in Requests, p \in Participants : ReadReviews(r, p)
         \/ \E r \in Requests : AnswerSummary(r)
         \/ \E r \in Requests : Crash(r)
BY Zenon DEF Next

-----------------------------------------------------------------------------
(* Type correctness.                                                       *)

LEMMA NextSideIsASide ==
  ASSUME NEW todo \in SUBSET Sides, todo # {}
  PROVE  NextSide(todo) \in todo /\ NextSide(todo) \in Sides
BY DEF NextSide, Sides

LEMMA InitTypeOK == Init => TypeOK
BY DEF Init, TypeOK, NoPrompt, NoReview, PROMPT_STATES, Request

\* What the loop of recordCompletedAction leaves in the request.
LEMMA GoOnType ==
  ASSUME TypeOK, NEW r \in Requests, req[r].op \in {"draw", "reset"}, GoOn(r)
  PROVE  req' \in [Requests -> Request]
<1>1. req[r].todo \in SUBSET Sides /\ req[r].action \in Actions /\ req[r].discloseAt \in Nat
  BY DEF TypeOK, Request, Idle
<1> DEFINE left == req[r].todo \ {NextSide(req[r].todo)}
           on == [op |-> "ask", action |-> req[r].action, todo |-> left,
                  discloseAt |-> req[r].discloseAt]
<1>2. left \in SUBSET Sides
  BY <1>1
<1>3. on \in Request
  BY <1>1, <1>2 DEF Request
<1>4. Idle \in Request
  BY DEF Request
<1> HIDE DEF on
<1>5. req' = [req EXCEPT ![r] = IF left = {} THEN Idle ELSE on]
  BY DEF GoOn, on
<1> QED BY <1>3, <1>4, <1>5 DEF TypeOK

LEMMA GoOnKeepsOthers ==
  ASSUME TypeOK, NEW r \in Requests, GoOn(r)
  PROVE  /\ \A q \in Requests : q # r => req'[q] = req[q]
         /\ req'[r].op \in {"idle", "ask"}
         /\ \A q \in Requests : req'[q].op = "summary" => req'[q] = req[q]
<1>1. /\ \A q \in Requests : q # r => req'[q] = req[q]
      /\ req'[r].op \in {"idle", "ask"}
  BY DEF GoOn, TypeOK, Idle
<1> QED BY <1>1

LEMMA AskedIsARater ==
  ASSUME TypeOK, NEW r \in Requests, req[r].op \in {"ask", "draw", "reset"}
  PROVE  /\ req[r].action \in Actions
         /\ req[r].todo \in SUBSET Sides
         /\ req[r].discloseAt \in Nat
         /\ NextSide(req[r].todo) \in Sides
         /\ Asked(r) \in Participants
<1>1. /\ req[r].action \in Actions
      /\ req[r].todo \in SUBSET Sides
      /\ req[r].discloseAt \in Nat
  BY DEF TypeOK, Request, Idle
<1>2. NextSide(req[r].todo) \in Sides
  BY DEF NextSide, Sides
<1> QED BY <1>1, <1>2, RaterAssumption DEF Asked

LEMMA DeliverType ==
  ASSUME TypeOK, NEW r \in Requests, req[r].op \in {"deliver", "record"}
  PROVE  /\ req[r].action \in Actions
         /\ [req[r] EXCEPT !.op = "record"].op = "record"
         /\ [req[r] EXCEPT !.op = "record"].action = req[r].action
<1>1. req[r] \in Request
  BY DEF TypeOK
<1>2. req[r] \in [op: {"deliver", "record"}, action: Actions]
  BY <1>1 DEF Request, Idle
<1> QED BY <1>2

LEMMA SubmitType ==
  ASSUME TypeOK, NEW r \in Requests, req[r].op = "submit"
  PROVE  req[r].action \in Actions /\ req[r].side \in Sides /\ req[r].rating \in Ratings
<1>1. req[r] \in Request
  BY DEF TypeOK
<1>2. req[r] \in [op: {"submit"}, action: Actions, side: Sides, rating: Ratings]
  BY <1>1 DEF Request, Idle
<1> QED BY <1>2

LEMMA StepTypeOK ==
  ASSUME TypeOK, [Next]_vars
  PROVE  TypeOK'
<1>1. CASE Tick
  BY <1>1 DEF Tick, TypeOK, tables, history
<1>2. ASSUME NEW r \in Requests, NEW a \in Actions, ReadToDeliver(r, a)
      PROVE  TypeOK'
  BY <1>2 DEF ReadToDeliver, TypeOK, tables, history, Request
<1>3. ASSUME NEW r \in Requests, CommitDelivery(r)
      PROVE  TypeOK'
  <2>1. req[r].action \in Actions /\ [req[r] EXCEPT !.op = "record"] \in Request
    BY <1>3 DEF CommitDelivery, TypeOK, Request, Idle
  <2> QED BY <1>3, <2>1 DEF CommitDelivery, TypeOK, history
<1>4. ASSUME NEW r \in Requests, planReviewPrompts(r)
      PROVE  TypeOK'
  <2>1. req[r].action \in Actions
    BY <1>4 DEF planReviewPrompts, TypeOK, Request, Idle
  <2>2. now + Window \in Nat
    BY NumberAssumption DEF TypeOK
  <2>3. PlannedSides(req[r].action) \in SUBSET Sides
    BY DEF PlannedSides
  <2>4. [op |-> "ask", action |-> req[r].action, todo |-> PlannedSides(req[r].action),
         discloseAt |-> now + Window] \in Request
    BY <2>1, <2>2, <2>3 DEF Request
  <2> QED BY <1>4, <2>4 DEF planReviewPrompts, TypeOK, tables, history
<1>5. ASSUME NEW r \in Requests, bumpSampling(r)
      PROVE  TypeOK'
  <2>1. /\ req[r].action \in Actions /\ req[r].todo \in SUBSET Sides
        /\ req[r].discloseAt \in Nat /\ Asked(r) \in Participants
    BY <1>5, AskedIsARater DEF bumpSampling
  <2>2. counter[Asked(r)] + 1 \in Nat
    BY <2>1 DEF TypeOK
  <2>3. [op |-> "draw", action |-> req[r].action, todo |-> req[r].todo,
         discloseAt |-> req[r].discloseAt, count |-> counter[Asked(r)] + 1] \in Request
    BY <2>1, <2>2 DEF Request
  <2>4. counter' \in [Participants -> Nat] /\ since' \in [Participants -> SUBSET Actions]
    BY <1>5, <2>1, <2>2 DEF bumpSampling, TypeOK
  <2> QED BY <1>5, <2>3, <2>4 DEF bumpSampling, TypeOK
<1>6. ASSUME NEW r \in Requests, NotSampled(r)
      PROVE  TypeOK'
  <2>1. req' \in [Requests -> Request]
    BY <1>6, GoOnType DEF NotSampled
  <2> QED BY <1>6, <2>1 DEF NotSampled, TypeOK, tables, history
<1>7. ASSUME NEW r \in Requests, CreatePrompt(r)
      PROVE  TypeOK'
  <2>1. req[r].op = "draw"
    BY <1>7 DEF CreatePrompt
  <2>2. /\ req[r].action \in Actions /\ req[r].todo \in SUBSET Sides
        /\ req[r].discloseAt \in Nat /\ NextSide(req[r].todo) \in Sides
        /\ Asked(r) \in Participants
    BY <2>1, AskedIsARater
  <2>3. CASE GoOn(r) /\ UNCHANGED <<prompt, since>>
    <3>1. req' \in [Requests -> Request]
      BY <2>1, <2>3, GoOnType
    <3> QED BY <1>7, <2>3, <3>1 DEF CreatePrompt, TypeOK
  <2>4. CASE ~(GoOn(r) /\ UNCHANGED <<prompt, since>>)
    <3>1. /\ prompt' = [prompt EXCEPT ![req[r].action][NextSide(req[r].todo)] =
                          [state |-> "open", discloseAt |-> req[r].discloseAt]]
          /\ since' = [since EXCEPT ![Asked(r)] = {}]
          /\ req' = [req EXCEPT ![r] = [op |-> "reset", action |-> req[r].action,
                        todo |-> req[r].todo, discloseAt |-> req[r].discloseAt]]
      BY <1>7, <2>4 DEF CreatePrompt, Asked
    <3>2. [op |-> "reset", action |-> req[r].action, todo |-> req[r].todo,
           discloseAt |-> req[r].discloseAt] \in Request
      BY <2>2 DEF Request
    <3>3. prompt' \in [Actions -> [Sides -> [state: PROMPT_STATES, discloseAt: Nat]]]
      BY <2>2, <3>1 DEF TypeOK, PROMPT_STATES
    <3> QED BY <1>7, <2>2, <3>1, <3>2, <3>3 DEF CreatePrompt, TypeOK
  <2> QED BY <2>3, <2>4
<1>8. ASSUME NEW r \in Requests, ResetSampling(r)
      PROVE  TypeOK'
  <2>1. req[r].op = "reset" /\ GoOn(r)
    BY <1>8 DEF ResetSampling
  <2>2. req' \in [Requests -> Request]
    BY <2>1, GoOnType
  <2> QED BY <1>8, <2>2 DEF ResetSampling, TypeOK, history
<1>9. ASSUME NEW r \in Requests, NEW a \in Actions, NEW s \in Sides, NEW n \in Ratings,
             ReadPrompt(r, a, s, n)
      PROVE  TypeOK'
  BY <1>9 DEF ReadPrompt, TypeOK, tables, history, Request
<1>10. ASSUME NEW r \in Requests, CommitReview(r)
       PROVE  TypeOK'
  <2> DEFINE a == req[r].action
             s == req[r].side
  <2>1. a \in Actions /\ s \in Sides /\ req[r].rating \in Ratings
    BY <1>10, SubmitType DEF CommitReview
  <2>2. req' \in [Requests -> Request]
    BY <1>10 DEF CommitReview, TypeOK, Request
  <2>3. prompt[a][s].discloseAt \in Nat
    BY <2>1 DEF TypeOK
  <2>4. CASE review[a][s].written
    <3>1. UNCHANGED <<review, prompt>>
      BY <1>10, <2>4 DEF CommitReview
    <3> QED BY <1>10, <2>2, <3>1 DEF CommitReview, TypeOK, history
  <2>5. CASE ~review[a][s].written
    <3>1. /\ review' = [review EXCEPT ![a][s] =
               [written |-> TRUE, rating |-> req[r].rating,
                discloseAt |-> prompt[a][s].discloseAt]]
          /\ prompt' = [prompt EXCEPT ![a][s].state = "submitted"]
      BY <1>10, <2>5 DEF CommitReview
    <3>2. prompt' \in [Actions -> [Sides -> [state: PROMPT_STATES, discloseAt: Nat]]]
      <4> DEFINE row == [prompt[a][s] EXCEPT !.state = "submitted"]
      <4>0. prompt[a][s] \in [state: PROMPT_STATES, discloseAt: Nat]
        <5> HIDE DEF a, s
        <5> QED BY <2>1 DEF TypeOK
      <4>1. row \in [state: PROMPT_STATES, discloseAt: Nat]
        <5> HIDE DEF a, s
        <5> QED BY <4>0 DEF PROMPT_STATES
      <4>2. prompt' = [prompt EXCEPT ![a] = [prompt[a] EXCEPT ![s] = row]]
        BY <3>1, Zenon
      <4> HIDE DEF row
      <4> QED BY <2>1, <4>1, <4>2 DEF TypeOK
    <3>3. review' \in [Actions -> [Sides -> [written: BOOLEAN, rating: Ratings \cup {0},
                                             discloseAt: Nat]]]
      BY <2>1, <2>3, <3>1 DEF TypeOK
    <3> QED BY <1>10, <2>2, <3>2, <3>3 DEF CommitReview, TypeOK, history
  <2> QED BY <2>4, <2>5
<1>11. ASSUME NEW r \in Requests, NEW p \in Participants, ReadReviews(r, p)
       PROVE  TypeOK'
  BY <1>11 DEF ReadReviews, TypeOK, tables, history, Request
<1>12. ASSUME NEW r \in Requests, AnswerSummary(r)
       PROVE  TypeOK'
  <2>1. req[r].rows \subseteq Keys
    BY <1>12 DEF AnswerSummary, TypeOK, Request, Idle
  <2> QED BY <1>12, <2>1 DEF AnswerSummary, TypeOK, tables, Request
<1>13. ASSUME NEW r \in Requests, Crash(r)
       PROVE  TypeOK'
  BY <1>13 DEF Crash, TypeOK, tables, history, Request
<1>14. CASE UNCHANGED vars
  BY <1>14 DEF vars, TypeOK, tables, history
<1> QED BY <1>1, <1>2, <1>3, <1>4, <1>5, <1>6, <1>7, <1>8, <1>9, <1>10, <1>11, <1>12,
           <1>13, <1>14, StepCases

\* Every row, counter and request in flight stays well-formed.
THEOREM ReviewTypeCorrect == Spec => []TypeOK
<1>1. TypeOK /\ [Next]_vars => TypeOK'
  BY StepTypeOK
<1> QED BY <1>1, InitTypeOK, PTL DEF Spec

-----------------------------------------------------------------------------
(* What a summary has shown.                                               *)

\* Every review that counted somewhere was revealed by then, and still is.
ShownIsRevealed ==
  \A x \in shown : review[x[1]][x[2]].written /\ isRevealed(x[1], x[2])
\* The rows a summary holds between its reads are written reviews.
SummaryIsSound ==
  \A r \in Requests : req[r].op = "summary" =>
    \A x \in req[r].rows : x \in Keys /\ review[x[1]][x[2]].written
ShownInv == ShownIsRevealed /\ SummaryIsSound

\* A review that is written never changes, whoever submits again.
LEMMA ReviewsAreKept ==
  ASSUME TypeOK, [Next]_vars
  PROVE  \A a \in Actions, s \in Sides :
           review[a][s].written => review'[a][s] = review[a][s]
<1>1. ASSUME NEW r \in Requests, CommitReview(r)
      PROVE  \A a \in Actions, s \in Sides :
               review[a][s].written => review'[a][s] = review[a][s]
  <2>1. CASE review[req[r].action][req[r].side].written
    BY <1>1, <2>1 DEF CommitReview
  <2>2. CASE ~review[req[r].action][req[r].side].written
    <3>1. review' = [review EXCEPT ![req[r].action][req[r].side] =
               [written |-> TRUE, rating |-> req[r].rating,
                discloseAt |-> prompt[req[r].action][req[r].side].discloseAt]]
      BY <1>1, <2>2 DEF CommitReview
    <3> QED BY <2>2, <3>1 DEF TypeOK
  <2> QED BY <2>1, <2>2
<1>2. CASE ~\E r \in Requests : CommitReview(r)
  <2>1. UNCHANGED review
    BY <1>2, StepCases DEF vars, tables, Tick, ReadToDeliver, CommitDelivery,
       planReviewPrompts, bumpSampling, NotSampled, CreatePrompt, ResetSampling,
       ReadPrompt, ReadReviews, AnswerSummary, Crash
  <2> QED BY <2>1
<1> QED BY <1>1, <1>2

\* What is revealed stays revealed.
LEMMA RevealedStays ==
  ASSUME TypeOK, [Next]_vars, NEW a \in Actions, NEW s \in Sides,
         review[a][s].written, isRevealed(a, s)
  PROVE  review'[a][s].written /\ isRevealed(a, s)'
<1>1. \A b \in Actions, t \in Sides :
        review[b][t].written => review'[b][t] = review[b][t]
  BY ReviewsAreKept
<1>2. now' \in Nat /\ now' >= now
  <2>1. CASE Tick
    BY <2>1 DEF Tick, TypeOK
  <2>2. CASE ~Tick
    <3>1. UNCHANGED now
      BY <2>2, StepCases DEF vars, ReadToDeliver, CommitDelivery, planReviewPrompts,
         bumpSampling, NotSampled, CreatePrompt, ResetSampling, ReadPrompt,
         CommitReview, ReadReviews, AnswerSummary, Crash
    <3> QED BY <3>1 DEF TypeOK
  <2> QED BY <2>1, <2>2
<1>3. CASE bothSides(a)
  <2>1. bothSides(a)'
    BY <1>1, <1>3 DEF bothSides
  <2> QED BY <1>1, <2>1 DEF isRevealed
<1>4. CASE review[a][s].discloseAt <= now
  <2>1. review[a][s].discloseAt \in Nat
    BY DEF TypeOK
  <2> QED BY <1>1, <1>2, <1>4, <2>1 DEF isRevealed, TypeOK
<1> QED BY <1>3, <1>4 DEF isRevealed

LEMMA StepShownInv ==
  ASSUME TypeOK, ShownInv, [Next]_vars
  PROVE  ShownInv'
<1>1. \A x \in Keys : x[1] \in Actions /\ x[2] \in Sides
  BY DEF Keys
<1>2. \A x \in Keys : review[x[1]][x[2]].written => review'[x[1]][x[2]].written
  BY <1>1, ReviewsAreKept
<1>3. \A x \in shown : review'[x[1]][x[2]].written /\ isRevealed(x[1], x[2])'
  BY <1>1, RevealedStays DEF ShownInv, ShownIsRevealed, TypeOK
<1>4. ASSUME NEW r \in Requests, AnswerSummary(r)
      PROVE  ShownInv'
  <2>1. \A x \in req[r].rows : x \in Keys /\ review[x[1]][x[2]].written
    BY <1>4 DEF AnswerSummary, ShownInv, SummaryIsSound
  <2>2. \A x \in req[r].rows : isRevealed(x[1], x[2]) =>
          review'[x[1]][x[2]].written /\ isRevealed(x[1], x[2])'
    BY <1>1, <2>1, RevealedStays
  <2>3. ShownIsRevealed'
    BY <1>3, <1>4, <2>2 DEF AnswerSummary, ShownIsRevealed
  <2>4. SummaryIsSound'
    BY <1>2, <1>4 DEF AnswerSummary, ShownInv, SummaryIsSound, TypeOK, Idle
  <2> QED BY <2>3, <2>4 DEF ShownInv
<1>5. CASE ~\E r \in Requests : AnswerSummary(r)
  <2>1. UNCHANGED shown
    BY <1>5, StepCases DEF vars, history, Tick, ReadToDeliver, CommitDelivery,
       planReviewPrompts, bumpSampling, NotSampled, CreatePrompt, ResetSampling,
       ReadPrompt, CommitReview, ReadReviews, Crash
  <2>2. ShownIsRevealed'
    BY <1>3, <2>1 DEF ShownIsRevealed
  <2>3. ASSUME NEW r \in Requests, NEW p \in Participants, ReadReviews(r, p)
        PROVE  SummaryIsSound'
    BY <1>2, <2>3 DEF ReadReviews, ShownInv, SummaryIsSound, TypeOK
  <2>4. CASE ~\E r \in Requests, p \in Participants : ReadReviews(r, p)
    <3> DEFINE Same == \A r \in Requests : req'[r].op = "summary" => req'[r] = req[r]
    <3>1. ASSUME NEW r \in Requests, NotSampled(r) \/ ResetSampling(r)
          PROVE  Same
      <4>1. GoOn(r)
        BY <3>1 DEF NotSampled, ResetSampling
      <4> QED BY <4>1, GoOnKeepsOthers
    <3>2. ASSUME NEW r \in Requests, CreatePrompt(r)
          PROVE  Same
      <4>1. CASE GoOn(r)
        BY <4>1, GoOnKeepsOthers
      <4>2. CASE ~GoOn(r)
        BY <3>2, <4>2 DEF CreatePrompt, TypeOK
      <4> QED BY <4>1, <4>2
    <3>3. ASSUME NEW r \in Requests,
                 \/ CommitDelivery(r) \/ planReviewPrompts(r) \/ bumpSampling(r)
                 \/ CommitReview(r) \/ Crash(r)
          PROVE  Same
      <4>1. /\ \A q \in Requests : q # r => req'[q] = req[q]
            /\ req'[r].op # "summary"
        <5>1. CASE CommitDelivery(r)
          BY <5>1 DEF CommitDelivery, TypeOK
        <5>2. CASE planReviewPrompts(r)
          BY <5>2 DEF planReviewPrompts, TypeOK
        <5>3. CASE bumpSampling(r)
          BY <5>3 DEF bumpSampling, TypeOK
        <5>4. CASE CommitReview(r)
          BY <5>4 DEF CommitReview, TypeOK, Idle
        <5>5. CASE Crash(r)
          BY <5>5 DEF Crash, TypeOK, Idle
        <5> QED BY <3>3, <5>1, <5>2, <5>3, <5>4, <5>5
      <4> QED BY <4>1
    <3>4. ASSUME NEW r \in Requests, NEW a \in Actions, ReadToDeliver(r, a)
          PROVE  Same
      BY <3>4 DEF ReadToDeliver, TypeOK
    <3>5. ASSUME NEW r \in Requests, NEW a \in Actions, NEW s \in Sides,
                 NEW n \in Ratings, ReadPrompt(r, a, s, n)
          PROVE  Same
      BY <3>5 DEF ReadPrompt, TypeOK
    <3>6. ASSUME Tick \/ UNCHANGED vars
          PROVE  Same
      BY <3>6 DEF Tick, vars
    <3>7. Same
      <4> HIDE DEF Same
      <4> QED BY <1>5, <2>4, <3>1, <3>2, <3>3, <3>4, <3>5, <3>6, StepCases
    <3>8. SummaryIsSound'
      BY <1>2, <3>7 DEF ShownInv, SummaryIsSound
    <3> QED BY <2>2, <3>8 DEF ShownInv
  <2> QED BY <2>2, <2>3, <2>4 DEF ShownInv
<1> QED BY <1>4, <1>5

LEMMA InitShownInv == Init => ShownInv
BY DEF Init, ShownInv, ShownIsRevealed, SummaryIsSound, Idle

\* Nobody rates a counterpart whose review it has been shown before the deadline.
THEOREM NobodyRetaliates == Spec => NoRetaliation
<1>1. Init => TypeOK /\ ShownInv
  BY InitTypeOK, InitShownInv
<1>2. TypeOK /\ ShownInv /\ [Next]_vars => (TypeOK /\ ShownInv)'
  BY StepTypeOK, StepShownInv
<1>3. ASSUME TypeOK, ShownInv, NEW a \in Actions, NEW s \in Sides,
             ~review[a][s].written, now < review[a][Other(s)].discloseAt
      PROVE  <<a, Other(s)>> \notin shown
  <2>1. ~bothSides(a)
    BY <1>3 DEF bothSides
  <2>2. Other(s) \in Sides
    BY DEF Other, Sides
  <2>3. ~(review[a][Other(s)].discloseAt <= now)
    BY <1>3, <2>2 DEF TypeOK
  <2> QED BY <1>3, <2>1, <2>3 DEF ShownInv, ShownIsRevealed, isRevealed
<1>4. TypeOK /\ ShownInv /\ [Next]_vars =>
        [\A a \in Actions, s \in Sides :
           /\ ~review[a][s].written /\ review'[a][s].written
           /\ now < review[a][Other(s)].discloseAt
           => <<a, Other(s)>> \notin shown]_vars
  BY <1>3
<1> QED BY <1>1, <1>2, <1>4, PTL DEF Spec, NoRetaliation

\* A written review is never overwritten.
THEOREM ReviewsAreFinal == Spec => ReviewIsFinal
<1>1. TypeOK /\ [Next]_vars => TypeOK'
  BY StepTypeOK
<1>2. TypeOK /\ [Next]_vars =>
        [\A a \in Actions, s \in Sides :
           review[a][s].written => review'[a][s] = review[a][s]]_vars
  BY ReviewsAreKept
<1> QED BY <1>1, <1>2, InitTypeOK, PTL DEF Spec, ReviewIsFinal

-----------------------------------------------------------------------------
(* The cap, when one request at a time records deliveries and none has     *)
(* died: the counter is the number of actions since the last prompt.       *)

Recording == {"deliver", "record", "ask", "draw", "reset"}
RecorderOnly(k) == \A r \in Requests : req[r].op \in Recording => r = k

\* Between a prompt and its reset the counter still has the old value.
CounterIsTrue(k) ==
  \A p \in Participants :
    IF req[k].op = "reset" /\ p = Asked(k)
    THEN since[p] = {}
    ELSE counter[p] = Cardinality(since[p])

CountedAreDelivered ==
  \A p \in Participants : IsFiniteSet(since[p]) /\ since[p] \subseteq delivered

\* The sides of the current action that have not been counted yet.
Uncounted(k) ==
  IF req[k].op = "ask" THEN req[k].todo ELSE req[k].todo \ {NextSide(req[k].todo)}

\* An action is counted once for each side.
CountsOnce(k) ==
  /\ req[k].op = "deliver" => req[k].action \notin delivered
  /\ req[k].op = "record" =>
       /\ req[k].action \in delivered
       /\ \A s \in Sides : req[k].action \notin since[Rater[req[k].action][s]]
  /\ req[k].op \in {"ask", "draw", "reset"} =>
       /\ req[k].action \in delivered
       /\ \A s \in Uncounted(k) : req[k].action \notin since[Rater[req[k].action][s]]

DrawIsFresh(k) == req[k].op = "draw" => req[k].count = counter[Asked(k)]

CapInv(k) ==
  /\ RecorderOnly(k)
  /\ crashes = 0 => /\ CountedAreDelivered
                    /\ CountsOnce(k)
                    /\ CounterIsTrue(k)
                    /\ DrawIsFresh(k)

LEMMA InitCapInv ==
  ASSUME NEW k \in Requests, Init
  PROVE  CapInv(k)
<1>1. \A p \in Participants : IsFiniteSet(since[p]) /\ Cardinality(since[p]) = 0
  BY FS_EmptySet DEF Init
<1> QED BY <1>1 DEF Init, CapInv, RecorderOnly, Recording, CountedAreDelivered, CountsOnce,
       CounterIsTrue, DrawIsFresh, Idle

\* GoOn goes on with the sides that were left.
LEMMA GoOnSides ==
  ASSUME TypeOK, NEW r \in Requests, req[r].op \in {"draw", "reset"}, GoOn(r)
  PROVE  /\ req'[r].op \in {"idle", "ask"}
         /\ req'[r].op = "ask" => /\ req'[r].action = req[r].action
                                  /\ req'[r].todo = Uncounted(r)
<1> DEFINE left == req[r].todo \ {NextSide(req[r].todo)}
           on == [op |-> "ask", action |-> req[r].action, todo |-> left,
                  discloseAt |-> req[r].discloseAt]
<1>1. req'[r] = IF left = {} THEN Idle ELSE on
  BY DEF GoOn, TypeOK
<1> QED BY <1>1 DEF Idle, Uncounted

\* The steps that are not the recorder's leave the counters alone.
LEMMA OtherStepsKeepCap ==
  ASSUME TypeOK, NEW k \in Requests, CapInv(k), crashes' = crashes,
         UNCHANGED <<delivered, counter, since>>,
         req[k].op \in Recording \/ req'[k].op \in Recording => req'[k] = req[k],
         \A r \in Requests : r # k => req'[r] = req[r] \/ req'[r].op \notin Recording
  PROVE  CapInv(k)'
<1>1. RecorderOnly(k)'
  BY DEF CapInv, RecorderOnly
<1>2. CASE req[k].op \in Recording \/ req'[k].op \in Recording
  BY <1>1, <1>2 DEF CapInv, CountedAreDelivered, CountsOnce, CounterIsTrue, DrawIsFresh,
     Uncounted, Asked
<1>3. CASE ~(req[k].op \in Recording \/ req'[k].op \in Recording)
  BY <1>1, <1>3 DEF CapInv, CountedAreDelivered, CountsOnce, CounterIsTrue, DrawIsFresh,
     Recording
<1> QED BY <1>2, <1>3

LEMMA StepCapInv ==
  ASSUME NEW k \in Requests, Recorders = {k}, TypeOK, CapInv(k), [Next]_vars
  PROVE  CapInv(k)'
<1>1. CASE Tick \/ UNCHANGED vars
  <2>1. UNCHANGED <<delivered, counter, since, crashes, req>>
    BY <1>1 DEF Tick, vars, tables, history
  <2> QED BY <2>1, OtherStepsKeepCap
<1>2. ASSUME NEW r \in Requests, NEW a \in Actions, ReadToDeliver(r, a)
      PROVE  CapInv(k)'
  <2>1. r = k /\ a \notin delivered /\ req[k] = Idle
    BY <1>2 DEF ReadToDeliver
  <2>2. /\ req'[k] = [op |-> "deliver", action |-> a]
        /\ \A q \in Requests : q # k => req'[q] = req[q]
        /\ UNCHANGED <<delivered, counter, since, crashes>>
    BY <1>2, <2>1 DEF ReadToDeliver, TypeOK, tables, history
  <2> QED BY <2>1, <2>2 DEF CapInv, RecorderOnly, CountedAreDelivered, CountsOnce,
         CounterIsTrue, DrawIsFresh, Idle
<1>3. ASSUME NEW r \in Requests, CommitDelivery(r)
      PROVE  CapInv(k)'
  <2>1. r = k
    BY <1>3 DEF CommitDelivery, CapInv, RecorderOnly, Recording
  <2>2. /\ req[k].op = "deliver"
        /\ req'[k].op = "record" /\ req'[k].action = req[k].action
        /\ \A q \in Requests : q # k => req'[q] = req[q]
        /\ delivered' = delivered \cup {req[k].action}
        /\ UNCHANGED <<counter, since, crashes>>
    BY <1>3, <2>1, DeliverType DEF CommitDelivery, TypeOK, history
  <2>3. req[k].action \in Actions
    BY <2>2, DeliverType
  <2>4. \A s \in Sides : Rater[req[k].action][s] \in Participants
    BY <2>3, RaterAssumption
  <2> QED BY <2>2, <2>4 DEF CapInv, RecorderOnly, CountedAreDelivered, CountsOnce,
         CounterIsTrue, DrawIsFresh
<1>4. ASSUME NEW r \in Requests, planReviewPrompts(r)
      PROVE  CapInv(k)'
  <2>1. r = k
    BY <1>4 DEF planReviewPrompts, CapInv, RecorderOnly, Recording
  <2>2. /\ req[k].op = "record"
        /\ req'[k].op = "ask" /\ req'[k].action = req[k].action
        /\ req'[k].todo \subseteq Sides
        /\ \A q \in Requests : q # k => req'[q] = req[q]
        /\ UNCHANGED <<delivered, counter, since, crashes>>
    BY <1>4, <2>1 DEF planReviewPrompts, PlannedSides, TypeOK, tables, history
  <2> QED BY <2>2 DEF CapInv, RecorderOnly, CountedAreDelivered, CountsOnce,
         CounterIsTrue, DrawIsFresh, Uncounted
<1>5. ASSUME NEW r \in Requests, bumpSampling(r)
      PROVE  CapInv(k)'
  <2>1. r = k
    BY <1>5 DEF bumpSampling, CapInv, RecorderOnly, Recording
  <2> DEFINE p == Asked(k)
             a == req[k].action
  <2>2. /\ req[k].op = "ask" /\ req[k].todo # {}
        /\ a \in Actions /\ p \in Participants /\ req[k].todo \in SUBSET Sides
    BY <1>5, <2>1, AskedIsARater DEF bumpSampling
  <2>3. /\ req'[k].op = "draw" /\ req'[k].action = a /\ req'[k].todo = req[k].todo
        /\ req'[k].count = counter[p] + 1
        /\ \A q \in Requests : q # k => req'[q] = req[q]
        /\ UNCHANGED <<delivered, crashes>>
    BY <1>5, <2>1 DEF bumpSampling, TypeOK
  <2>4. /\ counter' = [counter EXCEPT ![p] = @ + 1]
        /\ since' = [since EXCEPT ![p] = @ \cup {a}]
    BY <1>5, <2>1 DEF bumpSampling
  <2>5. Asked(k)' = p
    BY <2>3 DEF Asked
  <2>6. RecorderOnly(k)'
    BY <2>3 DEF CapInv, RecorderOnly
  <2>7. ASSUME crashes = 0
        PROVE  /\ CountedAreDelivered'
               /\ CountsOnce(k)'
               /\ CounterIsTrue(k)'
               /\ DrawIsFresh(k)'
    <3>1. NextSide(req[k].todo) \in req[k].todo /\ p = Rater[a][NextSide(req[k].todo)]
      BY <2>2, NextSideIsASide DEF Asked
    <3>2. a \in delivered /\ a \notin since[p]
      BY <2>2, <2>7, <3>1 DEF CapInv, CountsOnce, Uncounted
    <3>3. IsFiniteSet(since[p])
      BY <2>2, <2>7 DEF CapInv, CountedAreDelivered
    <3>4. /\ IsFiniteSet(since[p] \cup {a})
          /\ Cardinality(since[p] \cup {a}) = Cardinality(since[p]) + 1
      BY <3>2, <3>3, FS_AddElement
    <3>5. counter[p] = Cardinality(since[p])
      BY <2>2, <2>7 DEF CapInv, CounterIsTrue
    <3>6. CountedAreDelivered'
      BY <2>2, <2>3, <2>4, <2>7, <3>2, <3>4 DEF CapInv, CountedAreDelivered, TypeOK
    <3>7. \A q \in Participants : counter'[q] = Cardinality(since'[q])
      <4>1. \A q \in Participants : q # p => counter'[q] = counter[q] /\ since'[q] = since[q]
        BY <2>2, <2>4 DEF TypeOK
      <4>2. counter'[p] = counter[p] + 1 /\ since'[p] = since[p] \cup {a}
        BY <2>2, <2>4 DEF TypeOK
      <4>3. \A q \in Participants : counter[q] = Cardinality(since[q])
        BY <2>2, <2>7 DEF CapInv, CounterIsTrue
      <4> HIDE DEF p, a
      <4> QED BY <3>4, <4>1, <4>2, <4>3
    <3>8. CounterIsTrue(k)'
      BY <2>3, <3>7 DEF CounterIsTrue
    <3>9. DrawIsFresh(k)'
      BY <2>2, <2>3, <2>4, <2>5 DEF DrawIsFresh, TypeOK
    <3>10. \A s \in req[k].todo \ {NextSide(req[k].todo)} :
             Rater[a][s] \in Participants /\ Rater[a][s] # p
      BY <2>2, <3>1, RaterAssumption DEF Sides
    <3>11. CountsOnce(k)'
      BY <2>2, <2>3, <2>4, <2>7, <3>2, <3>10 DEF CapInv, CountsOnce, Uncounted, TypeOK
    <3> QED BY <3>6, <3>8, <3>9, <3>11
  <2> QED BY <2>3, <2>6, <2>7 DEF CapInv
<1>6. ASSUME NEW r \in Requests, req[r].op \in {"draw", "reset"}, GoOn(r),
             UNCHANGED <<delivered, since, crashes>>,
             \A q \in Participants : q # Asked(k) => counter'[q] = counter[q],
             \/ req[r].op = "draw" /\ counter' = counter
             \/ req[r].op = "reset" /\ counter'[Asked(k)] = 0
      PROVE  CapInv(k)'
  <2>1. r = k
    BY <1>6 DEF CapInv, RecorderOnly, Recording
  <2>2. /\ req'[k].op \in {"idle", "ask"}
        /\ req'[k].op = "ask" => /\ req'[k].action = req[k].action
                                 /\ req'[k].todo = Uncounted(k)
        /\ \A q \in Requests : q # k => req'[q] = req[q]
    BY <1>6, <2>1, GoOnSides, GoOnKeepsOthers
  <2>3. RecorderOnly(k)'
    BY <2>2 DEF CapInv, RecorderOnly
  <2>4. ASSUME crashes = 0
        PROVE  CounterIsTrue(k)'
    <3>1. \A q \in Participants : counter'[q] = Cardinality(since[q])
      BY <1>6, <2>1, <2>4, FS_EmptySet DEF CapInv, CounterIsTrue
    <3> QED BY <1>6, <2>2, <3>1 DEF CounterIsTrue
  <2>5. ASSUME crashes = 0
        PROVE  CountsOnce(k)' /\ CountedAreDelivered' /\ DrawIsFresh(k)'
    BY <1>6, <2>1, <2>2, <2>5 DEF CapInv, CountsOnce, CountedAreDelivered, DrawIsFresh,
       Uncounted
  <2> QED BY <1>6, <2>3, <2>4, <2>5 DEF CapInv
<1>7. ASSUME NEW r \in Requests, NotSampled(r)
      PROVE  CapInv(k)'
  BY <1>6, <1>7 DEF NotSampled, tables, history
<1>8. ASSUME NEW r \in Requests, CreatePrompt(r)
      PROVE  CapInv(k)'
  <2>1. req[r].op = "draw" /\ UNCHANGED <<delivered, counter, crashes>>
    BY <1>8 DEF CreatePrompt
  <2>2. CASE GoOn(r) /\ UNCHANGED <<prompt, since>>
    BY <1>6, <2>1, <2>2
  <2>3. CASE ~(GoOn(r) /\ UNCHANGED <<prompt, since>>)
    <3>1. r = k
      BY <2>1 DEF CapInv, RecorderOnly, Recording
    <3>2. /\ since' = [since EXCEPT ![Asked(k)] = {}]
          /\ req' = [req EXCEPT ![k] = [op |-> "reset", action |-> req[k].action,
                        todo |-> req[k].todo, discloseAt |-> req[k].discloseAt]]
      BY <1>8, <2>3, <3>1 DEF CreatePrompt, Asked
    <3>3. /\ req'[k].op = "reset" /\ req'[k].action = req[k].action
          /\ req'[k].todo = req[k].todo
          /\ \A q \in Requests : q # k => req'[q] = req[q]
      BY <3>2 DEF TypeOK
    <3>4. Asked(k) \in Participants
      BY <2>1, <3>1, AskedIsARater
    <3>5. Asked(k)' = Asked(k)
      BY <3>3 DEF Asked
    <3>6. \A q \in Participants :
            since'[q] = IF q = Asked(k) THEN {} ELSE since[q]
      BY <3>2, <3>4 DEF TypeOK
    <3>7. RecorderOnly(k)'
      BY <2>1, <3>1, <3>3 DEF CapInv, RecorderOnly
    <3>8. ASSUME crashes = 0
          PROVE  /\ CountedAreDelivered' /\ CountsOnce(k)'
                 /\ CounterIsTrue(k)' /\ DrawIsFresh(k)'
      <4>1. CountedAreDelivered'
        BY <2>1, <3>6, <3>8, FS_EmptySet DEF CapInv, CountedAreDelivered
      <4>2. CounterIsTrue(k)'
        BY <2>1, <3>1, <3>3, <3>5, <3>6, <3>8 DEF CapInv, CounterIsTrue
      <4>3. req[k].action \in Actions /\ req[k].todo \in SUBSET Sides
        BY <2>1, <3>1, AskedIsARater
      <4>4. \A s \in Sides : Rater[req[k].action][s] \in Participants
        BY <4>3, RaterAssumption
      <4>5. CountsOnce(k)'
        BY <2>1, <3>1, <3>3, <3>6, <3>8, <4>3, <4>4 DEF CapInv, CountsOnce, Uncounted
      <4>6. DrawIsFresh(k)'
        BY <3>3 DEF DrawIsFresh
      <4> QED BY <4>1, <4>2, <4>5, <4>6
    <3> QED BY <2>1, <3>7, <3>8 DEF CapInv
  <2> QED BY <2>2, <2>3
<1>9. ASSUME NEW r \in Requests, ResetSampling(r)
      PROVE  CapInv(k)'
  <2>1. r = k
    BY <1>9 DEF ResetSampling, CapInv, RecorderOnly, Recording
  <2>2. Asked(k) \in Participants
    BY <1>9, <2>1, AskedIsARater DEF ResetSampling
  <2>3. /\ \A q \in Participants : q # Asked(k) => counter'[q] = counter[q]
        /\ counter'[Asked(k)] = 0
    BY <1>9, <2>1, <2>2 DEF ResetSampling, TypeOK
  <2> QED BY <1>6, <1>9, <2>3 DEF ResetSampling, history
<1>10. ASSUME NEW r \in Requests, NEW a \in Actions, NEW s \in Sides, NEW n \in Ratings,
              ReadPrompt(r, a, s, n)
       PROVE  CapInv(k)'
  <2>1. /\ req[r] = Idle /\ req'[r].op = "submit"
        /\ \A q \in Requests : q # r => req'[q] = req[q]
        /\ UNCHANGED <<delivered, counter, since, crashes>>
    BY <1>10 DEF ReadPrompt, TypeOK, tables, history
  <2>2. req[r].op \notin Recording /\ req'[r].op \notin Recording
    BY <2>1 DEF Recording, Idle
  <2>3. /\ req[k].op \in Recording \/ req'[k].op \in Recording => req'[k] = req[k]
        /\ \A q \in Requests : q # k => req'[q] = req[q] \/ req'[q].op \notin Recording
    BY <2>1, <2>2
  <2> QED BY <2>1, <2>3, OtherStepsKeepCap
<1>11. ASSUME NEW r \in Requests, CommitReview(r)
       PROVE  CapInv(k)'
  <2>1. /\ req[r].op = "submit" /\ req'[r] = Idle
        /\ \A q \in Requests : q # r => req'[q] = req[q]
        /\ UNCHANGED <<delivered, counter, since, crashes>>
    BY <1>11 DEF CommitReview, TypeOK, history
  <2>2. req[r].op \notin Recording /\ req'[r].op \notin Recording
    BY <2>1 DEF Recording, Idle
  <2>3. /\ req[k].op \in Recording \/ req'[k].op \in Recording => req'[k] = req[k]
        /\ \A q \in Requests : q # k => req'[q] = req[q] \/ req'[q].op \notin Recording
    BY <2>1, <2>2
  <2> QED BY <2>1, <2>3, OtherStepsKeepCap
<1>12. ASSUME NEW r \in Requests, NEW p \in Participants, ReadReviews(r, p)
       PROVE  CapInv(k)'
  <2>1. /\ req[r] = Idle /\ req'[r].op = "summary"
        /\ \A q \in Requests : q # r => req'[q] = req[q]
        /\ UNCHANGED <<delivered, counter, since, crashes>>
    BY <1>12 DEF ReadReviews, TypeOK, tables, history
  <2>2. req[r].op \notin Recording /\ req'[r].op \notin Recording
    BY <2>1 DEF Recording, Idle
  <2>3. /\ req[k].op \in Recording \/ req'[k].op \in Recording => req'[k] = req[k]
        /\ \A q \in Requests : q # k => req'[q] = req[q] \/ req'[q].op \notin Recording
    BY <2>1, <2>2
  <2> QED BY <2>1, <2>3, OtherStepsKeepCap
<1>13. ASSUME NEW r \in Requests, AnswerSummary(r)
       PROVE  CapInv(k)'
  <2>1. /\ req[r].op = "summary" /\ req'[r] = Idle
        /\ \A q \in Requests : q # r => req'[q] = req[q]
        /\ UNCHANGED <<delivered, counter, since, crashes>>
    BY <1>13 DEF AnswerSummary, TypeOK, tables
  <2>2. req[r].op \notin Recording /\ req'[r].op \notin Recording
    BY <2>1 DEF Recording, Idle
  <2>3. /\ req[k].op \in Recording \/ req'[k].op \in Recording => req'[k] = req[k]
        /\ \A q \in Requests : q # k => req'[q] = req[q] \/ req'[q].op \notin Recording
    BY <2>1, <2>2
  <2> QED BY <2>1, <2>3, OtherStepsKeepCap
<1>14. ASSUME NEW r \in Requests, Crash(r)
       PROVE  CapInv(k)'
  <2>1. crashes' # 0
    BY <1>14 DEF Crash, TypeOK
  <2>2. RecorderOnly(k)'
    BY <1>14 DEF Crash, CapInv, RecorderOnly, Recording, TypeOK, Idle
  <2> QED BY <2>1, <2>2 DEF CapInv
<1> QED BY <1>1, <1>2, <1>3, <1>4, <1>5, <1>7, <1>8, <1>9, <1>10, <1>11, <1>12, <1>13,
           <1>14, StepCases

\* A prompt that exists goes on existing.
LEMMA PromptsAreKept ==
  ASSUME TypeOK, [Next]_vars
  PROVE  \A a \in Actions, s \in Sides :
           prompt[a][s].state # "absent" => prompt'[a][s].state # "absent"
<1>1. ASSUME NEW r \in Requests, CreatePrompt(r)
      PROVE  \A a \in Actions, s \in Sides :
               prompt[a][s].state # "absent" => prompt'[a][s].state # "absent"
  <2>1. req[r].action \in Actions /\ NextSide(req[r].todo) \in Sides
    BY <1>1, AskedIsARater DEF CreatePrompt
  <2>2. CASE UNCHANGED prompt
    BY <2>2
  <2>3. CASE ~UNCHANGED prompt
    <3>1. prompt' = [prompt EXCEPT ![req[r].action][NextSide(req[r].todo)] =
                       [state |-> "open", discloseAt |-> req[r].discloseAt]]
      BY <1>1, <2>3 DEF CreatePrompt
    <3> QED BY <2>1, <3>1 DEF TypeOK
  <2> QED BY <2>2, <2>3
<1>2. ASSUME NEW r \in Requests, CommitReview(r)
      PROVE  \A a \in Actions, s \in Sides :
               prompt[a][s].state # "absent" => prompt'[a][s].state # "absent"
  <2>1. req[r].action \in Actions /\ req[r].side \in Sides
    BY <1>2, SubmitType DEF CommitReview
  <2>2. CASE UNCHANGED prompt
    BY <2>2
  <2>3. CASE ~UNCHANGED prompt
    <3>1. prompt' = [prompt EXCEPT ![req[r].action][req[r].side].state = "submitted"]
      BY <1>2, <2>3 DEF CommitReview
    <3> QED BY <2>1, <3>1 DEF TypeOK
  <2> QED BY <2>2, <2>3
<1>3. CASE ~\E r \in Requests : CreatePrompt(r) \/ CommitReview(r)
  <2>1. UNCHANGED prompt
    BY <1>3, StepCases DEF vars, tables, Tick, ReadToDeliver, CommitDelivery,
       planReviewPrompts, bumpSampling, NotSampled, ResetSampling, ReadPrompt,
       ReadReviews, AnswerSummary, Crash
  <2> QED BY <2>1
<1> QED BY <1>1, <1>2, <1>3

\* A submit in flight answers a prompt that exists.
SubmitHasPrompt ==
  \A r \in Requests : req[r].op = "submit" =>
    prompt[req[r].action][req[r].side].state # "absent"

LEMMA StepSubmitHasPrompt ==
  ASSUME TypeOK, SubmitHasPrompt, [Next]_vars
  PROVE  SubmitHasPrompt'
<1>1. \A a \in Actions, s \in Sides :
        prompt[a][s].state # "absent" => prompt'[a][s].state # "absent"
  BY PromptsAreKept
<1>2. ASSUME NEW r \in Requests, NEW a \in Actions, NEW s \in Sides, NEW n \in Ratings,
             ReadPrompt(r, a, s, n)
      PROVE  SubmitHasPrompt'
  <2>1. /\ prompt[a][s].state = "open" /\ UNCHANGED prompt
        /\ req'[r].action = a /\ req'[r].side = s
        /\ \A q \in Requests : q # r => req'[q] = req[q]
    BY <1>2 DEF ReadPrompt, TypeOK, tables
  <2> QED BY <2>1 DEF SubmitHasPrompt
<1>3. CASE ~\E r \in Requests, a \in Actions, s \in Sides, n \in Ratings :
              ReadPrompt(r, a, s, n)
  <2> DEFINE Same == \A q \in Requests : req'[q].op = "submit" => req'[q] = req[q]
  <2>1. ASSUME NEW r \in Requests, NotSampled(r) \/ ResetSampling(r)
        PROVE  Same
    <3>1. GoOn(r)
      BY <2>1 DEF NotSampled, ResetSampling
    <3> QED BY <3>1, GoOnKeepsOthers
  <2>2. ASSUME NEW r \in Requests, CreatePrompt(r)
        PROVE  Same
    <3>1. CASE GoOn(r)
      BY <3>1, GoOnKeepsOthers
    <3>2. CASE ~GoOn(r)
      BY <2>2, <3>2 DEF CreatePrompt, TypeOK
    <3> QED BY <3>1, <3>2
  <2>3. ASSUME NEW r \in Requests,
               \/ CommitDelivery(r) \/ planReviewPrompts(r) \/ bumpSampling(r)
               \/ CommitReview(r) \/ AnswerSummary(r) \/ Crash(r)
        PROVE  Same
    <3>1. CASE CommitDelivery(r)
      BY <3>1 DEF CommitDelivery, TypeOK
    <3>2. CASE planReviewPrompts(r)
      BY <3>2 DEF planReviewPrompts, TypeOK
    <3>3. CASE bumpSampling(r)
      BY <3>3 DEF bumpSampling, TypeOK
    <3>4. CASE CommitReview(r)
      BY <3>4 DEF CommitReview, TypeOK, Idle
    <3>5. CASE AnswerSummary(r)
      BY <3>5 DEF AnswerSummary, TypeOK, Idle
    <3>6. CASE Crash(r)
      BY <3>6 DEF Crash, TypeOK, Idle
    <3> QED BY <2>3, <3>1, <3>2, <3>3, <3>4, <3>5, <3>6
  <2>4. ASSUME NEW r \in Requests, NEW a \in Actions, ReadToDeliver(r, a)
        PROVE  Same
    BY <2>4 DEF ReadToDeliver, TypeOK
  <2>5. ASSUME NEW r \in Requests, NEW p \in Participants, ReadReviews(r, p)
        PROVE  Same
    BY <2>5 DEF ReadReviews, TypeOK
  <2>6. ASSUME Tick \/ UNCHANGED vars
        PROVE  Same
    BY <2>6 DEF Tick, vars
  <2>7. Same
    <3> HIDE DEF Same
    <3> QED BY <1>3, <2>1, <2>2, <2>3, <2>4, <2>5, <2>6, StepCases
  <2>8. \A q \in Requests : req[q].op = "submit" =>
          req[q].action \in Actions /\ req[q].side \in Sides
    BY SubmitType
  <2> QED BY <1>1, <2>7, <2>8 DEF SubmitHasPrompt
<1> QED BY <1>2, <1>3

\* When deliveries are recorded by one request at a time and none has died, nobody
\* is asked again before more than REVIEW_MIN_ACTIONS further actions.
THEOREM AskedRarelyWhenSerial ==
  ASSUME NEW k \in Requests, Recorders = {k}
  PROVE  Spec => AskedRarelyUncrashed
<1> DEFINE Rare(a, s) ==
      crashes = 0 /\ prompt[a][s] = NoPrompt /\ prompt'[a][s] # NoPrompt
        => Cardinality(since[Rater[a][s]]) > REVIEW_MIN_ACTIONS
<1>1. Init => TypeOK /\ CapInv(k) /\ SubmitHasPrompt
  BY InitTypeOK, InitCapInv DEF Init, SubmitHasPrompt, Idle
<1>2. TypeOK /\ CapInv(k) /\ SubmitHasPrompt /\ [Next]_vars =>
        (TypeOK /\ CapInv(k) /\ SubmitHasPrompt)'
  BY StepTypeOK, StepCapInv, StepSubmitHasPrompt
<1>3. ASSUME TypeOK, CapInv(k), SubmitHasPrompt, [Next]_vars, NEW a \in Actions, NEW s \in Sides
      PROVE  Rare(a, s)
  <2>1. ASSUME NEW r \in Requests, CreatePrompt(r)
        PROVE  Rare(a, s)
    <3>1. r = k /\ req[k].op = "draw"
      BY <1>3, <2>1 DEF CreatePrompt, CapInv, RecorderOnly, Recording
    <3>2. Asked(k) \in Participants /\ req[k].action \in Actions
          /\ NextSide(req[k].todo) \in Sides
      BY <1>3, <3>1, AskedIsARater
    <3>3. crashes = 0 => Cardinality(since[Asked(k)]) > REVIEW_MIN_ACTIONS
      BY <1>3, <2>1, <3>1, <3>2
      DEF CreatePrompt, MayPrompt, CapInv, CounterIsTrue, DrawIsFresh
    <3>4. prompt'[a][s] # prompt[a][s] =>
            a = req[k].action /\ s = NextSide(req[k].todo)
      BY <1>3, <2>1, <3>1, <3>2 DEF CreatePrompt, TypeOK
    <3> QED BY <3>3, <3>4 DEF Asked
  <2>2. ASSUME NEW r \in Requests, CommitReview(r)
        PROVE  Rare(a, s)
    <3>1. req[r].action \in Actions /\ req[r].side \in Sides
      BY <1>3, <2>2, SubmitType DEF CommitReview
    <3>2. prompt[req[r].action][req[r].side] # NoPrompt
      BY <1>3, <2>2 DEF CommitReview, SubmitHasPrompt, NoPrompt
    <3>3. a # req[r].action \/ s # req[r].side => prompt'[a][s] = prompt[a][s]
      <4>1. CASE UNCHANGED prompt
        BY <4>1
      <4>2. CASE ~UNCHANGED prompt
        <5>1. prompt' = [prompt EXCEPT ![req[r].action][req[r].side].state = "submitted"]
          BY <2>2, <4>2 DEF CommitReview
        <5> QED BY <1>3, <3>1, <5>1 DEF TypeOK
      <4> QED BY <4>1, <4>2
    <3> QED BY <3>2, <3>3
  <2>3. CASE ~\E r \in Requests : CreatePrompt(r) \/ CommitReview(r)
    <3>1. UNCHANGED prompt
      BY <1>3, <2>3, StepCases DEF vars, tables, Tick, ReadToDeliver, CommitDelivery,
         planReviewPrompts, bumpSampling, NotSampled, ResetSampling, ReadPrompt,
         ReadReviews, AnswerSummary, Crash
    <3> QED BY <3>1
  <2> QED BY <2>1, <2>2, <2>3
<1>4. TypeOK /\ CapInv(k) /\ SubmitHasPrompt /\ [Next]_vars =>
        [\A a \in Actions, s \in Sides : Rare(a, s)]_vars
  BY <1>3
<1> QED BY <1>1, <1>2, <1>4, PTL DEF Spec, AskedRarelyUncrashed

=============================================================================
