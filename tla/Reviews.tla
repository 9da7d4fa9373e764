------------------------------ MODULE Reviews ------------------------------
(***************************************************************************)
(* Two-sided reviews: a delivery bumps a counter for each side, a capped   *)
(* random draw turns some bumps into prompts, a prompt may be answered by  *)
(* one review, and a review counts in the subject's average only when both *)
(* sides have written or its deadline has passed.                          *)
(*                                                                         *)
(* Counter, prompt and reset are three statements without a transaction,   *)
(* so every one is a step; a review and its prompt's stamp are one.        *)
(***************************************************************************)
EXTENDS Naturals, FiniteSets

CONSTANTS
  Participants,        \* customers and carrier orgs
  Actions,             \* trips that may be delivered
  Rater,               \* who rates action a from side s: Rater[a][s]
  HasLogin,            \* the customers with a portal login
  Ratings,
  Requests,            \* the requests the API serves at the same time
  Recorders,           \* those of them that may be status changes
  REVIEW_MIN_ACTIONS,  \* 10 in the code
  Window,              \* REVIEW_DISCLOSE_DAYS, in ticks
  MaxTime,             \* bound on the clock
  MaxCrashes           \* bound on the requests that die between two steps

Sides == {"customer", "org"}
Keys == Actions \X Sides
Other(s) == IF s = "customer" THEN "org" ELSE "customer"

\* Customers and orgs are rows of different tables (isSelfReview).
ASSUME RaterAssumption ==
  /\ Rater \in [Actions -> [Sides -> Participants]]
  /\ \A a \in Actions : Rater[a]["customer"] # Rater[a]["org"]
ASSUME NumberAssumption ==
  {REVIEW_MIN_ACTIONS, Window, MaxTime, MaxCrashes} \subseteq Nat

VARIABLES
  now,        \* the wall clock
  delivered,  \* the trips that are DELIVERED
  counter,    \* actionsSinceRequest of each ReviewSampling row
  prompt,     \* the ReviewPrompt table, by its unique key (action, side)
  review,     \* the Review table, by the same key
  req,        \* what each request in flight holds
  crashes,    \* how many requests have died
  since,      \* history: the actions counted for each rater since its last prompt
  shown       \* history: the reviews some summary has counted

tables == <<delivered, counter, prompt, review>>
history == <<since, shown>>
vars == <<now, tables, req, crashes, history>>

PROMPT_STATES == {"absent", "open", "submitted"}
NoPrompt == [state |-> "absent", discloseAt |-> 0]
NoReview == [written |-> FALSE, rating |-> 0, discloseAt |-> 0]

Idle == [op |-> "idle"]
Request ==
  {Idle}
  \cup [op: {"deliver", "record"}, action: Actions]
  \cup [op: {"ask", "reset"}, action: Actions, todo: SUBSET Sides, discloseAt: Nat]
  \cup [op: {"draw"}, action: Actions, todo: SUBSET Sides, discloseAt: Nat, count: Nat]
  \cup [op: {"submit"}, action: Actions, side: Sides, rating: Ratings]
  \cup [op: {"summary"}, rows: SUBSET Keys]

TypeOK ==
  /\ now \in Nat /\ crashes \in Nat
  /\ delivered \subseteq Actions
  /\ counter \in [Participants -> Nat]
  /\ prompt \in [Actions -> [Sides -> [state: PROMPT_STATES, discloseAt: Nat]]]
  /\ review \in [Actions -> [Sides -> [written: BOOLEAN, rating: Ratings \cup {0},
                                       discloseAt: Nat]]]
  /\ req \in [Requests -> Request]
  /\ since \in [Participants -> SUBSET Actions]
  /\ shown \subseteq Keys

Init ==
  /\ now = 0 /\ crashes = 0
  /\ delivered = {}
  /\ counter = [p \in Participants |-> 0]
  /\ prompt = [a \in Actions |-> [s \in Sides |-> NoPrompt]]
  /\ review = [a \in Actions |-> [s \in Sides |-> NoReview]]
  /\ req = [r \in Requests |-> Idle]
  /\ since = [p \in Participants |-> {}]
  /\ shown = {}

-----------------------------------------------------------------------------
(* recordCompletedAction, from the status change that delivers a trip.      *)

\* transitionTrip reads the row before it commits, so two requests may both
\* find the trip undelivered and both record it.
ReadToDeliver(r, a) ==
  /\ req[r] = Idle /\ r \in Recorders
  /\ a \notin delivered
  /\ req' = [req EXCEPT ![r] = [op |-> "deliver", action |-> a]]
  /\ UNCHANGED <<now, tables, crashes, history>>

CommitDelivery(r) ==
  /\ req[r].op = "deliver"
  /\ delivered' = delivered \cup {req[r].action}
  /\ req' = [req EXCEPT ![r].op = "record"]
  /\ UNCHANGED <<now, counter, prompt, review, crashes, history>>

\* The sides that are asked: a customer only when it can log in to answer.
PlannedSides(a) ==
  {s \in Sides : s = "customer" => Rater[a]["customer"] \in HasLogin}

planReviewPrompts(r) ==
  /\ req[r].op = "record"
  /\ req' = [req EXCEPT ![r] = [op |-> "ask", action |-> req[r].action,
                                todo |-> PlannedSides(req[r].action),
                                discloseAt |-> now + Window]]
  /\ UNCHANGED <<now, tables, crashes, history>>

\* The customer's side comes first.
NextSide(todo) == IF "customer" \in todo THEN "customer" ELSE "org"
Asked(r) == Rater[req[r].action][NextSide(req[r].todo)]
\* The loop goes on with the other sides.
GoOn(r) ==
  LET left == req[r].todo \ {NextSide(req[r].todo)}
  IN  req' = [req EXCEPT ![r] =
        IF left = {} THEN Idle
        ELSE [op |-> "ask", action |-> req[r].action, todo |-> left,
              discloseAt |-> req[r].discloseAt]]

\* One upsert that increments the row and returns it.
bumpSampling(r) ==
  /\ req[r].op = "ask"
  /\ req[r].todo # {}
  /\ counter' = [counter EXCEPT ![Asked(r)] = @ + 1]
  /\ since' = [since EXCEPT ![Asked(r)] = @ \cup {req[r].action}]
  /\ req' = [req EXCEPT ![r] = [op |-> "draw", action |-> req[r].action,
                                todo |-> req[r].todo,
                                discloseAt |-> req[r].discloseAt,
                                count |-> counter[Asked(r)] + 1]]
  /\ UNCHANGED <<now, delivered, prompt, review, crashes, shown>>

\* The cap of sampleDecision; above it the draw may fall either way.
MayPrompt_AtTheCap(count) == count >= REVIEW_MIN_ACTIONS
MayPrompt(count) == count > REVIEW_MIN_ACTIONS

NotSampled(r) ==
  /\ req[r].op = "draw"
  /\ GoOn(r)
  /\ UNCHANGED <<now, tables, crashes, history>>

\* The draw said yes: create the prompt, unless the unique key has it already.
CreatePrompt(r) ==
  /\ req[r].op = "draw"
  /\ MayPrompt(req[r].count)
  /\ LET a == req[r].action
         s == NextSide(req[r].todo)
     IN  IF prompt[a][s] # NoPrompt
         THEN GoOn(r) /\ UNCHANGED <<prompt, since>>
         ELSE /\ prompt' = [prompt EXCEPT ![a][s] =
                   [state |-> "open", discloseAt |-> req[r].discloseAt]]
              /\ since' = [since EXCEPT ![Rater[a][s]] = {}]
              /\ req' = [req EXCEPT ![r] = [op |-> "reset", action |-> a,
                            todo |-> req[r].todo, discloseAt |-> req[r].discloseAt]]
  /\ UNCHANGED <<now, delivered, counter, review, crashes, shown>>

ResetSampling(r) ==
  /\ req[r].op = "reset"
  /\ counter' = [counter EXCEPT ![Asked(r)] = 0]
  /\ GoOn(r)
  /\ UNCHANGED <<now, delivered, prompt, review, crashes, history>>

-----------------------------------------------------------------------------
(* submitReview: POST /reviews, by the rater the prompt asks.               *)

ReadPrompt(r, a, s, rating) ==
  /\ req[r] = Idle
  /\ prompt[a][s].state = "open"
  /\ req' = [req EXCEPT ![r] = [op |-> "submit", action |-> a, side |-> s,
                                rating |-> rating]]
  /\ UNCHANGED <<now, tables, crashes, history>>

\* One transaction: the row and the prompt's stamp; the unique key of the row
\* turns a second submit into already_reviewed.
CommitReview_Upserts(r) ==
  /\ req[r].op = "submit"
  /\ LET a == req[r].action
         s == req[r].side
     IN  /\ review' = [review EXCEPT ![a][s] =
              [written |-> TRUE, rating |-> req[r].rating,
               discloseAt |-> prompt[a][s].discloseAt]]
         /\ prompt' = [prompt EXCEPT ![a][s].state = "submitted"]
  /\ req' = [req EXCEPT ![r] = Idle]
  /\ UNCHANGED <<now, delivered, counter, crashes, history>>
CommitReview_StampsReviewed(r) ==
  /\ req[r].op = "submit"
  /\ LET a == req[r].action
         s == req[r].side
     IN  IF review[a][s].written
         THEN UNCHANGED <<review, prompt>>
         ELSE /\ review' = [review EXCEPT ![a][s] =
                   [written |-> TRUE, rating |-> req[r].rating,
                    discloseAt |-> prompt[a][s].discloseAt]]
              /\ prompt' = [prompt EXCEPT ![a][s].state = "reviewed"]
  /\ req' = [req EXCEPT ![r] = Idle]
  /\ UNCHANGED <<now, delivered, counter, crashes, history>>
CommitReview(r) ==
  /\ req[r].op = "submit"
  /\ LET a == req[r].action
         s == req[r].side
     IN  IF review[a][s].written
         THEN UNCHANGED <<review, prompt>>
         ELSE /\ review' = [review EXCEPT ![a][s] =
                   [written |-> TRUE, rating |-> req[r].rating,
                    discloseAt |-> prompt[a][s].discloseAt]]
              /\ prompt' = [prompt EXCEPT ![a][s].state = "submitted"]
  /\ req' = [req EXCEPT ![r] = Idle]
  /\ UNCHANGED <<now, delivered, counter, crashes, history>>

-----------------------------------------------------------------------------
(* summarizeSubject: GET /reviews/summary/:subjectType/:subjectId.          *)

\* First the reviews about the subject ...
ReadReviews(r, p) ==
  /\ req[r] = Idle
  /\ LET rows == {x \in Keys : review[x[1]][x[2]].written /\ Rater[x[1]][Other(x[2])] = p}
     IN  /\ rows # {}
         /\ req' = [req EXCEPT ![r] = [op |-> "summary", rows |-> rows]]
  /\ UNCHANGED <<now, tables, crashes, history>>

\* ... then both sides of the same actions, and what is revealed by now counts.
bothSides_Any(a) == \E s \in Sides : review[a][s].written
bothSides(a) == \A s \in Sides : review[a][s].written
isRevealed(a, s) == bothSides(a) \/ review[a][s].discloseAt <= now

AnswerSummary(r) ==
  /\ req[r].op = "summary"
  /\ shown' = shown \cup {x \in req[r].rows : isRevealed(x[1], x[2])}
  /\ req' = [req EXCEPT ![r] = Idle]
  /\ UNCHANGED <<now, tables, crashes, since>>

-----------------------------------------------------------------------------
\* The process dies, or the next statement throws.
Crash(r) ==
  /\ req[r] # Idle
  /\ crashes < MaxCrashes
  /\ crashes' = crashes + 1
  /\ req' = [req EXCEPT ![r] = Idle]
  /\ UNCHANGED <<now, tables, history>>

Tick ==
  /\ now < MaxTime
  /\ now' = now + 1
  /\ UNCHANGED <<tables, req, crashes, history>>

Next ==
  \/ Tick
  \/ \E r \in Requests :
       \/ \E a \in Actions : ReadToDeliver(r, a)
       \/ CommitDelivery(r)
       \/ planReviewPrompts(r)
       \/ bumpSampling(r)
       \/ NotSampled(r)
       \/ CreatePrompt(r)
       \/ ResetSampling(r)
       \/ \E a \in Actions, s \in Sides, n \in Ratings : ReadPrompt(r, a, s, n)
       \/ CommitReview(r)
       \/ \E p \in Participants : ReadReviews(r, p)
       \/ AnswerSummary(r)
       \/ Crash(r)

Spec == Init /\ [][Next]_vars

-----------------------------------------------------------------------------
\* "A participant is asked at most once per 10+ actions", as long as no request has
\* died: when deliveries are recorded one after the other, the counter, its bump and
\* its reset leave more than REVIEW_MIN_ACTIONS actions between two prompts.
AskedRarelyUncrashed ==
  [][\A a \in Actions, s \in Sides :
       crashes = 0 /\ prompt[a][s] = NoPrompt /\ prompt'[a][s] # NoPrompt
         => Cardinality(since[Rater[a][s]]) > REVIEW_MIN_ACTIONS]_vars

\* "A one-sided rating cannot be used for retaliation": whoever writes a review
\* before the counterpart's deadline has not been shown the counterpart's, although
\* a summary takes its two reads at different times.
NoRetaliation ==
  [][\A a \in Actions, s \in Sides :
       /\ ~review[a][s].written /\ review'[a][s].written
       /\ now < review[a][Other(s)].discloseAt
       => <<a, Other(s)>> \notin shown]_vars

\* A review is immutable: two submits of one prompt that overlap keep the first.
ReviewIsFinal ==
  [][\A a \in Actions, s \in Sides :
       review[a][s].written => review'[a][s] = review[a][s]]_vars

=============================================================================
