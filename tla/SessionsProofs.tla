---------------------------- MODULE SessionsProofs ----------------------------
(***************************************************************************)
(* What Sessions promises, for any number of accounts, addresses, owners,  *)
(* codes, keys, challenges and requests, and any limits.  A request acts   *)
(* on what it read before; the invariant says what of it still holds, and  *)
(* that the rows only age is why it does.                                  *)
(***************************************************************************)
EXTENDS Sessions, FiniteSetTheorems, TLAPS

\* The accounts that were ever made.
Accounts == {u \in Users : user[u].status # "absent"}

\* Past the point where a code or challenge was paid with.
Spent == {"used", "deleted"}
Paying == {"find", "open"}

\* The key that answers a challenge.
KeyOf(h) == cred[challenge[h].cred]

\* What a request still holds, against the rows as they are when it goes on.
SoundHeld(q) ==
  /\ q \in Request
  /\ q.op \in {"accept", "reject"} => user[q.user].status # "absent"
  /\ q.op \in {"accept", "reject", "open"} => q.user \notin q.gone
  /\ q.op \in {"burn", "find"} => q.gone \subseteq Gone
  /\ q.op \in Paying => code[q.code].status \in Spent
  /\ q.op \in {"challenge", "revoke"} => cred[q.cred].status # "absent"
  /\ q.op = "answer" =>
       /\ challenge[q.challenge].status # "absent" /\ KeyOf(q.challenge).status # "absent"
       /\ KeyOf(q.challenge).user \in q.gone => KeyOf(q.challenge).orphan
  /\ q.op = "delete" =>
       /\ \A v \in q.others : v \in Owners /\ v # q.user /\ OrgOf[v] = OrgOf[q.user]
       /\ q.user \in Owners => q.others # {}
HeldIsSound == \A r \in Requests : SoundHeld(req[r])

\* A challenge is for a key that was registered.
ChallengesHaveKeys ==
  \A h \in Challenges : challenge[h].status # "absent" => KeyOf(h).status # "absent"

\* What is paid with is paid with once.
PaidOnce ==
  /\ \A r, s \in Requests :
       req[r].op \in Paying /\ req[s].op \in Paying /\ req[r].code = req[s].code => r = s
  /\ \A g \in grant :
       /\ g.by \in CodeIds =>
            /\ code[g.by].status \in Spent
            /\ \A r \in Requests : req[r].op \in Paying => req[r].code # g.by
       /\ g.by \in Challenges => challenge[g.by].status \in Spent

\* The counter keeps up with the wrong passwords, unless a stale read was written.
CountsAgree ==
  /\ \A u \in Users \ stale : wrong[u] <= user[u].failed
  /\ \A u \in Users : user[u].status = "absent" => wrong[u] = 0

SessionInv ==
  /\ TypeOK /\ IsFiniteSet(Accounts) /\ IsFiniteSet(grant)
  /\ HeldIsSound /\ PaidOnce /\ OneSessionEach
  /\ ChallengesHaveKeys /\ GoneForGood /\ OwnersLeaveTogether
  /\ CountsAgree /\ LockAtTheLimit

-----------------------------------------------------------------------------
(* The kinds of steps.                                                     *)

\* A request begins, goes on or ends, and no row changes.
ReadStep ==
  \E r \in Requests :
    \/ \E a \in Addresses, right \in BOOLEAN : LoginRead(r, a, right)
    \/ \E u \in Users, p \in Purposes : RequestCode(r, u, p)
    \/ IssueLook(r)
    \/ \E u \in Users, p \in Purposes, right \in BOOLEAN : RedeemRead(r, u, p, right)
    \/ VerifyFind(r)
    \/ \E u \in Users : RegisterDevice(r, u)
    \/ \E c \in Creds : RequestChallenge(r, c)
    \/ \E h \in Challenges : VerifyDevice(r, h)
    \/ \E actor \in Users, c \in Creds : RequestRevoke(r, actor, c)
    \/ \E u \in Users : RequestDeletion(r, u)
    \/ CountAdmins(r)
    \/ EndRequest(r)

AccountStep ==
  \/ \E u \in Users : Register(u) \/ LockRunsOut(u)
  \/ \E r \in Requests : WrongPassword(r) \/ RightPassword(r) \/ VerifyOpen(r) \/ ConfirmEmail(r)

CodeStep ==
  \/ \E i \in CodeIds : CodeExpires(i) \/ ResendGapEnds(i)
  \/ \E r \in Requests :
       \/ IssueWipe(r) \/ IssueCreate(r)
       \/ \E delivered \in BOOLEAN : IssueSend(r, delivered)
       \/ RedeemMiss(r) \/ RedeemBurn(r)

CredStep == \E r \in Requests : BindDevice(r) \/ RevokeDevice(r)

ChallengeStep ==
  \/ \E h \in Challenges : ChallengeExpires(h)
  \/ \E r \in Requests : CreateChallenge(r) \/ BurnChallenge(r)

LEMMA StepKinds ==
  ASSUME [Next]_vars
  PROVE  \/ ReadStep \/ AccountStep \/ CodeStep \/ CredStep \/ ChallengeStep
         \/ \E r \in Requests : CommitDeletion(r)
         \/ UNCHANGED vars
BY DEF Next, ReadStep, AccountStep, CodeStep, CredStep, ChallengeStep

LEMMA ReadFrame == ReadStep => UNCHANGED <<rows, history>>
<1> SUFFICES ASSUME ReadStep PROVE UNCHANGED <<rows, history>>
  OBVIOUS
<1> QED
  BY DEF ReadStep, LoginRead, RequestCode, IssueLook, RedeemRead, VerifyFind, RegisterDevice,
         RequestChallenge, VerifyDevice, RequestRevoke, RequestDeletion, CountAdmins, EndRequest,
         Begin

LEMMA AccountFrame == AccountStep => UNCHANGED <<code, cred, challenge, crossed>>
BY DEF AccountStep, Register, LockRunsOut, WrongPassword, RightPassword, VerifyOpen,
       ConfirmEmail, history

LEMMA CodeFrame == CodeStep => UNCHANGED <<user, cred, challenge, history>>
BY DEF CodeStep, CodeExpires, ResendGapEnds, IssueWipe, IssueCreate, IssueSend, RedeemMiss,
       RedeemBurn

LEMMA CredFrame == CredStep => UNCHANGED <<user, code, challenge, history>>
BY DEF CredStep, BindDevice, RevokeDevice

LEMMA ChallengeFrame ==
  ChallengeStep => UNCHANGED <<user, code, cred, wrong, stale, crossed>>
BY DEF ChallengeStep, ChallengeExpires, CreateChallenge, BurnChallenge, history

-----------------------------------------------------------------------------
(* Requests in flight.                                                     *)

LEMMA HeldFields ==
  ASSUME NEW q \in Request
  PROVE  /\ q.op \in {"accept", "reject"} =>
              q.user \in Users /\ q.failed \in Nat /\ q.gone \subseteq Users
         /\ q.op \in {"issue", "wipe", "create"} => q.address \in Addresses /\ q.purpose \in Purposes
         /\ q.op \in {"send", "miss", "burn", "find", "open"} => q.code \in CodeIds
         /\ q.op = "miss" => q.attempts \in Nat
         /\ q.op \in {"burn", "find", "open", "answer"} => q.gone \subseteq Users
         /\ q.op \in {"burn", "open", "confirm", "bind", "count", "delete"} => q.user \in Users
         /\ q.op \in {"challenge", "revoke"} => q.cred \in Creds
         /\ q.op = "answer" => q.challenge \in Challenges
         /\ q.op = "delete" => q.others \subseteq Users
BY DEF Request, Idle

LEMMA HeldForms ==
  /\ Idle \in Request
  /\ \A u \in Users, n \in Nat, gone \in SUBSET Users : \A op \in {"accept", "reject"} :
       [op |-> op, user |-> u, failed |-> n, gone |-> gone] \in Request
  /\ \A a \in Addresses, p \in Purposes : \A op \in {"issue", "wipe", "create"} :
       [op |-> op, address |-> a, purpose |-> p] \in Request
  /\ \A i \in CodeIds : [op |-> "send", code |-> i] \in Request
  /\ \A i \in CodeIds, n \in Nat : [op |-> "miss", code |-> i, attempts |-> n] \in Request
  /\ \A i \in CodeIds, u \in Users, gone \in SUBSET Users : \A op \in {"burn", "open"} :
       [op |-> op, code |-> i, user |-> u, gone |-> gone] \in Request
  /\ \A i \in CodeIds, gone \in SUBSET Users :
       [op |-> "find", code |-> i, gone |-> gone] \in Request
  /\ \A u \in Users : \A op \in {"confirm", "bind", "count"} : [op |-> op, user |-> u] \in Request
  /\ \A c \in Creds : \A op \in {"challenge", "revoke"} : [op |-> op, cred |-> c] \in Request
  /\ \A h \in Challenges, gone \in SUBSET Users :
       [op |-> "answer", challenge |-> h, gone |-> gone] \in Request
  /\ \A u \in Users, others \in SUBSET Users :
       [op |-> "delete", user |-> u, others |-> others] \in Request
BY DEF Request

\* The one edit of what is held.
LEMMA HeldEdited ==
  ASSUME NEW q \in Request
  PROVE  /\ q.op = "issue" => [q EXCEPT !.op = "wipe"] \in Request /\ [q EXCEPT !.op = "wipe"].op = "wipe"
         /\ q.op = "wipe" => [q EXCEPT !.op = "create"] \in Request /\ [q EXCEPT !.op = "create"].op = "create"
BY DEF Request, Idle

LEMMA GoneAreUsers == Gone \subseteq Users
BY DEF Gone

-----------------------------------------------------------------------------
(* Rows only age.                                                          *)

RowsAge ==
  /\ \A u \in Users :
       /\ user[u].status # "absent" => user'[u].status # "absent"
       /\ user[u].status = "deleted" => user'[u].status = "deleted"
  /\ \A i \in CodeIds : code[i].status \in Spent => code'[i].status \in Spent
  /\ \A c \in Creds : cred[c].status # "absent" =>
       /\ cred'[c].status # "absent"
       /\ cred'[c].user = cred[c].user /\ cred'[c].orphan = cred[c].orphan
       /\ cred[c].status = "revoked" => cred'[c].status = "revoked"
  /\ \A h \in Challenges : challenge[h].status # "absent" =>
       /\ challenge'[h].status # "absent" /\ challenge'[h].cred = challenge[h].cred
       /\ challenge[h].status \in Spent => challenge'[h].status \in Spent

LEMMA AccountsAge ==
  ASSUME TypeOK, AccountStep
  PROVE  \A u \in Users :
           \/ user'[u].status = user[u].status
           \/ user[u].status = "absent" /\ user'[u].status = "live"
<1>a. user \in [Users -> User] /\ \A r \in Requests : req[r] \in Request
  BY DEF TypeOK
<1>1. ASSUME NEW v \in Users, Register(v)
      PROVE  user' = [user EXCEPT ![v] = NewAccount] /\ user[v].status = "absent"
  BY <1>1 DEF Register
<1>2. ASSUME NEW v \in Users, LockRunsOut(v) \/ ResetCounters(v)
      PROVE  \A u \in Users : user'[u].status = user[u].status
  BY <1>2, <1>a DEF LockRunsOut, ResetCounters, User
<1>3. ASSUME NEW r \in Requests, WrongPassword(r)
      PROVE  \A u \in Users : user'[u].status = user[u].status
  BY <1>3, <1>a DEF WrongPassword, User
<1>4. ASSUME NEW r \in Requests, RightPassword(r) \/ VerifyOpen(r)
      PROVE  \A u \in Users : user'[u].status = user[u].status
  <2>1. req[r].user \in Users
    BY <1>4, <1>a, HeldFields DEF RightPassword, VerifyOpen
  <2> QED BY <1>2, <1>4, <2>1 DEF RightPassword, VerifyOpen
<1>5. ASSUME NEW r \in Requests, ConfirmEmail(r)
      PROVE  \A u \in Users : user'[u].status = user[u].status
  BY <1>5, <1>a DEF ConfirmEmail, User
<1>6. NewAccount.status = "live"
  BY DEF NewAccount
<1> QED BY <1>a, <1>1, <1>2, <1>3, <1>4, <1>5, <1>6 DEF AccountStep, User

LEMMA DeletedAreSpent ==
  ASSUME NEW S
  PROVE  \A i \in CodeIds :
           /\ i \in S => DeletedCodes(S)[i] = [code[i] EXCEPT !.status = "deleted"]
           /\ i \notin S => DeletedCodes(S)[i] = code[i]
BY DEF DeletedCodes

LEMMA CodesAge ==
  ASSUME TypeOK, CodeStep \/ \E r \in Requests : CommitDeletion(r)
  PROVE  \A i \in CodeIds : code[i].status \in Spent => code'[i].status \in Spent
<1>a. code \in [CodeIds -> Code]
  BY DEF TypeOK
<1>b. ASSUME NEW S, code' = DeletedCodes(S)
      PROVE  \A i \in CodeIds : code[i].status \in Spent => code'[i].status \in Spent
  <2>1. \A x \in Code : [x EXCEPT !.status = "deleted"].status = "deleted"
    BY DEF Code
  <2>2. \A i \in CodeIds : code'[i] = code[i] \/ code'[i].status = "deleted"
    <3> SUFFICES ASSUME NEW i \in CodeIds
                 PROVE  code'[i] = code[i] \/ code'[i].status = "deleted"
      OBVIOUS
    <3>1. code[i] \in Code /\ [code[i] EXCEPT !.status = "deleted"].status = "deleted"
      BY <1>a, <2>1
    <3> QED BY <1>b, <3>1, DeletedAreSpent
  <2> QED BY <2>2 DEF Spent
<1>1. ASSUME NEW i \in CodeIds, CodeExpires(i) \/ ResendGapEnds(i)
      PROVE  \A j \in CodeIds : code'[j].status = code[j].status
  BY <1>1, <1>a DEF CodeExpires, ResendGapEnds, Code
<1>2. ASSUME NEW r \in Requests, IssueWipe(r) PROVE \E S : code' = DeletedCodes(S)
  BY <1>2 DEF IssueWipe
<1>3. ASSUME NEW r \in Requests, IssueCreate(r)
      PROVE  \A j \in CodeIds : code'[j] = code[j] \/ code[j].status = "absent"
  BY <1>3, <1>a DEF IssueCreate
<1>4. ASSUME NEW r \in Requests, NEW d \in BOOLEAN, IssueSend(r, d)
      PROVE  code' = code \/ \E S : code' = DeletedCodes(S)
  BY <1>4 DEF IssueSend
<1>5. ASSUME NEW r \in Requests, RedeemMiss(r)
      PROVE  \A j \in CodeIds : code'[j].status = code[j].status
  BY <1>5, <1>a DEF RedeemMiss, Code
<1>6. ASSUME NEW r \in Requests, RedeemBurn(r)
      PROVE  \A j \in CodeIds : code'[j].status = code[j].status \/ code'[j].status = "used"
  BY <1>6, <1>a DEF RedeemBurn, Code
<1>7. ASSUME NEW r \in Requests, CommitDeletion(r) PROVE \E S : code' = DeletedCodes(S)
  BY <1>7 DEF CommitDeletion
<1> QED BY <1>b, <1>1, <1>2, <1>3, <1>4, <1>5, <1>6, <1>7 DEF CodeStep, Spent

LEMMA CredsAge ==
  ASSUME TypeOK, CredStep \/ \E r \in Requests : CommitDeletion(r)
  PROVE  \A c \in Creds : cred[c].status # "absent" =>
           /\ cred'[c].status # "absent"
           /\ cred'[c].user = cred[c].user /\ cred'[c].orphan = cred[c].orphan
           /\ cred[c].status = "revoked" => cred'[c].status = "revoked"
<1>a. cred \in [Creds -> Cred]
  BY DEF TypeOK
<1>1. ASSUME NEW r \in Requests, BindDevice(r)
      PROVE  \A c \in Creds : cred'[c] = cred[c] \/ cred[c].status = "absent"
  BY <1>1, <1>a DEF BindDevice
<1>2. ASSUME NEW r \in Requests, RevokeDevice(r) \/ CommitDeletion(r)
      PROVE  \A c \in Creds : cred'[c] = cred[c] \/ cred'[c] = [cred[c] EXCEPT !.status = "revoked"]
  BY <1>2, <1>a DEF RevokeDevice, CommitDeletion
<1>3. \A x \in Cred : LET y == [x EXCEPT !.status = "revoked"]
                      IN  y.status = "revoked" /\ y.user = x.user /\ y.orphan = x.orphan
  BY DEF Cred
<1>4. ASSUME NEW r \in Requests, RevokeDevice(r) \/ CommitDeletion(r), NEW c \in Creds
      PROVE  \/ cred'[c] = cred[c]
             \/ /\ cred'[c].status = "revoked" /\ cred'[c].user = cred[c].user
                /\ cred'[c].orphan = cred[c].orphan
  <2>1. cred[c] \in Cred
    BY <1>a
  <2>2. /\ [cred[c] EXCEPT !.status = "revoked"].status = "revoked"
        /\ [cred[c] EXCEPT !.status = "revoked"].user = cred[c].user
        /\ [cred[c] EXCEPT !.status = "revoked"].orphan = cred[c].orphan
    BY <1>3, <2>1
  <2> QED BY <1>2, <1>4, <2>2
<1> QED BY <1>1, <1>4 DEF CredStep

LEMMA ChallengesAge ==
  ASSUME TypeOK, ChallengeStep \/ \E r \in Requests : CommitDeletion(r)
  PROVE  \A h \in Challenges : challenge[h].status # "absent" =>
           /\ challenge'[h].status # "absent" /\ challenge'[h].cred = challenge[h].cred
           /\ challenge[h].status \in Spent => challenge'[h].status \in Spent
<1>a. challenge \in [Challenges -> Challenge]
  BY DEF TypeOK
<1>1. ASSUME NEW h \in Challenges, ChallengeExpires(h)
      PROVE  \A k \in Challenges : challenge'[k] = challenge[k] \/
               (challenge[k].status = "open" /\ challenge'[k] = [challenge[k] EXCEPT !.status = "expired"])
  BY <1>1, <1>a DEF ChallengeExpires
<1>2. ASSUME NEW r \in Requests, CreateChallenge(r)
      PROVE  \A k \in Challenges : challenge'[k] = challenge[k] \/ challenge[k].status = "absent"
  BY <1>2, <1>a DEF CreateChallenge
<1>3. ASSUME NEW r \in Requests, BurnChallenge(r)
      PROVE  \A k \in Challenges :
               challenge'[k] = challenge[k] \/ challenge'[k] = [challenge[k] EXCEPT !.status = "used"]
  BY <1>3, <1>a DEF BurnChallenge
<1>4. ASSUME NEW r \in Requests, CommitDeletion(r)
      PROVE  \A k \in Challenges :
               challenge'[k] = challenge[k] \/ challenge'[k] = [challenge[k] EXCEPT !.status = "deleted"]
  BY <1>4, <1>a DEF CommitDeletion
<1>5. \A x \in Challenge, s \in {"expired", "used", "deleted"} :
        [x EXCEPT !.status = s].status = s /\ [x EXCEPT !.status = s].cred = x.cred
  BY DEF Challenge
<1>6. ASSUME NEW k \in Challenges, challenge[k].status # "absent"
      PROVE  \/ challenge'[k] = challenge[k]
             \/ /\ challenge'[k].cred = challenge[k].cred
                /\ \/ challenge'[k].status \in Spent
                   \/ challenge[k].status = "open" /\ challenge'[k].status = "expired"
  <2>1. /\ [challenge[k] EXCEPT !.status = "expired"].status = "expired"
        /\ [challenge[k] EXCEPT !.status = "used"].status = "used"
        /\ [challenge[k] EXCEPT !.status = "deleted"].status = "deleted"
        /\ [challenge[k] EXCEPT !.status = "expired"].cred = challenge[k].cred
        /\ [challenge[k] EXCEPT !.status = "used"].cred = challenge[k].cred
        /\ [challenge[k] EXCEPT !.status = "deleted"].cred = challenge[k].cred
    BY <1>a, <1>5
  <2> QED BY <1>1, <1>2, <1>3, <1>4, <1>6, <2>1 DEF ChallengeStep, Spent
<1> QED BY <1>6 DEF Spent

LEMMA StepAges ==
  ASSUME TypeOK, [Next]_vars
  PROVE  RowsAge
<1>1. ASSUME NEW r \in Requests, CommitDeletion(r)
      PROVE  \A u \in Users :
               /\ user[u].status # "absent" => user'[u].status # "absent"
               /\ user[u].status = "deleted" => user'[u].status = "deleted"
  <2>1. Tombstone.status = "deleted"
    BY DEF Tombstone, NewAccount
  <2> QED BY <1>1, <2>1 DEF CommitDeletion, TypeOK
<1>2. CASE ReadStep
  BY <1>2, ReadFrame DEF RowsAge, rows
<1>3. CASE AccountStep
  BY <1>3, AccountFrame, AccountsAge DEF RowsAge
<1>4. CASE CodeStep
  BY <1>4, CodeFrame, CodesAge DEF RowsAge
<1>5. CASE CredStep
  BY <1>5, CredFrame, CredsAge DEF RowsAge
<1>6. CASE ChallengeStep
  BY <1>6, ChallengeFrame, ChallengesAge DEF RowsAge
<1>7. CASE \E r \in Requests : CommitDeletion(r)
  BY <1>7, <1>1, CodesAge, CredsAge, ChallengesAge DEF RowsAge
<1>8. CASE UNCHANGED vars
  BY <1>8 DEF RowsAge, vars, rows
<1> QED BY <1>2, <1>3, <1>4, <1>5, <1>6, <1>7, <1>8, StepKinds

LEMMA StaysSound ==
  ASSUME TypeOK, RowsAge, NEW q, SoundHeld(q)
  PROVE  SoundHeld(q)'
<1>1. q \in Request
  BY DEF SoundHeld
<1>2. Gone \subseteq Gone'
  BY DEF RowsAge, Gone
<1>3. q.op = "answer" =>
        /\ challenge'[q.challenge].status # "absent"
        /\ challenge'[q.challenge].cred = challenge[q.challenge].cred
        /\ challenge[q.challenge].cred \in Creds
  BY <1>1, HeldFields DEF SoundHeld, RowsAge, TypeOK
<1>4. q.op = "answer" =>
        (KeyOf(q.challenge).user \in q.gone => KeyOf(q.challenge).orphan)'
  <2> SUFFICES ASSUME q.op = "answer"
               PROVE  (KeyOf(q.challenge).user \in q.gone => KeyOf(q.challenge).orphan)'
    OBVIOUS
  <2>1. cred[challenge[q.challenge].cred].status # "absent"
    BY DEF SoundHeld, KeyOf
  <2>2. KeyOf(q.challenge)'.user = KeyOf(q.challenge).user
        /\ KeyOf(q.challenge)'.orphan = KeyOf(q.challenge).orphan
    BY <1>3, <2>1 DEF KeyOf, RowsAge
  <2> QED BY <2>2 DEF SoundHeld
<1>5. q.op = "answer" => KeyOf(q.challenge)'.status # "absent"
  BY <1>3 DEF SoundHeld, KeyOf, RowsAge
<1>6. q.op \in {"accept", "reject"} => user'[q.user].status # "absent"
  BY <1>1, HeldFields DEF SoundHeld, RowsAge
<1>7. q.op \in Paying => code'[q.code].status \in Spent
  <2>1. q.op \in Paying => q.code \in CodeIds
    BY <1>1, HeldFields DEF Paying
  <2> QED BY <2>1 DEF SoundHeld, RowsAge
<1>8. q.op \in {"challenge", "revoke"} => cred'[q.cred].status # "absent"
  BY <1>1, HeldFields DEF SoundHeld, RowsAge
<1>9. q.op \in {"burn", "find"} => q.gone \subseteq Gone'
  BY <1>2 DEF SoundHeld
<1> QED BY <1>1, <1>3, <1>4, <1>5, <1>6, <1>7, <1>8, <1>9 DEF SoundHeld

-----------------------------------------------------------------------------
(* What a step leaves in flight.                                           *)

\* Request r goes on with q; it comes to pay only from paying or from a code
\* that nobody had paid with.
Turn(r, q) ==
  /\ req' = [req EXCEPT ![r] = q]
  /\ SoundHeld(q)'
  /\ q.op \in Paying => \/ req[r].op \in Paying /\ q.code = req[r].code
                        \/ code[q.code].status \notin Spent

LEMMA IdleIsSound == SoundHeld(Idle)' /\ Idle.op = "idle"
BY HeldForms DEF SoundHeld, Idle, Paying

\* Who is not the last owner has a fellow.
LEMMA FellowsRemain ==
  ASSUME IsFiniteSet(Accounts), NEW u, ~(Cardinality(activeAdmins(OrgOf[u])) <= 1)
  PROVE  Fellows(u) # {}
<1>1. activeAdmins(OrgOf[u]) \subseteq Accounts
  BY Roles DEF activeAdmins, Accounts
<1>2. IsFiniteSet({u}) /\ Cardinality({u}) = 1
  BY FS_Singleton
<1>3. activeAdmins(OrgOf[u]) \subseteq {u} => Cardinality(activeAdmins(OrgOf[u])) <= 1
  BY <1>2, FS_Subset
<1>4. PICK v \in activeAdmins(OrgOf[u]) : v # u
  BY <1>3
<1> QED BY <1>4, Roles DEF activeAdmins, Fellows, Live

\* What begins has something to act on; what goes on has not lost it.
LEMMA ReadsTurn ==
  ASSUME TypeOK, HeldIsSound, IsFiniteSet(Accounts), GoneForGood, ReadStep
  PROVE  sent' \in 0 .. MaxRequests /\ \E r \in Requests : \E q : Turn(r, q)
<1>a. \A r \in Requests : req[r] \in Request /\ SoundHeld(req[r])
  BY DEF TypeOK, HeldIsSound
<1>b. UNCHANGED <<rows, history>> /\ RowsAge
  BY ReadFrame DEF RowsAge, rows
<1>c. ASSUME NEW r \in Requests, NEW q, SoundHeld(q), Begin(r, q) \/ Continue(r, q),
             q.op \in Paying => req[r].op \in Paying /\ q.code = req[r].code
      PROVE  sent' \in 0 .. MaxRequests /\ \E t \in Requests : \E p : Turn(t, p)
  <2>1. SoundHeld(q)'
    BY <1>b, <1>c, StaysSound
  <2>2. Turn(r, q)
    BY <1>c, <2>1 DEF Turn, Begin, Continue
  <2>3. sent' \in 0 .. MaxRequests
    BY <1>c, Limits DEF Begin, Continue, TypeOK
  <2> QED BY <2>2, <2>3
<1>d. ASSUME NEW r \in Requests, End(r)
      PROVE  sent' \in 0 .. MaxRequests /\ \E t \in Requests : \E p : Turn(t, p)
  <2>1. Turn(r, Idle)
    BY <1>d, IdleIsSound DEF Turn, End, Continue, Paying
  <2> QED BY <1>d, <2>1 DEF End, Continue, TypeOK
<1>e. Gone \in SUBSET Users /\ \A u \in Live : u \in Users \ Gone
  BY DEF Gone, Live
<1> SUFFICES ASSUME NEW r \in Requests,
                    \/ \E a \in Addresses, right \in BOOLEAN : LoginRead(r, a, right)
                    \/ \E u \in Users, p \in Purposes : RequestCode(r, u, p)
                    \/ IssueLook(r)
                    \/ \E u \in Users, p \in Purposes, right \in BOOLEAN : RedeemRead(r, u, p, right)
                    \/ VerifyFind(r)
                    \/ \E u \in Users : RegisterDevice(r, u)
                    \/ \E c \in Creds : RequestChallenge(r, c)
                    \/ \E h \in Challenges : VerifyDevice(r, h)
                    \/ \E actor \in Users, c \in Creds : RequestRevoke(r, actor, c)
                    \/ \E u \in Users : RequestDeletion(r, u)
                    \/ CountAdmins(r)
                    \/ EndRequest(r)
             PROVE  sent' \in 0 .. MaxRequests /\ \E t \in Requests : \E p : Turn(t, p)
  BY DEF ReadStep
<1> USE DEF Paying
<1>1. CASE \E a \in Addresses, right \in BOOLEAN : LoginRead(r, a, right)
  <2>1. PICK a \in Addresses, right \in BOOLEAN : LoginRead(r, a, right)
    BY <1>1
  <2>2. PICK u \in Mailbox(a) :
          Begin(r, [op |-> IF right THEN "accept" ELSE "reject", user |-> u,
                    failed |-> user[u].failed, gone |-> Gone])
    BY <2>1 DEF LoginRead
  <2>3. PICK q : q = [op |-> IF right THEN "accept" ELSE "reject", user |-> u,
                      failed |-> user[u].failed, gone |-> Gone]
    OBVIOUS
  <2>4. u \in Live /\ user[u].failed \in Nat
    BY DEF Mailbox, Live, TypeOK, User
  <2>5. q \in Request
    <3>1. (IF right THEN "accept" ELSE "reject") \in {"accept", "reject"}
      OBVIOUS
    <3> QED BY <1>e, <2>3, <2>4, <3>1, HeldForms
  <2>6. SoundHeld(q)
    BY <1>e, <2>3, <2>4, <2>5 DEF SoundHeld, Live
  <2> QED BY <1>c, <2>2, <2>3, <2>6
<1>2. CASE \E u \in Users, p \in Purposes : RequestCode(r, u, p)
  <2>1. PICK u \in Users, p \in Purposes :
          Begin(r, [op |-> "issue", address |-> AddressOf[u], purpose |-> p])
    BY <1>2 DEF RequestCode
  <2>2. PICK q : q = [op |-> "issue", address |-> AddressOf[u], purpose |-> p]
    OBVIOUS
  <2>3. q \in Request
    BY <2>2, HeldForms DEF Addresses
  <2>4. SoundHeld(q)
    BY <2>2, <2>3 DEF SoundHeld
  <2> QED BY <1>c, <2>1, <2>2, <2>4
<1>3. CASE IssueLook(r)
  <2>1. CASE End(r)
    BY <1>d, <2>1
  <2>2. CASE Continue(r, [req[r] EXCEPT !.op = "wipe"])
    <3>1. PICK q : q = [req[r] EXCEPT !.op = "wipe"]
      OBVIOUS
    <3>2. q \in Request /\ q.op = "wipe"
      BY <1>3, <1>a, <3>1, HeldEdited DEF IssueLook
    <3>3. SoundHeld(q)
      BY <3>2 DEF SoundHeld
    <3> QED BY <1>c, <2>2, <3>1, <3>2, <3>3
  <2> QED BY <1>3, <2>1, <2>2 DEF IssueLook
<1>4. CASE \E u \in Users, p \in Purposes, right \in BOOLEAN : RedeemRead(r, u, p, right)
  <2>1. PICK u \in Users, p \in Purposes, right \in BOOLEAN : RedeemRead(r, u, p, right)
    BY <1>4
  <2>2. PICK i \in CodeIds :
          Begin(r, IF right THEN [op |-> "burn", code |-> i, user |-> u, gone |-> Gone]
                            ELSE [op |-> "miss", code |-> i, attempts |-> code[i].attempts])
    BY <2>1 DEF RedeemRead, Newest, CodesOf
  <2>3. PICK q : q = IF right THEN [op |-> "burn", code |-> i, user |-> u, gone |-> Gone]
                     ELSE [op |-> "miss", code |-> i, attempts |-> code[i].attempts]
    OBVIOUS
  <2>4. code[i].attempts \in Nat
    BY DEF TypeOK, Code
  <2>5. q \in Request
    BY <1>e, <2>3, <2>4, HeldForms
  <2>6. SoundHeld(q) /\ q.op \in {"burn", "miss"}
    BY <2>3, <2>5 DEF SoundHeld
  <2> QED BY <1>c, <2>2, <2>3, <2>6
<1>5. CASE VerifyFind(r)
  <2>1. CASE End(r)
    BY <1>d, <2>1
  <2>2. ASSUME NEW u \in Mailbox(code[req[r].code].address),
               Continue(r, [op |-> "open", code |-> req[r].code, user |-> u, gone |-> req[r].gone])
        PROVE  sent' \in 0 .. MaxRequests /\ \E t \in Requests : \E p : Turn(t, p)
    <3>1. PICK q : q = [op |-> "open", code |-> req[r].code, user |-> u, gone |-> req[r].gone]
      OBVIOUS
    <3>2. /\ req[r].op = "find" /\ req[r].code \in CodeIds /\ req[r].gone \in SUBSET Users
          /\ req[r].gone \subseteq Gone /\ code[req[r].code].status \in Spent
      BY <1>5, <1>a, HeldFields DEF VerifyFind, SoundHeld
    <3>3. u \in Live
      BY DEF Mailbox
    <3>4. q \in Request
      BY <1>e, <3>1, <3>2, <3>3, HeldForms
    <3>5. SoundHeld(q)
      BY <1>e, <3>1, <3>2, <3>3, <3>4 DEF SoundHeld
    <3> QED BY <1>c, <2>2, <3>1, <3>2, <3>5
  <2> QED BY <1>5, <2>1, <2>2 DEF VerifyFind
<1>6. CASE \E u \in Users : RegisterDevice(r, u)
  <2>1. PICK u \in Users : Begin(r, [op |-> "bind", user |-> u])
    BY <1>6 DEF RegisterDevice
  <2>2. PICK q : q = [op |-> "bind", user |-> u]
    OBVIOUS
  <2>3. SoundHeld(q)
    BY <2>2, HeldForms DEF SoundHeld
  <2> QED BY <1>c, <2>1, <2>2, <2>3
<1>7. CASE \E c \in Creds : RequestChallenge(r, c)
  <2>1. PICK c \in Creds : cred[c].status = "live" /\ Begin(r, [op |-> "challenge", cred |-> c])
    BY <1>7 DEF RequestChallenge
  <2>2. PICK q : q = [op |-> "challenge", cred |-> c]
    OBVIOUS
  <2>3. SoundHeld(q)
    BY <2>1, <2>2, HeldForms DEF SoundHeld
  <2> QED BY <1>c, <2>1, <2>2, <2>3
<1>8. CASE \E h \in Challenges : VerifyDevice(r, h)
  <2>1. PICK h \in Challenges : VerifyDevice(r, h)
    BY <1>8
  <2>2. PICK q : q = [op |-> "answer", challenge |-> h, gone |-> Gone]
    OBVIOUS
  <2>3. q \in Request
    BY <1>e, <2>2, HeldForms
  <2>4. challenge[h].status = "open" /\ KeyOf(h).status = "live" /\ challenge[h].cred \in Creds
    BY <2>1 DEF VerifyDevice, challengeUsable, KeyOf, TypeOK
  <2>5. KeyOf(h).user \in Gone => KeyOf(h).orphan
    BY <2>4 DEF GoneForGood, KeyOf
  <2>6. SoundHeld(q)
    BY <2>2, <2>3, <2>4, <2>5 DEF SoundHeld
  <2> QED BY <1>c, <2>1, <2>2, <2>6 DEF VerifyDevice
<1>9. CASE \E actor \in Users, c \in Creds : RequestRevoke(r, actor, c)
  <2>1. PICK c \in Creds : cred[c].status = "live" /\ Begin(r, [op |-> "revoke", cred |-> c])
    BY <1>9 DEF RequestRevoke
  <2>2. PICK q : q = [op |-> "revoke", cred |-> c]
    OBVIOUS
  <2>3. SoundHeld(q)
    BY <2>1, <2>2, HeldForms DEF SoundHeld
  <2> QED BY <1>c, <2>1, <2>2, <2>3
<1>10. CASE \E u \in Users : RequestDeletion(r, u)
  <2>1. PICK u \in Users : Begin(r, [op |-> "count", user |-> u])
    BY <1>10 DEF RequestDeletion
  <2>2. PICK q : q = [op |-> "count", user |-> u]
    OBVIOUS
  <2>3. SoundHeld(q)
    BY <2>2, HeldForms DEF SoundHeld
  <2> QED BY <1>c, <2>1, <2>2, <2>3
<1>11. CASE CountAdmins(r)
  <2>1. CASE End(r)
    BY <1>d, <2>1
  <2> DEFINE u == req[r].user
  <2>2. CASE ~lastOwnerRefusal(u) /\ Continue(r, [op |-> "delete", user |-> u, others |-> Fellows(u)])
    <3>1. PICK q : q = [op |-> "delete", user |-> u, others |-> Fellows(u)]
      OBVIOUS
    <3>2. u \in Users
      BY <1>11, <1>a, HeldFields DEF CountAdmins
    <3>3. u \in Owners => Fellows(u) # {}
      BY <2>2, FellowsRemain DEF lastOwnerRefusal
    <3>4. /\ Fellows(u) \in SUBSET Users
          /\ \A v \in Fellows(u) : v \in Owners /\ v # u /\ OrgOf[v] = OrgOf[u]
      BY DEF Fellows, Live
    <3>5. SoundHeld(q)
      BY <3>1, <3>2, <3>3, <3>4, HeldForms DEF SoundHeld
    <3> QED BY <1>c, <2>2, <3>1, <3>5
  <2> QED BY <1>11, <2>1, <2>2 DEF CountAdmins
<1>12. CASE EndRequest(r)
  BY <1>12, <1>d DEF EndRequest
<1> QED BY <1>1, <1>2, <1>3, <1>4, <1>5, <1>6, <1>7, <1>8, <1>9, <1>10, <1>11, <1>12

\* The step that writes: the request ends, or goes on with what is sound now.
LEMMA WritesTurn ==
  ASSUME TypeOK, HeldIsSound,
         AccountStep \/ CodeStep \/ CredStep \/ ChallengeStep \/ \E r \in Requests : CommitDeletion(r)
  PROVE  /\ sent' \in 0 .. MaxRequests
         /\ req' = req \/ \E r \in Requests : \E q : Turn(r, q)
<1> DEFINE Goal == /\ sent' \in 0 .. MaxRequests
                   /\ req' = req \/ \E r \in Requests : \E q : Turn(r, q)
<1>a. \A r \in Requests : req[r] \in Request /\ SoundHeld(req[r])
  BY DEF TypeOK, HeldIsSound
<1>b. ASSUME NEW r \in Requests, NEW q, SoundHeld(q)', Continue(r, q),
             q.op \in Paying => \/ req[r].op \in Paying /\ q.code = req[r].code
                                \/ code[q.code].status \notin Spent
      PROVE  Goal
  BY <1>b DEF Turn, Continue, TypeOK
<1>c. ASSUME NEW r \in Requests, End(r)
      PROVE  Goal
  BY <1>b, <1>c, IdleIsSound DEF End, Paying
<1>d. ASSUME req' = req, sent' = sent \/ (sent < MaxRequests /\ sent' = sent + 1)
      PROVE  Goal
  BY <1>d, Limits DEF TypeOK
<1> SUFFICES Goal
  OBVIOUS
<1> HIDE DEF Goal
<1>1. CASE AccountStep
  BY <1>1, <1>c, <1>d DEF AccountStep, Register, LockRunsOut, WrongPassword, RightPassword,
                          VerifyOpen, ConfirmEmail
<1>2. CASE CredStep
  BY <1>2, <1>c DEF CredStep, BindDevice, RevokeDevice
<1>3. CASE ChallengeStep
  BY <1>3, <1>c, <1>d DEF ChallengeStep, ChallengeExpires, CreateChallenge, BurnChallenge
<1>4. CASE \E r \in Requests : CommitDeletion(r)
  BY <1>4, <1>c DEF CommitDeletion
<1>5. CASE \E i \in CodeIds : CodeExpires(i) \/ ResendGapEnds(i)
  BY <1>5, <1>d DEF CodeExpires, ResendGapEnds
<1>6. ASSUME NEW r \in Requests, IssueWipe(r) PROVE Goal
  <2>1. PICK q : q = [req[r] EXCEPT !.op = "create"]
    OBVIOUS
  <2>2. q \in Request /\ q.op = "create"
    BY <1>6, <1>a, <2>1, HeldEdited DEF IssueWipe
  <2>3. SoundHeld(q)'
    BY <2>2 DEF SoundHeld, Paying
  <2> QED BY <1>6, <1>b, <2>1, <2>2, <2>3 DEF IssueWipe, Paying
<1>7. ASSUME NEW r \in Requests, IssueCreate(r) PROVE Goal
  <2>1. PICK i \in CodeIds : Continue(r, [op |-> "send", code |-> i])
    BY <1>7 DEF IssueCreate
  <2>2. PICK q : q = [op |-> "send", code |-> i]
    OBVIOUS
  <2>3. SoundHeld(q)'
    BY <2>2, HeldForms DEF SoundHeld, Paying
  <2> QED BY <1>b, <2>1, <2>2, <2>3 DEF Paying
<1>8. ASSUME NEW r \in Requests, NEW delivered \in BOOLEAN, IssueSend(r, delivered) PROVE Goal
  BY <1>8, <1>c DEF IssueSend
<1>9. ASSUME NEW r \in Requests, RedeemMiss(r) PROVE Goal
  BY <1>9, <1>c DEF RedeemMiss
<1>10. ASSUME NEW r \in Requests, RedeemBurn(r) PROVE Goal
  <2> DEFINE i == req[r].code
  <2>1. /\ req[r].op = "burn" /\ i \in CodeIds /\ req[r].user \in Users
        /\ req[r].gone \in SUBSET Users /\ req[r].gone \subseteq Gone
    BY <1>10, <1>a, HeldFields DEF RedeemBurn, SoundHeld
  <2>2. CASE ~MayBurn(i)
    BY <1>10, <1>c, <2>2 DEF RedeemBurn
  <2>3. CASE MayBurn(i)
    <3>1. /\ code[i].status = "open" /\ code' = [code EXCEPT ![i].status = "used"]
          /\ user' = user
          /\ Continue(r, IF code[i].purpose = "verify"
                         THEN [op |-> "confirm", user |-> req[r].user]
                         ELSE [op |-> "find", code |-> i, gone |-> req[r].gone])
      BY <1>10, <2>3 DEF RedeemBurn, MayBurn
    <3>2. code'[i].status = "used" /\ Gone' = Gone
      BY <2>1, <3>1 DEF TypeOK, Code, Gone
    <3>3. PICK q : q = IF code[i].purpose = "verify"
                       THEN [op |-> "confirm", user |-> req[r].user]
                       ELSE [op |-> "find", code |-> i, gone |-> req[r].gone]
      OBVIOUS
    <3>4. q \in Request
      BY <2>1, <3>3, HeldForms
    <3>5. q.op \in {"confirm", "find"} /\ (q.op = "find" => q.code = i /\ q.gone = req[r].gone)
      BY <3>3
    <3>6. SoundHeld(q)'
      BY <2>1, <3>2, <3>4, <3>5 DEF SoundHeld, Paying, Spent
    <3> QED BY <1>b, <3>1, <3>3, <3>5, <3>6 DEF Paying, Spent
  <2> QED BY <2>2, <2>3
<1>11. CASE CodeStep
  BY <1>11, <1>5, <1>6, <1>7, <1>8, <1>9, <1>10 DEF CodeStep
<1> QED BY <1>1, <1>2, <1>3, <1>4, <1>11

LEMMA StepHeld ==
  ASSUME TypeOK, HeldIsSound, IsFiniteSet(Accounts), GoneForGood, [Next]_vars
  PROVE  /\ HeldIsSound' /\ req' \in [Requests -> Request]
         /\ sent' \in 0 .. MaxRequests
         /\ req' = req \/ \E r \in Requests : \E q : Turn(r, q)
<1>1. /\ sent' \in 0 .. MaxRequests
      /\ req' = req \/ \E r \in Requests : \E q : Turn(r, q)
  <2>1. CASE UNCHANGED vars
    BY <2>1 DEF vars, TypeOK
  <2> QED BY <2>1, StepKinds, ReadsTurn, WritesTurn
<1>2. \A r \in Requests : SoundHeld(req[r])'
  <2>1. ASSUME NEW r \in Requests, req'[r] = req[r] PROVE SoundHeld(req[r])'
    <3>1. PICK q : q = req[r]
      OBVIOUS
    <3>2. SoundHeld(q)'
      BY <3>1, StepAges, StaysSound DEF HeldIsSound
    <3> QED BY <2>1, <3>1, <3>2
  <2>2. ASSUME NEW t \in Requests, NEW q, Turn(t, q), NEW r \in Requests PROVE SoundHeld(req[r])'
    <3>1. CASE r # t
      BY <2>1, <2>2, <3>1 DEF Turn, TypeOK
    <3>2. CASE r = t
      <4>1. req'[r] = q
        BY <2>2, <3>2 DEF Turn, TypeOK
      <4> QED BY <2>2, <4>1 DEF Turn
    <3> QED BY <3>1, <3>2
  <2> QED BY <1>1, <2>1, <2>2
<1>3. \A r \in Requests : req'[r] \in Request
  BY <1>2 DEF SoundHeld
<1>4. req' \in [Requests -> Request]
  BY <1>1, <1>3 DEF Turn, TypeOK
<1> QED BY <1>1, <1>2, <1>4 DEF HeldIsSound

-----------------------------------------------------------------------------
(* The shape of the state.                                                 *)

\* What opened a session is a code, a challenge or a password, and counting how
\* often it did stays possible.
LEMMA SignedToken ==
  ASSUME IsFiniteSet(grant), grant \subseteq Grant,
         NEW u \in Users, NEW by \in CodeIds \cup Challenges \cup {None}, NEW gone,
         signToken(u, by, gone)
  PROVE  grant' \subseteq Grant /\ IsFiniteSet(grant')
<1> DEFINE used == {g \in grant : g.by = by}
           g == [by |-> by, user |-> u, late |-> u \in gone,
                 nth |-> IF by = None THEN 1 ELSE Cardinality(used) + 1]
<1>1. Cardinality(used) \in Nat
  <2>1. IsFiniteSet(used)
    BY FS_Subset
  <2> QED BY <2>1, FS_CardinalityType
<1>2. grant' = grant \cup {g}
  BY DEF signToken
<1>3. g \in Grant
  BY <1>1 DEF Grant
<1> HIDE DEF g
<1> QED BY <1>2, <1>3, FS_AddElement

LEMMA AccountsAreTyped ==
  ASSUME TypeOK, IsFiniteSet(grant), AccountStep \/ \E r \in Requests : CommitDeletion(r)
  PROVE  /\ user' \in [Users -> User] /\ wrong' \in [Users -> Nat]
         /\ stale' \subseteq Users /\ crossed' \subseteq Orgs
         /\ grant' \subseteq Grant /\ IsFiniteSet(grant')
<1>a. user \in [Users -> User] /\ wrong \in [Users -> Nat] /\ \A r \in Requests : req[r] \in Request
  BY DEF TypeOK
<1>b. stale \subseteq Users /\ crossed \subseteq Orgs /\ grant \subseteq Grant
  BY DEF TypeOK
<1>c. NewAccount \in User /\ Tombstone \in User
  BY DEF NewAccount, Tombstone, User
<1>d. \A x \in User : \A n \in Nat, b \in BOOLEAN :
        /\ [x EXCEPT !.failed = n, !.locked = b] \in User
        /\ [x EXCEPT !.locked = b] \in User /\ [x EXCEPT !.confirmed = b] \in User
  BY DEF User
<1>e. ASSUME NEW u \in Users, ResetCounters(u)
      PROVE  user' \in [Users -> User] /\ wrong' \in [Users -> Nat]
  <2>1. [user[u] EXCEPT !.failed = 0, !.locked = FALSE] \in User
    BY <1>a, <1>d
  <2>2. user' = [user EXCEPT ![u] = [user[u] EXCEPT !.failed = 0, !.locked = FALSE]]
    BY <1>a, <1>e DEF ResetCounters, User
  <2> QED BY <1>a, <1>e, <2>1, <2>2 DEF ResetCounters
<1>1. ASSUME NEW u \in Users, Register(u) PROVE user' \in [Users -> User] /\ UNCHANGED history
  BY <1>1, <1>a, <1>c DEF Register
<1>2. ASSUME NEW u \in Users, LockRunsOut(u)
      PROVE  user' \in [Users -> User] /\ wrong' \in [Users -> Nat] /\ UNCHANGED <<grant, stale, crossed>>
  BY <1>2, <1>a DEF LockRunsOut, User
<1>3. ASSUME NEW r \in Requests, WrongPassword(r)
      PROVE  /\ user' \in [Users -> User] /\ wrong' \in [Users -> Nat]
             /\ stale' \subseteq Users /\ UNCHANGED <<grant, crossed>>
  <2>1. req[r].user \in Users /\ req[r].failed \in Nat
    BY <1>3, <1>a, HeldFields DEF WrongPassword
  <2> QED BY <1>3, <1>a, <1>b, <2>1 DEF WrongPassword, User, Locks
<1>4. ASSUME NEW r \in Requests, RightPassword(r)
      PROVE  /\ user' \in [Users -> User] /\ wrong' \in [Users -> Nat]
             /\ grant' \subseteq Grant /\ IsFiniteSet(grant') /\ UNCHANGED <<stale, crossed>>
  <2>1. req[r].user \in Users
    BY <1>4, <1>a, HeldFields DEF RightPassword
  <2> QED BY <1>4, <1>b, <1>e, <2>1, SignedToken DEF RightPassword
<1>5. ASSUME NEW r \in Requests, VerifyOpen(r)
      PROVE  /\ user' \in [Users -> User] /\ wrong' \in [Users -> Nat]
             /\ grant' \subseteq Grant /\ IsFiniteSet(grant') /\ UNCHANGED <<stale, crossed>>
  <2>1. req[r].user \in Users /\ req[r].code \in CodeIds
    BY <1>5, <1>a, HeldFields DEF VerifyOpen
  <2> QED BY <1>5, <1>b, <1>e, <2>1, SignedToken DEF VerifyOpen
<1>6. ASSUME NEW r \in Requests, ConfirmEmail(r)
      PROVE  user' \in [Users -> User] /\ UNCHANGED history
  BY <1>6, <1>a DEF ConfirmEmail, User
<1>7. ASSUME NEW r \in Requests, CommitDeletion(r)
      PROVE  /\ user' \in [Users -> User] /\ wrong' \in [Users -> Nat]
             /\ crossed' \subseteq Orgs /\ UNCHANGED <<grant, stale>>
  <2>1. req[r].user \in Users
    BY <1>7, <1>a, HeldFields DEF CommitDeletion
  <2> QED BY <1>7, <1>a, <1>b, <1>c, <2>1 DEF CommitDeletion, Orgs
<1> QED BY <1>a, <1>b, <1>1, <1>2, <1>3, <1>4, <1>5, <1>6, <1>7 DEF AccountStep, history

LEMMA CodesAreTyped ==
  ASSUME TypeOK, CodeStep \/ \E r \in Requests : CommitDeletion(r)
  PROVE  code' \in [CodeIds -> Code]
<1>a. code \in [CodeIds -> Code] /\ \A r \in Requests : req[r] \in Request
  BY DEF TypeOK
<1>b. ASSUME NEW S, code' = DeletedCodes(S) PROVE code' \in [CodeIds -> Code]
  <2>1. \A x \in Code : [x EXCEPT !.status = "deleted"] \in Code
    BY DEF Code
  <2>2. \A i \in CodeIds : [code[i] EXCEPT !.status = "deleted"] \in Code
    BY <1>a, <2>1
  <2> QED BY <1>a, <1>b, <2>2 DEF DeletedCodes
<1>1. ASSUME NEW i \in CodeIds, CodeExpires(i) \/ ResendGapEnds(i) PROVE code' \in [CodeIds -> Code]
  <2>1. code[i] \in Code
    BY <1>a
  <2>2. /\ [code[i] EXCEPT !.expired = TRUE] \in Code
        /\ [code[i] EXCEPT !.recent = FALSE] \in Code
    BY <2>1 DEF Code
  <2>3. code' = [code EXCEPT ![i] = [code[i] EXCEPT !.expired = TRUE]]
        \/ code' = [code EXCEPT ![i] = [code[i] EXCEPT !.recent = FALSE]]
    BY <1>1, <1>a DEF CodeExpires, ResendGapEnds
  <2> QED BY <1>a, <2>2, <2>3
<1>2. ASSUME NEW r \in Requests, IssueWipe(r) PROVE code' \in [CodeIds -> Code]
  BY <1>2, <1>b DEF IssueWipe
<1>3. ASSUME NEW r \in Requests, IssueCreate(r) PROVE code' \in [CodeIds -> Code]
  <2>1. req[r].address \in Addresses /\ req[r].purpose \in Purposes
    BY <1>3, <1>a, HeldFields DEF IssueCreate
  <2> QED BY <1>3, <1>a, <2>1 DEF IssueCreate, Code
<1>4. ASSUME NEW r \in Requests, NEW d \in BOOLEAN, IssueSend(r, d)
      PROVE  code' \in [CodeIds -> Code]
  BY <1>4, <1>a, <1>b DEF IssueSend
<1>5. ASSUME NEW r \in Requests, RedeemMiss(r) PROVE code' \in [CodeIds -> Code]
  <2>1. req[r].attempts \in Nat /\ req[r].code \in CodeIds
    BY <1>5, <1>a, HeldFields DEF RedeemMiss
  <2> QED BY <1>5, <1>a, <2>1 DEF RedeemMiss, Code
<1>6. ASSUME NEW r \in Requests, RedeemBurn(r) PROVE code' \in [CodeIds -> Code]
  BY <1>6, <1>a DEF RedeemBurn, Code
<1>7. ASSUME NEW r \in Requests, CommitDeletion(r) PROVE code' \in [CodeIds -> Code]
  BY <1>7, <1>b DEF CommitDeletion
<1> QED BY <1>1, <1>2, <1>3, <1>4, <1>5, <1>6, <1>7 DEF CodeStep

LEMMA KeysAreTyped ==
  ASSUME TypeOK, HeldIsSound, CredStep \/ \E r \in Requests : CommitDeletion(r)
  PROVE  /\ cred' \in [Creds -> Cred]
         /\ \A c \in Creds : cred'[c].status # "absent" => cred'[c].user \in Users
<1>a. /\ cred \in [Creds -> Cred] /\ \A r \in Requests : req[r] \in Request
      /\ \A c \in Creds : cred[c].status # "absent" => cred[c].user \in Users
  BY DEF TypeOK
<1>1. ASSUME NEW r \in Requests, BindDevice(r)
      PROVE  cred' \in [Creds -> Cred] /\ \A c \in Creds : cred'[c] = cred[c] \/ cred'[c].user \in Users
  <2>1. req[r].user \in Users
    BY <1>1, <1>a, HeldFields DEF BindDevice
  <2> QED BY <1>1, <1>a, <2>1 DEF BindDevice, Cred
<1>2. ASSUME NEW r \in Requests, RevokeDevice(r) \/ CommitDeletion(r)
      PROVE  cred' \in [Creds -> Cred]
  BY <1>2, <1>a DEF RevokeDevice, CommitDeletion, Cred
<1>3. ASSUME NEW r \in Requests, CommitDeletion(r) \/ RevokeDevice(r)
      PROVE  \A c \in Creds : cred'[c] = cred[c] \/ cred[c].status # "absent"
  <2>1. CASE CommitDeletion(r)
    BY <2>1 DEF CommitDeletion, DeadKeys
  <2>2. CASE RevokeDevice(r)
    BY <1>a, <2>2 DEF RevokeDevice, HeldIsSound, SoundHeld
  <2> QED BY <1>3, <2>1, <2>2
<1>4. ASSUME NEW c \in Creds, cred'[c].status # "absent" PROVE cred'[c].user \in Users
  BY <1>a, <1>1, <1>3, <1>4, CredsAge DEF CredStep
<1>5. cred' \in [Creds -> Cred]
  BY <1>1, <1>2 DEF CredStep
<1> QED BY <1>4, <1>5

LEMMA ChallengesAreTyped ==
  ASSUME TypeOK, HeldIsSound, IsFiniteSet(grant),
         ChallengeStep \/ \E r \in Requests : CommitDeletion(r)
  PROVE  /\ challenge' \in [Challenges -> Challenge]
         /\ \A h \in Challenges : challenge'[h].status # "absent" => challenge'[h].cred \in Creds
         /\ grant' \subseteq Grant /\ IsFiniteSet(grant')
<1>a. /\ challenge \in [Challenges -> Challenge] /\ \A r \in Requests : req[r] \in Request
      /\ \A h \in Challenges : challenge[h].status # "absent" => challenge[h].cred \in Creds
      /\ grant \subseteq Grant
  BY DEF TypeOK
<1>b. \A x \in Challenge, s \in {"expired", "used", "deleted"} :
        [x EXCEPT !.status = s] \in Challenge /\ [x EXCEPT !.status = s].cred = x.cred
  BY DEF Challenge
<1>1. ASSUME NEW h \in Challenges, ChallengeExpires(h)
      PROVE  /\ challenge' \in [Challenges -> Challenge] /\ grant' = grant
             /\ \A k \in Challenges : challenge'[k] = challenge[k] \/ challenge[k].status # "absent"
  BY <1>1, <1>a, <1>b DEF ChallengeExpires, history
<1>2. ASSUME NEW r \in Requests, CreateChallenge(r)
      PROVE  /\ challenge' \in [Challenges -> Challenge] /\ grant' = grant
             /\ \A k \in Challenges : challenge'[k] = challenge[k] \/ challenge'[k].cred \in Creds
  <2>1. req[r].cred \in Creds
    BY <1>2, <1>a, HeldFields DEF CreateChallenge
  <2> QED BY <1>2, <1>a, <2>1 DEF CreateChallenge, Challenge, history
<1>3. ASSUME NEW r \in Requests, BurnChallenge(r)
      PROVE  /\ challenge' \in [Challenges -> Challenge]
             /\ grant' \subseteq Grant /\ IsFiniteSet(grant')
             /\ \A k \in Challenges : challenge'[k] = challenge[k] \/ challenge[k].status # "absent"
  <2> DEFINE h == req[r].challenge
             u == cred[challenge[h].cred].user
  <2>1. h \in Challenges /\ challenge[h].status # "absent" /\ KeyOf(h).status # "absent"
    BY <1>3, <1>a, HeldFields DEF BurnChallenge, HeldIsSound, SoundHeld
  <2>2. u \in Users
    BY <1>a, <2>1 DEF KeyOf, TypeOK
  <2>3. CASE Unused(h)
    <3>1. challenge' = [challenge EXCEPT ![h].status = "used"] /\ signToken(u, h, req[r].gone)
      BY <1>3, <2>3 DEF BurnChallenge
    <3>2. challenge' \in [Challenges -> Challenge]
      BY <1>a, <1>b, <2>1, <3>1
    <3>3. grant' \subseteq Grant /\ IsFiniteSet(grant')
      BY <1>a, <2>1, <2>2, <3>1, SignedToken
    <3> QED BY <1>a, <2>1, <3>1, <3>2, <3>3
  <2>4. CASE ~Unused(h)
    BY <1>3, <1>a, <2>4 DEF BurnChallenge
  <2> QED BY <2>3, <2>4
<1>4. ASSUME NEW r \in Requests, CommitDeletion(r)
      PROVE  /\ challenge' \in [Challenges -> Challenge] /\ grant' = grant
             /\ \A k \in Challenges : challenge'[k] = challenge[k] \/ challenge'[k].cred = challenge[k].cred
  <2> DEFINE keys == DeadKeys(req[r].user)
  <2>1. challenge' = [h \in Challenges |-> IF challenge[h].cred \in keys
                        THEN [challenge[h] EXCEPT !.status = "deleted"] ELSE challenge[h]]
        /\ grant' = grant
    BY <1>4 DEF CommitDeletion
  <2> HIDE DEF keys
  <2>2. \A h \in Challenges :
          /\ [challenge[h] EXCEPT !.status = "deleted"] \in Challenge
          /\ [challenge[h] EXCEPT !.status = "deleted"].cred = challenge[h].cred
    BY <1>a, <1>b
  <2> QED BY <1>a, <2>1, <2>2
\* A deleted challenge was one of a key.
<1>5. ASSUME NEW r \in Requests, CommitDeletion(r), NEW k \in Challenges
      PROVE  challenge'[k] = challenge[k] \/ challenge[k].cred \in Creds
  BY <1>5 DEF CommitDeletion, DeadKeys
<1>6. ASSUME NEW k \in Challenges, challenge'[k].status # "absent" PROVE challenge'[k].cred \in Creds
  BY <1>a, <1>1, <1>2, <1>3, <1>4, <1>5, <1>6, ChallengesAge DEF ChallengeStep
<1> QED BY <1>a, <1>1, <1>2, <1>3, <1>4, <1>6 DEF ChallengeStep

LEMMA StepType ==
  ASSUME TypeOK, HeldIsSound, IsFiniteSet(Accounts), IsFiniteSet(grant), GoneForGood, [Next]_vars
  PROVE  TypeOK' /\ IsFiniteSet(grant')
<1>a. req' \in [Requests -> Request] /\ sent' \in 0 .. MaxRequests
  BY StepHeld
<1> USE DEF TypeOK, history, rows
<1>1. CASE ReadStep
  BY <1>1, <1>a, ReadFrame
<1>2. CASE AccountStep
  BY <1>2, <1>a, AccountFrame, AccountsAreTyped
<1>3. CASE CodeStep
  BY <1>3, <1>a, CodeFrame, CodesAreTyped
<1>4. CASE CredStep
  BY <1>4, <1>a, CredFrame, KeysAreTyped
<1>5. CASE ChallengeStep
  BY <1>5, <1>a, ChallengeFrame, ChallengesAreTyped
<1>6. CASE \E r \in Requests : CommitDeletion(r)
  BY <1>6, <1>a, AccountsAreTyped, CodesAreTyped, KeysAreTyped, ChallengesAreTyped
<1>7. CASE UNCHANGED vars
  BY <1>7 DEF vars
<1> QED BY <1>1, <1>2, <1>3, <1>4, <1>5, <1>6, <1>7, StepKinds

\* One account is made at a time.
LEMMA StepFinite ==
  ASSUME TypeOK, HeldIsSound, IsFiniteSet(Accounts), [Next]_vars
  PROVE  IsFiniteSet(Accounts')
<1>a. user \in [Users -> User] /\ \A r \in Requests : req[r] \in Request
  BY DEF TypeOK
<1>b. ASSUME NEW v \in Users, Accounts' \subseteq Accounts \cup {v}
      PROVE  IsFiniteSet(Accounts')
  <2>1. IsFiniteSet(Accounts \cup {v})
    BY FS_AddElement
  <2> QED BY <1>b, <2>1, FS_Subset
<1>c. ASSUME user' = user PROVE IsFiniteSet(Accounts')
  BY <1>c DEF Accounts
<1>d. ASSUME NEW v \in Users, \A u \in Users : u # v => user'[u] = user[u]
      PROVE  IsFiniteSet(Accounts')
  <2>1. Accounts' \subseteq Accounts \cup {v}
    BY <1>d DEF Accounts
  <2> QED BY <1>b, <2>1
<1>1. ASSUME NEW u \in Users, Register(u) \/ LockRunsOut(u) \/ ResetCounters(u)
      PROVE  IsFiniteSet(Accounts')
  BY <1>1, <1>a, <1>d DEF Register, LockRunsOut, ResetCounters
<1>2. ASSUME NEW r \in Requests,
             WrongPassword(r) \/ RightPassword(r) \/ VerifyOpen(r) \/ ConfirmEmail(r) \/ CommitDeletion(r)
      PROVE  IsFiniteSet(Accounts')
  <2>1. req[r].user \in Users
    BY <1>2, <1>a, HeldFields
       DEF WrongPassword, RightPassword, VerifyOpen, ConfirmEmail, CommitDeletion
  <2>2. \A u \in Users : u # req[r].user => user'[u] = user[u]
    BY <1>2, <1>a
       DEF WrongPassword, RightPassword, VerifyOpen, ConfirmEmail, CommitDeletion, ResetCounters
  <2> QED BY <1>d, <2>1, <2>2
<1>3. CASE AccountStep
  BY <1>1, <1>2, <1>3 DEF AccountStep
<1> QED BY <1>c, <1>2, <1>3, StepKinds, ReadFrame, CodeFrame, CredFrame, ChallengeFrame
        DEF rows, vars

-----------------------------------------------------------------------------
(* Codes and challenges.                                                   *)

LEMMA StepPaid ==
  ASSUME TypeOK, HeldIsSound, IsFiniteSet(Accounts), IsFiniteSet(grant), GoneForGood,
         PaidOnce, OneSessionEach, [Next]_vars
  PROVE  PaidOnce' /\ OneSessionEach'
<1>a. req \in [Requests -> Request] /\ \A r \in Requests : SoundHeld(req[r])
  BY DEF TypeOK, HeldIsSound
<1>b. /\ \A i \in CodeIds : code[i].status \in Spent => code'[i].status \in Spent
      /\ \A h \in Challenges : challenge[h].status \in Spent => challenge'[h].status \in Spent
  <2>1. \A h \in Challenges : challenge[h].status \in Spent => challenge[h].status # "absent"
    BY DEF Spent
  <2> QED BY <2>1, StepAges DEF RowsAge
\* Who pays now paid before, with the same code, or is the first to.
<1>c. ASSUME NEW r \in Requests, req'[r].op \in Paying
      PROVE  \/ req[r].op \in Paying /\ req'[r].code = req[r].code
             \/ code[req'[r].code].status \notin Spent
  <2>1. CASE req' = req
    BY <1>c, <2>1
  <2>2. ASSUME NEW t \in Requests, NEW q, Turn(t, q)
        PROVE  \/ req[r].op \in Paying /\ req'[r].code = req[r].code
               \/ code[req'[r].code].status \notin Spent
    <3>1. CASE r = t
      BY <1>a, <1>c, <2>2, <3>1 DEF Turn
    <3>2. CASE r # t
      BY <1>a, <1>c, <2>2, <3>2 DEF Turn
    <3> QED BY <3>1, <3>2
  <2> QED BY <2>1, <2>2, StepHeld
<1>d. ASSUME NEW r \in Requests, NEW s \in Requests, r # s,
             req'[r].op \in Paying, req'[s].op \in Paying
      PROVE  req'[r].code # req'[s].code
  <2>1. req'[r] = req[r] \/ req'[s] = req[s]
    BY <1>a, <1>d, StepHeld DEF Turn
  <2>2. ASSUME NEW x \in Requests, NEW y \in Requests, x # y, req'[x] = req[x],
               req'[x].op \in Paying, req'[y].op \in Paying
        PROVE  req'[x].code # req'[y].code
    <3>1. code[req[x].code].status \in Spent
      BY <1>a, <2>2 DEF SoundHeld
    <3>2. CASE req[y].op \in Paying /\ req'[y].code = req[y].code
      BY <2>2, <3>2 DEF PaidOnce
    <3>3. CASE code[req'[y].code].status \notin Spent
      BY <2>2, <3>1, <3>3
    <3> QED BY <1>c, <2>2, <3>2, <3>3
  <2> QED BY <1>d, <2>1, <2>2
\* An old session: what paid for it is paid with still.
<1>e. ASSUME NEW g \in grant
      PROVE  /\ g.nth = 1
             /\ g.by \in CodeIds => /\ code'[g.by].status \in Spent
                                    /\ \A r \in Requests : req'[r].op \in Paying => req'[r].code # g.by
             /\ g.by \in Challenges => challenge'[g.by].status \in Spent
  <2>1. g.by \in CodeIds => code[g.by].status \in Spent
    BY DEF PaidOnce
  <2>2. ASSUME NEW r \in Requests, g.by \in CodeIds, req'[r].op \in Paying
        PROVE  req'[r].code # g.by
    BY <1>c, <2>1, <2>2 DEF PaidOnce
  <2> QED BY <1>b, <2>1, <2>2 DEF PaidOnce, OneSessionEach
<1>f. ASSUME \A g \in grant' : g \in grant
               \/ /\ g.nth = 1
                  /\ g.by \in CodeIds => /\ code'[g.by].status \in Spent
                                         /\ \A r \in Requests : req'[r].op \in Paying => req'[r].code # g.by
                  /\ g.by \in Challenges => challenge'[g.by].status \in Spent
      PROVE  PaidOnce' /\ OneSessionEach'
  <2>1. PaidOnce'
    BY <1>d, <1>e, <1>f DEF PaidOnce
  <2>2. OneSessionEach'
    BY <1>e, <1>f DEF OneSessionEach
  <2> QED BY <2>1, <2>2
\* The first session of a code or a challenge, and any of a password.
<1>g. ASSUME NEW u, NEW by, NEW gone, signToken(u, by, gone),
             by = None \/ \A g \in grant : g.by # by
      PROVE  \E g : grant' = grant \cup {g} /\ g.nth = 1 /\ g.by = by
  <2>1. PICK g : g = [by |-> by, user |-> u, late |-> u \in gone,
                      nth |-> IF by = None THEN 1 ELSE Cardinality({k \in grant : k.by = by}) + 1]
    OBVIOUS
  <2>2. g.nth = 1
    <3>1. CASE by = None
      BY <2>1, <3>1
    <3>2. CASE \A k \in grant : k.by # by
      <4>1. {k \in grant : k.by = by} = {}
        BY <3>2
      <4>2. Cardinality({k \in grant : k.by = by}) = 0
        BY <4>1, FS_EmptySet
      <4> QED BY <2>1, <4>2
    <3> QED BY <1>g, <3>1, <3>2
  <2>3. g.by = by
    BY <2>1
  <2>4. grant' = grant \cup {g}
    BY <1>g, <2>1 DEF signToken
  <2> QED BY <2>2, <2>3, <2>4
<1>1. ASSUME grant' = grant PROVE PaidOnce' /\ OneSessionEach'
  BY <1>1, <1>f
<1>2. ASSUME NEW r \in Requests, RightPassword(r) PROVE PaidOnce' /\ OneSessionEach'
  <2>1. PICK g : grant' = grant \cup {g} /\ g.nth = 1 /\ g.by = None
    BY <1>2, <1>g DEF RightPassword
  <2>2. None \notin CodeIds /\ None \notin Challenges
    BY NoneIsNoRow DEF CodeIds
  <2> QED BY <1>f, <2>1, <2>2
<1>3. ASSUME NEW r \in Requests, VerifyOpen(r) PROVE PaidOnce' /\ OneSessionEach'
  <2>1. /\ req[r].op \in Paying /\ req[r].code \in CodeIds /\ code[req[r].code].status \in Spent
        /\ code' = code /\ req' = [req EXCEPT ![r] = Idle]
    BY <1>3, <1>a, HeldFields DEF VerifyOpen, Paying, SoundHeld, End, Continue
  <2>2. \A g \in grant : g.by # req[r].code
    BY <2>1 DEF PaidOnce
  <2>3. PICK g : grant' = grant \cup {g} /\ g.nth = 1 /\ g.by = req[r].code
    BY <1>3, <1>g, <2>2 DEF VerifyOpen
  <2>4. g.by \notin Challenges
    BY <2>1, <2>3, SourcesDiffer DEF CodeIds
  <2>5. ASSUME NEW s \in Requests, req'[s].op \in Paying PROVE req'[s].code # g.by
    <3>1. s # r /\ req'[s] = req[s]
      BY <1>a, <2>1, <2>5 DEF Idle, Paying
    <3> QED BY <2>1, <2>3, <2>5, <3>1 DEF PaidOnce
  <2> QED BY <1>f, <2>1, <2>3, <2>4, <2>5
<1>4. ASSUME NEW r \in Requests, BurnChallenge(r) PROVE PaidOnce' /\ OneSessionEach'
  <2> DEFINE h == req[r].challenge
  <2>1. h \in Challenges
    BY <1>4, <1>a, HeldFields DEF BurnChallenge
  <2>2. CASE ~Unused(h)
    BY <1>1, <1>4, <2>2 DEF BurnChallenge
  <2>3. CASE Unused(h)
    <3>1. /\ challenge' = [challenge EXCEPT ![h].status = "used"]
          /\ signToken(cred[challenge[h].cred].user, h, req[r].gone)
      BY <1>4, <2>3 DEF BurnChallenge
    <3>2. \A g \in grant : g.by # h
      BY <2>1, <2>3 DEF Unused, PaidOnce, Spent
    <3>3. PICK g : grant' = grant \cup {g} /\ g.nth = 1 /\ g.by = h
      BY <1>g, <3>1, <3>2
    <3>4. challenge'[h].status = "used"
      BY <2>1, <3>1 DEF TypeOK, Challenge
    <3>5. h \notin CodeIds
      BY <2>1, SourcesDiffer DEF CodeIds
    <3> QED BY <1>f, <3>3, <3>4, <3>5 DEF Spent
  <2> QED BY <2>2, <2>3
<1>5. CASE AccountStep
  BY <1>1, <1>2, <1>3, <1>5
     DEF AccountStep, Register, LockRunsOut, WrongPassword, ConfirmEmail, history
<1>6. CASE ChallengeStep
  BY <1>1, <1>4, <1>6 DEF ChallengeStep, ChallengeExpires, CreateChallenge, history
<1>7. CASE \E r \in Requests : CommitDeletion(r)
  BY <1>1, <1>7 DEF CommitDeletion
<1> QED BY <1>1, <1>5, <1>6, <1>7, StepKinds, ReadFrame, CodeFrame, CredFrame
        DEF history, vars

-----------------------------------------------------------------------------
(* Deleted accounts.                                                       *)

LEMMA StepKeys ==
  ASSUME TypeOK, HeldIsSound, ChallengesHaveKeys, [Next]_vars
  PROVE  ChallengesHaveKeys'
<1>a. RowsAge /\ \A r \in Requests : req[r] \in Request /\ SoundHeld(req[r])
  BY StepAges DEF TypeOK, HeldIsSound
<1>b. \A h \in Challenges : challenge[h].status # "absent" => challenge[h].cred \in Creds
  BY DEF TypeOK
<1>1. ASSUME NEW h \in Challenges, challenge[h].status # "absent"
      PROVE  KeyOf(h)'.status # "absent"
  BY <1>a, <1>b, <1>1 DEF ChallengesHaveKeys, RowsAge, KeyOf
<1>2. ASSUME NEW h \in Challenges, challenge[h].status = "absent", challenge'[h].status # "absent"
      PROVE  KeyOf(h)'.status # "absent"
  <2>1. ASSUME NEW r \in Requests, CommitDeletion(r) PROVE KeyOf(h)'.status # "absent"
    <3>1. challenge[h].cred \in DeadKeys(req[r].user)
      BY <1>2, <2>1 DEF CommitDeletion
    <3>2. [challenge[h] EXCEPT !.status = "deleted"].cred = challenge[h].cred
      BY DEF TypeOK, Challenge
    <3>3. challenge'[h].cred = challenge[h].cred
      BY <2>1, <3>1, <3>2 DEF CommitDeletion
    <3> QED BY <1>a, <3>1, <3>3 DEF DeadKeys, RowsAge, KeyOf
  <2>2. ASSUME NEW r \in Requests, CreateChallenge(r) PROVE KeyOf(h)'.status # "absent"
    <3>1. challenge'[h].cred = req[r].cred /\ cred' = cred
      BY <1>2, <2>2 DEF CreateChallenge, TypeOK
    <3> QED BY <1>a, <2>2, <3>1 DEF CreateChallenge, SoundHeld, KeyOf
  <2>3. ASSUME NEW k \in Challenges, ChallengeExpires(k) PROVE FALSE
    BY <1>2, <2>3 DEF ChallengeExpires, TypeOK
  <2>4. ASSUME NEW r \in Requests, BurnChallenge(r) PROVE FALSE
    BY <1>2, <2>4 DEF BurnChallenge, Unused, TypeOK
  <2> QED BY <1>2, <2>1, <2>2, <2>3, <2>4, StepKinds, ReadFrame, AccountFrame, CodeFrame, CredFrame
          DEF ChallengeStep, rows, vars
<1> QED BY <1>1, <1>2 DEF ChallengesHaveKeys

LEMMA StepGone ==
  ASSUME TypeOK, HeldIsSound, ChallengesHaveKeys, GoneForGood, PaidOnce, [Next]_vars
  PROVE  GoneForGood'
<1>a. req \in [Requests -> Request] /\ \A r \in Requests : SoundHeld(req[r])
  BY DEF TypeOK, HeldIsSound
\* The keys.
<1>1. ASSUME NEW c \in Creds, cred'[c].status = "live", cred'[c].user \in Gone'
      PROVE  cred'[c].orphan
  <2>1. ASSUME NEW r \in Requests, BindDevice(r) PROVE cred'[c].orphan
    <3>1. cred'[c] = cred[c] \/ (cred'[c].user = req[r].user /\ cred'[c].orphan = (req[r].user \in Gone))
      BY <2>1 DEF BindDevice, TypeOK
    <3>2. Gone' = Gone
      BY <2>1 DEF BindDevice, Gone
    <3> QED BY <1>1, <3>1, <3>2 DEF GoneForGood
  <2>2. ASSUME NEW r \in Requests, RevokeDevice(r) PROVE cred'[c].orphan
    <3>1. cred'[c] = cred[c] /\ Gone' = Gone
      BY <1>1, <2>2 DEF RevokeDevice, Gone, TypeOK, Cred
    <3> QED BY <1>1, <3>1 DEF GoneForGood
  <2>3. ASSUME NEW r \in Requests, CommitDeletion(r) PROVE cred'[c].orphan
    <3>1. cred[c] \in Cred
      BY DEF TypeOK
    <3>2. [cred[c] EXCEPT !.status = "revoked"].status = "revoked"
      BY <3>1 DEF Cred
    <3>3. c \notin DeadKeys(req[r].user) /\ cred'[c] = cred[c]
      BY <1>1, <2>3, <3>2 DEF CommitDeletion
    <3>4. cred[c].user # req[r].user
      BY <1>1, <3>3 DEF DeadKeys
    <3>5. cred[c].user \in Gone
      BY <1>1, <2>3, <3>3, <3>4 DEF CommitDeletion, Gone, TypeOK
    <3> QED BY <1>1, <3>3, <3>5 DEF GoneForGood
  <2>4. CASE AccountStep
    <3>1. cred' = cred
      BY <2>4, AccountFrame
    <3>2. Gone' \subseteq Gone
      BY <2>4, AccountsAge DEF Gone
    <3> QED BY <1>1, <3>1, <3>2 DEF GoneForGood
  <2>5. CASE UNCHANGED <<user, cred>>
    BY <1>1, <2>5 DEF GoneForGood, Gone
  <2> QED BY <2>1, <2>2, <2>3, <2>4, <2>5, StepKinds, ReadFrame, CodeFrame, ChallengeFrame
          DEF CredStep, rows, vars
\* The sessions that were opened before.
<1>2. ASSUME NEW h \in Challenges, challenge[h].status # "absent", KeyOf(h).orphan
      PROVE  KeyOf(h)'.orphan
  BY <1>2, StepAges DEF RowsAge, ChallengesHaveKeys, KeyOf, TypeOK
<1>3. ASSUME NEW g \in grant, g.late
      PROVE  g.by \in Challenges /\ KeyOf(g.by)'.orphan
  <2>1. g.by \in Challenges /\ KeyOf(g.by).orphan /\ challenge[g.by].status # "absent"
    BY <1>3 DEF GoneForGood, PaidOnce, KeyOf, Spent
  <2> QED BY <1>2, <2>1
\* The session that is opened now: its request began before the account went, or
\* answers for an orphan.
<1>0. ASSUME NEW u, NEW by, NEW gone, signToken(u, by, gone), NEW g \in grant', g \notin grant
      PROVE  g.by = by /\ (g.late => u \in gone)
  <2>1. g = [by |-> by, user |-> u, late |-> u \in gone,
             nth |-> IF by = None THEN 1 ELSE Cardinality({k \in grant : k.by = by}) + 1]
    BY <1>0 DEF signToken
  <2>2. g.by = by
    BY <2>1
  <2>3. g.late = (u \in gone)
    BY <2>1, Zenon
  <2> QED BY <2>2, <2>3
<1>4. ASSUME NEW u, NEW by, NEW gone, signToken(u, by, gone), u \notin gone, NEW g \in grant', g.late
      PROVE  g \in grant
  BY <1>0, <1>4
<1>5. ASSUME NEW r \in Requests, RightPassword(r) \/ VerifyOpen(r), NEW g \in grant', g.late
      PROVE  g \in grant
  <2>1. req[r].user \notin req[r].gone
    BY <1>a, <1>5 DEF RightPassword, VerifyOpen, SoundHeld
  <2> QED BY <1>4, <1>5, <2>1 DEF RightPassword, VerifyOpen
<1>6. ASSUME NEW r \in Requests, BurnChallenge(r), NEW g \in grant', g.late
      PROVE  g \in grant \/ (g.by \in Challenges /\ KeyOf(g.by)'.orphan)
  <2> DEFINE h == req[r].challenge
  <2>1. /\ h \in Challenges /\ challenge[h].status # "absent"
        /\ KeyOf(h).user \in req[r].gone => KeyOf(h).orphan
    BY <1>a, <1>6, HeldFields DEF BurnChallenge, SoundHeld, TypeOK
  <2>2. CASE g \notin grant
    <3>1. signToken(KeyOf(h).user, h, req[r].gone)
      BY <1>6, <2>2 DEF BurnChallenge, KeyOf
    <3>2. g.by = h /\ (g.late => KeyOf(h).user \in req[r].gone)
      BY <1>0, <1>6, <2>2, <3>1
    <3> QED BY <1>2, <1>6, <2>1, <3>2
  <2> QED BY <2>2
<1>7. ASSUME NEW g \in grant', g.late
      PROVE  g \in grant \/ (g.by \in Challenges /\ KeyOf(g.by)'.orphan)
  <2>1. CASE grant' = grant
    BY <1>7, <2>1
  <2>2. CASE AccountStep
    BY <1>5, <1>7, <2>1, <2>2
       DEF AccountStep, Register, LockRunsOut, WrongPassword, ConfirmEmail, history
  <2>3. CASE ChallengeStep
    BY <1>6, <1>7, <2>1, <2>3 DEF ChallengeStep, ChallengeExpires, CreateChallenge, history
  <2> QED BY <2>1, <2>2, <2>3, StepKinds, ReadFrame, CodeFrame, CredFrame
          DEF history, vars, CommitDeletion
<1> QED BY <1>1, <1>3, <1>7 DEF GoneForGood, KeyOf

-----------------------------------------------------------------------------
(* The last owner, and the lockout.                                        *)

LEMMA StepOwners ==
  ASSUME TypeOK, HeldIsSound, OwnersLeaveTogether, [Next]_vars
  PROVE  OwnersLeaveTogether'
<1>1. ASSUME Gone' \subseteq Gone, Live \subseteq Live', crossed' = crossed
      PROVE  OwnersLeaveTogether'
  BY <1>1, Roles DEF OwnersLeaveTogether, Gone
<1>2. CASE AccountStep
  BY <1>1, <1>2, AccountFrame, AccountsAge DEF Gone, Live
<1>3. CASE UNCHANGED <<user, crossed>>
  BY <1>1, <1>3 DEF Gone, Live
<1>4. ASSUME NEW r \in Requests, CommitDeletion(r) PROVE OwnersLeaveTogether'
  <2> DEFINE u == req[r].user
             others == req[r].others
  <2>1. /\ u \in Users /\ user' = [user EXCEPT ![u] = Tombstone]
        /\ crossed' = IF others # {} /\ others \cap Live = {} THEN crossed \cup {OrgOf[u]} ELSE crossed
    BY <1>4, HeldFields DEF CommitDeletion, TypeOK
  <2>2. /\ \A v \in others : v \in Owners /\ v # u /\ OrgOf[v] = OrgOf[u]
        /\ u \in Owners => others # {}
    BY <1>4 DEF CommitDeletion, HeldIsSound, SoundHeld
  <2>3. Tombstone.status = "deleted"
    BY DEF Tombstone, NewAccount
  <2>4. Live' = Live \ {u} /\ Gone' = Gone \cup {u}
    BY <2>1, <2>3 DEF TypeOK, Live, Gone
  <2> HIDE DEF u, others
\* The org of the one who leaves keeps an owner, or crosses.
  <2>5. u \in Owners => \/ \E v \in Owners \cap Live' : OrgOf[v] = OrgOf[u]
                        \/ OrgOf[u] \in crossed'
    BY <2>1, <2>2, <2>4
  <2>6. ASSUME NEW w \in Owners, w \in Gone'
        PROVE  \/ \E v \in Owners \cap Live' : OrgOf[v] = OrgOf[w]
               \/ OrgOf[w] \in crossed'
    <3>1. CASE w = u
      BY <2>5, <2>6, <3>1
    <3>2. CASE w # u
      <4>1. \/ \E v \in Owners \cap Live : OrgOf[v] = OrgOf[w]
            \/ OrgOf[w] \in crossed
        BY <2>4, <2>6, <3>2 DEF OwnersLeaveTogether, Gone
      <4>2. CASE OrgOf[w] \in crossed
        BY <2>1, <4>2
      <4>3. ASSUME NEW v \in Owners \cap Live, OrgOf[v] = OrgOf[w]
            PROVE  \/ \E x \in Owners \cap Live' : OrgOf[x] = OrgOf[w]
                   \/ OrgOf[w] \in crossed'
        BY <2>4, <2>5, <4>3
      <4> QED BY <4>1, <4>2, <4>3
    <3> QED BY <3>1, <3>2
  <2> QED BY <2>6, Roles DEF OwnersLeaveTogether, Gone
<1> QED BY <1>2, <1>3, <1>4, StepKinds, ReadFrame, CodeFrame, CredFrame, ChallengeFrame
        DEF rows, history, vars

\* The counter of one account is written at a time.
LEMMA StepCounts ==
  ASSUME TypeOK, HeldIsSound, CountsAgree, LockAtTheLimit, [Next]_vars
  PROVE  CountsAgree' /\ LockAtTheLimit'
<1>a. /\ user \in [Users -> User] /\ wrong \in [Users -> Nat] /\ stale \subseteq Users
      /\ \A r \in Requests : req[r] \in Request /\ SoundHeld(req[r])
      /\ MAX_FAILED_LOGINS \in Nat \ {0}
  BY Limits DEF TypeOK, HeldIsSound
\* What is to be shown of the account that is written.
<1>b. ASSUME NEW u \in Users, stale \subseteq stale',
             \A v \in Users \ {u} : user'[v] = user[v] /\ wrong'[v] = wrong[v],
             u \notin stale' => wrong'[u] <= user'[u].failed,
             user'[u].status = "absent" => wrong'[u] = 0,
             u \notin stale' => (wrong'[u] >= MAX_FAILED_LOGINS => user'[u].locked)
      PROVE  CountsAgree' /\ LockAtTheLimit'
  <2>1. CountsAgree'
    BY <1>b DEF CountsAgree
  <2>2. LockAtTheLimit'
    BY <1>b DEF LockAtTheLimit
  <2> QED BY <2>1, <2>2
<1>c. NewAccount.failed = 0 /\ Tombstone.failed = 0 /\ Tombstone.status = "deleted"
  BY DEF NewAccount, Tombstone
<1>1. ASSUME NEW u \in Users, Register(u) PROVE CountsAgree' /\ LockAtTheLimit'
  <2>1. /\ user' = [user EXCEPT ![u] = NewAccount] /\ wrong' = wrong /\ stale' = stale
        /\ wrong[u] = 0
    BY <1>1 DEF Register, history, CountsAgree
  <2> QED BY <1>a, <1>b, <1>c, <2>1
<1>2. ASSUME NEW u \in Users, LockRunsOut(u) PROVE CountsAgree' /\ LockAtTheLimit'
  <2>1. /\ user' = [user EXCEPT ![u].locked = FALSE] /\ wrong' = [wrong EXCEPT ![u] = 0]
        /\ stale' = stale
    BY <1>2 DEF LockRunsOut
  <2>2. user'[u].failed \in Nat
    BY <1>a, <2>1 DEF User
  <2> QED BY <1>a, <1>b, <2>1, <2>2
<1>3. ASSUME NEW u \in Users, ResetCounters(u), stale' = stale PROVE CountsAgree' /\ LockAtTheLimit'
  <2>1. user'[u].failed = 0 /\ wrong'[u] = 0
    BY <1>a, <1>3 DEF ResetCounters, User
  <2> QED BY <1>a, <1>b, <1>3, <2>1 DEF ResetCounters
<1>4. ASSUME NEW r \in Requests, WrongPassword(r) PROVE CountsAgree' /\ LockAtTheLimit'
  <2> DEFINE u == req[r].user
             failed == req[r].failed + 1
  <2>1. /\ u \in Users /\ req[r].failed \in Nat /\ user[u].status # "absent"
    BY <1>a, <1>4, HeldFields DEF WrongPassword, SoundHeld
  <2>2. /\ user' = [user EXCEPT ![u].failed = failed, ![u].locked = Locks(failed)]
        /\ wrong' = [wrong EXCEPT ![u] = @ + 1]
        /\ stale' = IF user[u].failed = req[r].failed THEN stale ELSE stale \cup {u}
    BY <1>4 DEF WrongPassword
  <2>3. user[u] \in User
    BY <1>a, <2>1
  <2>4. user'[u] = [user[u] EXCEPT !.failed = failed, !.locked = Locks(failed)]
    BY <1>a, <2>1, <2>2, <2>3 DEF User
  <2>5. /\ user'[u].failed = failed /\ user'[u].status = user[u].status
    BY <2>3, <2>4 DEF User
  <2>6. user'[u].locked = Locks(failed)
    BY <2>3, <2>4 DEF User
  <2>7. wrong'[u] = wrong[u] + 1
    BY <1>a, <2>1, <2>2
  <2>8. \A v \in Users \ {u} : user'[v] = user[v] /\ wrong'[v] = wrong[v]
    BY <1>a, <2>2
  <2> HIDE DEF u
  <2>9. u \notin stale' => wrong[u] <= req[r].failed
    BY <2>1, <2>2 DEF CountsAgree
  <2>10. u \notin stale' => (wrong'[u] >= MAX_FAILED_LOGINS => failed >= MAX_FAILED_LOGINS)
    BY <1>a, <2>1, <2>7, <2>9
  <2>11. u \notin stale' => (wrong'[u] >= MAX_FAILED_LOGINS => user'[u].locked)
    BY <2>6, <2>10 DEF Locks
  <2>12. u \notin stale' => wrong'[u] <= user'[u].failed
    BY <1>a, <2>1, <2>5, <2>7, <2>9
  <2> QED BY <1>b, <2>1, <2>2, <2>5, <2>8, <2>11, <2>12
<1>5. ASSUME NEW r \in Requests, RightPassword(r) \/ VerifyOpen(r)
      PROVE  CountsAgree' /\ LockAtTheLimit'
  <2>1. req[r].user \in Users
    BY <1>a, <1>5, HeldFields DEF RightPassword, VerifyOpen
  <2> QED BY <1>3, <1>5, <2>1 DEF RightPassword, VerifyOpen
<1>6. ASSUME NEW r \in Requests, ConfirmEmail(r) PROVE CountsAgree' /\ LockAtTheLimit'
  <2>1. \A u \in Users : /\ user'[u].failed = user[u].failed /\ user'[u].status = user[u].status
                         /\ user'[u].locked = user[u].locked
    BY <1>a, <1>6 DEF ConfirmEmail, User
  <2>2. wrong' = wrong /\ stale' = stale
    BY <1>6 DEF ConfirmEmail, history
  <2> QED BY <2>1, <2>2 DEF CountsAgree, LockAtTheLimit
<1>7. ASSUME NEW r \in Requests, CommitDeletion(r) PROVE CountsAgree' /\ LockAtTheLimit'
  <2> DEFINE u == req[r].user
  <2>1. /\ u \in Users /\ user' = [user EXCEPT ![u] = Tombstone]
        /\ wrong' = [wrong EXCEPT ![u] = 0] /\ stale' = stale
    BY <1>a, <1>7, HeldFields DEF CommitDeletion
  <2> HIDE DEF u
  <2> QED BY <1>a, <1>b, <1>c, <2>1
<1>8. CASE UNCHANGED <<user, wrong, stale>>
  BY <1>8 DEF CountsAgree, LockAtTheLimit
<1> QED BY <1>1, <1>2, <1>4, <1>5, <1>6, <1>7, <1>8, StepKinds, ReadFrame, CodeFrame, CredFrame,
           ChallengeFrame
        DEF AccountStep, rows, history, vars

-----------------------------------------------------------------------------
(* The theorems.                                                           *)

LEMMA InitSession == Init => SessionInv
<1> SUFFICES ASSUME Init PROVE SessionInv
  OBVIOUS
<1> USE DEF Init
<1>1. TypeOK
  <2>1. user \in [Users -> User]
    BY DEF NewAccount, User
  <2>2. code \in [CodeIds -> Code] /\ cred \in [Creds -> Cred] /\ challenge \in [Challenges -> Challenge]
    BY DEF Code, Cred, Challenge, Purposes
  <2>3. req \in [Requests -> Request]
    BY HeldForms
  <2>4. sent \in 0 .. MaxRequests
    BY Limits
  <2> QED BY <2>1, <2>2, <2>3, <2>4 DEF TypeOK
<1>2. \A u \in Users : user[u].failed = 0 /\ user[u].status = IF u \in Members THEN "live" ELSE "absent"
  BY DEF NewAccount
<1>3. Accounts = Members
  BY <1>2, Roles DEF Accounts
<1>4. IsFiniteSet(Accounts) /\ IsFiniteSet(grant)
  BY <1>3, Roles, FS_EmptySet
<1>5. \A r \in Requests : req[r] = Idle /\ SoundHeld(req[r]) /\ req[r].op \notin Paying
  BY HeldForms DEF SoundHeld, Idle, Paying
<1>6. HeldIsSound /\ PaidOnce /\ OneSessionEach
  BY <1>5 DEF HeldIsSound, PaidOnce, OneSessionEach
<1>7. ChallengesHaveKeys /\ GoneForGood /\ OwnersLeaveTogether
  BY <1>2, Roles DEF ChallengesHaveKeys, GoneForGood, OwnersLeaveTogether
<1>8. CountsAgree /\ LockAtTheLimit
  BY <1>2, Limits DEF CountsAgree, LockAtTheLimit
<1> QED BY <1>1, <1>4, <1>6, <1>7, <1>8 DEF SessionInv

LEMMA SessionInvHolds == Spec => []SessionInv
<1>1. SessionInv /\ [Next]_vars => SessionInv'
  BY StepType, StepFinite, StepHeld, StepPaid, StepKeys, StepGone, StepOwners, StepCounts
     DEF SessionInv
<1> QED BY InitSession, <1>1, PTL DEF Spec

\* Whatever requests interleave, die half-way or come back late, rows and requests
\* stay well-formed.
THEOREM SessionsTypeCorrect == Spec => []TypeOK
<1>1. SessionInv => TypeOK
  BY DEF SessionInv
<1> QED BY <1>1, SessionInvHolds, PTL

\* No code and no challenge opens two sessions (the conditional updates of
\* auth-otp.ts and auth-device.ts), for any number of requests that present it.
THEOREM OneSessionForEach == Spec => []OneSessionEach
<1>1. SessionInv => OneSessionEach
  BY DEF SessionInv
<1> QED BY <1>1, SessionInvHolds, PTL

\* A deleted account opens no session again and has no live key, but for a key that
\* was being registered while the deletion committed.
THEOREM DeletedAccountsStayOut == Spec => []GoneForGood
<1>1. SessionInv => GoneForGood
  BY DEF SessionInv
<1> QED BY <1>1, SessionInvHolds, PTL

\* With any number of owners, an org that is left without one has seen two
\* deletions count each other's owner: a single deletion never does it.
THEOREM LastOwnerStays == Spec => []OwnersLeaveTogether
<1>1. SessionInv => OwnersLeaveTogether
  BY DEF SessionInv
<1> QED BY <1>1, SessionInvHolds, PTL

\* The lock falls at the limit, whatever the limit is, unless a login wrote the
\* counter from a read that was stale.
THEOREM LockFallsAtTheLimit == Spec => []LockAtTheLimit
<1>1. SessionInv => LockAtTheLimit
  BY DEF SessionInv
<1> QED BY <1>1, SessionInvHolds, PTL

\* Rows only age: a deleted account is never revived, a code or a challenge that was
\* paid with never opens again, a revoked key stays revoked, and a key keeps its user.
THEOREM RowsOnlyAge == Spec => [][RowsAge]_vars
<1>1. TypeOK /\ [Next]_vars => [RowsAge]_vars
  BY StepAges
<1> QED BY <1>1, SessionsTypeCorrect, PTL DEF Spec
=============================================================================
