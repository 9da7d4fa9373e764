------------------------------ MODULE Sessions ------------------------------
(***************************************************************************)
(* How a session opens and an account ends: password login with its        *)
(* lockout, e-mail one-time codes, device keys with their challenges, and  *)
(* the deletion of an account.  Every handler reads, awaits and writes     *)
(* later; req[r] is what it still holds.  A request the code refuses       *)
(* changes nothing and is no step.  Session tokens are stateless and last  *)
(* for days: whoever has an account row, deleted or not, may still send a  *)
(* request that needs one.                                                 *)
(***************************************************************************)
EXTENDS Naturals, FiniteSets

CONSTANTS
  Users,       \* ids of user rows
  Members,     \* those with an account from the start
  OrgOf,       \* the org of each user
  Owners,      \* users whose role is the org's admin role
  AddressOf,   \* the e-mail address of each user's account
  Creds,       \* ids of device credentials
  Challenges,  \* ids of device challenges
  Requests,    \* slots for requests in flight
  MAX_FAILED_LOGINS,  \* wrong passwords that lock an account
  OTP_MAX_ATTEMPTS,   \* wrong guesses that burn a code
  MaxCodes,    \* bound: codes ever created
  MaxRequests, \* bound: requests ever sent
  None         \* no user, no credential, nothing that is used once

ASSUME NoneIsNoRow == None \notin Users \cup Creds \cup Challenges \cup (1 .. MaxCodes)
ASSUME Limits ==
  /\ MAX_FAILED_LOGINS \in Nat \ {0} /\ OTP_MAX_ATTEMPTS \in Nat \ {0}
  /\ MaxCodes \in Nat /\ MaxRequests \in Nat
ASSUME Roles == Members \subseteq Users /\ Owners \subseteq Users /\ IsFiniteSet(Members)
ASSUME SourcesDiffer == Challenges \cap (1 .. MaxCodes) = {}

VARIABLES
  user,      \* User rows: status, failedLoginCount, lockedUntil in the future, emailVerifiedAt
  code,      \* EmailOtp rows, in the order they were created
  cred,      \* DeviceCredential rows
  challenge, \* DeviceChallenge rows
  req,       \* what each request in flight holds
  sent,      \* requests sent so far
  \* history
  grant,     \* what opened a session, and whether the account was gone before
  wrong,     \* wrong passwords since the counter was last reset
  stale,     \* a login wrote the counter from a value that was no longer there
  crossed    \* orgs where two deletions counted each other's owner

rows == <<user, code, cred, challenge>>
history == <<grant, wrong, stale, crossed>>
vars == <<rows, req, sent, history>>

CodeIds == 1 .. MaxCodes
Addresses == {AddressOf[u] : u \in Users}
Orgs == {OrgOf[u] : u \in Users}
Purposes == {"login", "verify"}
User == [status: {"absent", "live", "deleted"}, failed: Nat, locked: BOOLEAN, confirmed: BOOLEAN]
\* burnt: the hash is ''; recent: younger than the resend gap.
Code == [status: {"absent", "open", "used", "deleted"}, address: Addresses \cup {None},
         purpose: Purposes, attempts: Nat, burnt: BOOLEAN, expired: BOOLEAN, recent: BOOLEAN]
\* orphan (history): the row was created after its user's account was deleted.
Cred == [status: {"absent", "live", "revoked"}, user: Users \cup {None}, orphan: BOOLEAN]
Challenge == [status: {"absent", "open", "used", "expired", "deleted"}, cred: Creds \cup {None}]

Idle == [op |-> "idle"]
\* gone (history): the accounts that were deleted when the request began.
Request ==
  {Idle}
  \cup [op: {"accept", "reject"}, user: Users, failed: Nat, gone: SUBSET Users]
  \cup [op: {"issue", "wipe", "create"}, address: Addresses, purpose: Purposes]
  \cup [op: {"send"}, code: CodeIds]
  \cup [op: {"miss"}, code: CodeIds, attempts: Nat]
  \cup [op: {"burn"}, code: CodeIds, user: Users, gone: SUBSET Users]
  \cup [op: {"find"}, code: CodeIds, gone: SUBSET Users]
  \cup [op: {"open"}, code: CodeIds, user: Users, gone: SUBSET Users]
  \cup [op: {"confirm", "bind", "count"}, user: Users]
  \cup [op: {"challenge", "revoke"}, cred: Creds]
  \cup [op: {"answer"}, challenge: Challenges, gone: SUBSET Users]
  \cup [op: {"delete"}, user: Users, others: SUBSET Users]
Grant == [by: CodeIds \cup Challenges \cup {None}, user: Users, nth: Nat, late: BOOLEAN]

TypeOK ==
  /\ user \in [Users -> User]
  /\ code \in [CodeIds -> Code]
  /\ cred \in [Creds -> Cred]
  /\ challenge \in [Challenges -> Challenge]
  /\ \A c \in Creds : cred[c].status # "absent" => cred[c].user \in Users
  /\ \A h \in Challenges : challenge[h].status # "absent" => challenge[h].cred \in Creds
  /\ req \in [Requests -> Request]
  /\ sent \in 0 .. MaxRequests
  /\ grant \subseteq Grant
  /\ wrong \in [Users -> Nat]
  /\ stale \subseteq Users /\ crossed \subseteq Orgs

NewAccount == [status |-> "live", failed |-> 0, locked |-> FALSE, confirmed |-> FALSE]

Init ==
  /\ user = [u \in Users |-> [NewAccount EXCEPT !.status = IF u \in Members THEN "live" ELSE "absent"]]
  /\ code = [i \in CodeIds |-> [status |-> "absent", address |-> None, purpose |-> "login",
                                attempts |-> 0, burnt |-> FALSE, expired |-> FALSE, recent |-> FALSE]]
  /\ cred = [c \in Creds |-> [status |-> "absent", user |-> None, orphan |-> FALSE]]
  /\ challenge = [h \in Challenges |-> [status |-> "absent", cred |-> None]]
  /\ req = [r \in Requests |-> Idle]
  /\ sent = 0
  /\ grant = {}
  /\ wrong = [u \in Users |-> 0]
  /\ stale = {} /\ crossed = {}

-----------------------------------------------------------------------------
(* Shared steps.                                                           *)

Live == {u \in Users : user[u].status = "live"}
Gone == {u \in Users : user[u].status = "deleted"}
Mailbox(a) == {u \in Live : AddressOf[u] = a}

Begin(r, held) ==
  /\ req[r] = Idle
  /\ sent < MaxRequests
  /\ sent' = sent + 1
  /\ req' = [req EXCEPT ![r] = held]
  /\ UNCHANGED <<rows, history>>
Continue(r, held) == req' = [req EXCEPT ![r] = held] /\ UNCHANGED sent
End(r) == Continue(r, Idle)

\* signToken, for a row the request has read: by is the code or challenge it used up.
signToken(u, by, gone) ==
  grant' = grant \cup {[by |-> by, user |-> u, late |-> u \in gone,
                        nth |-> IF by = None THEN 1
                                ELSE Cardinality({g \in grant : g.by = by}) + 1]}

ResetCounters(u) ==
  /\ user' = [user EXCEPT ![u].failed = 0, ![u].locked = FALSE]
  /\ wrong' = [wrong EXCEPT ![u] = 0]

-----------------------------------------------------------------------------
(* Registration and password login.                                        *)

\* The unique address decides between two sign-ups; all rows are one transaction.
Register(u) ==
  /\ user[u].status = "absent"
  /\ Mailbox(AddressOf[u]) = {}
  /\ sent < MaxRequests
  /\ sent' = sent + 1
  /\ user' = [user EXCEPT ![u] = NewAccount]
  /\ UNCHANGED <<code, cred, challenge, req, history>>

LoginRead(r, a, right) ==
  \E u \in Mailbox(a) :
    /\ ~user[u].locked
    /\ Begin(r, [op |-> IF right THEN "accept" ELSE "reject", user |-> u,
                 failed |-> user[u].failed, gone |-> Gone])

Locks_OneLate(failed) == failed > MAX_FAILED_LOGINS
Locks(failed) == failed >= MAX_FAILED_LOGINS

WrongPassword(r) ==
  /\ req[r].op = "reject"
  /\ LET u == req[r].user
         failed == req[r].failed + 1
     IN /\ user' = [user EXCEPT ![u].failed = failed, ![u].locked = Locks(failed)]
        /\ wrong' = [wrong EXCEPT ![u] = @ + 1]
        /\ stale' = IF user[u].failed = req[r].failed THEN stale ELSE stale \cup {u}
  /\ End(r)
  /\ UNCHANGED <<code, cred, challenge, grant, crossed>>

RightPassword(r) ==
  /\ req[r].op = "accept"
  /\ ResetCounters(req[r].user)
  /\ signToken(req[r].user, None, req[r].gone)
  /\ End(r)
  /\ UNCHANGED <<code, cred, challenge, stale, crossed>>

\* lockedUntil passes; the counter stays where it is.
LockRunsOut(u) ==
  /\ user[u].locked
  /\ user' = [user EXCEPT ![u].locked = FALSE]
  /\ wrong' = [wrong EXCEPT ![u] = 0]
  /\ UNCHANGED <<code, cred, challenge, req, sent, grant, stale, crossed>>

-----------------------------------------------------------------------------
(* E-mail one-time codes.                                                  *)

\* The rows of one address and purpose; the newest is the one a verify reads.
CodesOf(a, p) ==
  {i \in CodeIds : code[i].status \in {"open", "used"} /\ code[i].address = a /\ code[i].purpose = p}
Newest(S) == {i \in S : \A j \in S : j <= i}

\* Sign-in answers first and issues in the background; confirmation issues for
\* the signed-in user's own address.
RequestCode(r, u, p) ==
  /\ user[u].status = "live"
  /\ Begin(r, [op |-> "issue", address |-> AddressOf[u], purpose |-> p])

IssueLook(r) ==
  /\ req[r].op = "issue"
  /\ IF \E i \in Newest(CodesOf(req[r].address, req[r].purpose)) : code[i].recent
     THEN End(r)
     ELSE Continue(r, [req[r] EXCEPT !.op = "wipe"])
  /\ UNCHANGED <<rows, history>>

DeletedCodes_Revokes(S) == [i \in CodeIds |-> IF i \in S THEN [code[i] EXCEPT !.status = "revoked"] ELSE code[i]]
DeletedCodes(S) == [i \in CodeIds |-> IF i \in S THEN [code[i] EXCEPT !.status = "deleted"] ELSE code[i]]

IssueWipe(r) ==
  /\ req[r].op = "wipe"
  /\ code' = DeletedCodes(CodesOf(req[r].address, req[r].purpose))
  /\ Continue(r, [req[r] EXCEPT !.op = "create"])
  /\ UNCHANGED <<user, cred, challenge, history>>

IssueCreate(r) ==
  /\ req[r].op = "create"
  /\ \E i \in CodeIds :
       /\ code[i].status = "absent"
       /\ \A j \in CodeIds : j < i => code[j].status # "absent"
       /\ code' = [code EXCEPT ![i] = [status |-> "open", address |-> req[r].address,
                     purpose |-> req[r].purpose, attempts |-> 0, burnt |-> FALSE,
                     expired |-> FALSE, recent |-> TRUE]]
       /\ Continue(r, [op |-> "send", code |-> i])
  /\ UNCHANGED <<user, cred, challenge, history>>

\* What was not delivered is taken back.
IssueSend(r, delivered) ==
  /\ req[r].op = "send"
  /\ code' = IF delivered THEN code ELSE DeletedCodes({req[r].code})
  /\ End(r)
  /\ UNCHANGED <<user, cred, challenge, history>>

gate(i) == ~code[i].burnt /\ code[i].attempts < OTP_MAX_ATTEMPTS /\ ~code[i].expired
Redeemable(i) == code[i].status = "open" /\ gate(i)

\* redeem, up to the comparison.  For a sign-in the user is looked up afterwards,
\* a confirmation is sent by user u.
RedeemRead(r, u, p, right) ==
  /\ p = "verify" => user[u].status = "live"
  /\ \E i \in Newest(CodesOf(AddressOf[u], p)) :
       /\ Redeemable(i)
       /\ Begin(r, IF right THEN [op |-> "burn", code |-> i, user |-> u, gone |-> Gone]
                            ELSE [op |-> "miss", code |-> i, attempts |-> code[i].attempts])

\* The attempt counter comes from the row read before; a row that is gone throws.
RedeemMiss(r) ==
  /\ req[r].op = "miss"
  /\ LET i == req[r].code
         next == req[r].attempts + 1
     IN code' = IF code[i].status = "deleted" THEN code
                ELSE [code EXCEPT ![i].attempts = next,
                                  ![i].burnt = @ \/ next >= OTP_MAX_ATTEMPTS]
  /\ End(r)
  /\ UNCHANGED <<user, cred, challenge, history>>

MayBurn_Always(i) == TRUE
MayBurn(i) == code[i].status = "open"

RedeemBurn(r) ==
  /\ req[r].op = "burn"
  /\ LET i == req[r].code
     IN IF MayBurn(i)
        THEN /\ code' = [code EXCEPT ![i].status = "used"]
             /\ Continue(r, IF code[i].purpose = "verify"
                            THEN [op |-> "confirm", user |-> req[r].user]
                            ELSE [op |-> "find", code |-> i, gone |-> req[r].gone])
        ELSE End(r) /\ UNCHANGED code
  /\ UNCHANGED <<user, cred, challenge, history>>

\* The user row behind the address, once the code is paid for.
VerifyFind(r) ==
  /\ req[r].op = "find"
  /\ LET found == {u \in Mailbox(code[req[r].code].address) : ~user[u].locked}
     IN IF found = {} THEN End(r)
        ELSE \E u \in found :
               Continue(r, [op |-> "open", code |-> req[r].code, user |-> u, gone |-> req[r].gone])
  /\ UNCHANGED <<rows, history>>

VerifyOpen(r) ==
  /\ req[r].op = "open"
  /\ ResetCounters(req[r].user)
  /\ signToken(req[r].user, req[r].code, req[r].gone)
  /\ End(r)
  /\ UNCHANGED <<code, cred, challenge, stale, crossed>>

ConfirmEmail(r) ==
  /\ req[r].op = "confirm"
  /\ user' = [user EXCEPT ![req[r].user].confirmed = TRUE]
  /\ End(r)
  /\ UNCHANGED <<code, cred, challenge, history>>

CodeExpires(i) ==
  /\ code[i].status = "open" /\ ~code[i].expired /\ ~code[i].recent
  /\ code' = [code EXCEPT ![i].expired = TRUE]
  /\ UNCHANGED <<user, cred, challenge, req, sent, history>>

ResendGapEnds(i) ==
  /\ code[i].status \in {"open", "used"} /\ code[i].recent
  /\ code' = [code EXCEPT ![i].recent = FALSE]
  /\ UNCHANGED <<user, cred, challenge, req, sent, history>>

-----------------------------------------------------------------------------
(* Device keys.                                                            *)

RegisterDevice(r, u) ==
  /\ user[u].status = "live"
  /\ Begin(r, [op |-> "bind", user |-> u])

BindDevice(r) ==
  /\ req[r].op = "bind"
  /\ \E c \in Creds :
       /\ cred[c].status = "absent"
       /\ cred' = [cred EXCEPT ![c] = [status |-> "live", user |-> req[r].user,
                                       orphan |-> req[r].user \in Gone]]
  /\ End(r)
  /\ UNCHANGED <<user, code, challenge, history>>

RequestChallenge(r, c) ==
  /\ cred[c].status = "live"
  /\ Begin(r, [op |-> "challenge", cred |-> c])

CreateChallenge(r) ==
  /\ req[r].op = "challenge"
  /\ \E h \in Challenges :
       /\ challenge[h].status = "absent"
       /\ challenge' = [challenge EXCEPT ![h] = [status |-> "open", cred |-> req[r].cred]]
  /\ End(r)
  /\ UNCHANGED <<user, code, cred, history>>

challengeUsable(h) == challenge[h].status = "open"

\* The checks of verify; a wrong signature is refused here and changes nothing.
VerifyDevice(r, h) ==
  /\ challengeUsable(h)
  /\ cred[challenge[h].cred].status = "live"
  /\ Begin(r, [op |-> "answer", challenge |-> h, gone |-> Gone])

Unused_Expired(h) == challenge[h].status # "deleted"
Unused(h) == challenge[h].status \in {"open", "expired"}

\* The conditional burn asks only whether the row is still there and unused.
BurnChallenge(r) ==
  /\ req[r].op = "answer"
  /\ LET h == req[r].challenge
     IN IF Unused(h)
        THEN /\ challenge' = [challenge EXCEPT ![h].status = "used"]
             /\ signToken(cred[challenge[h].cred].user, h, req[r].gone)
        ELSE UNCHANGED <<challenge, grant>>
  /\ End(r)
  /\ UNCHANGED <<user, code, cred, wrong, stale, crossed>>

ChallengeExpires(h) ==
  /\ challenge[h].status = "open"
  /\ challenge' = [challenge EXCEPT ![h].status = "expired"]
  /\ UNCHANGED <<user, code, cred, req, sent, history>>

\* Its own driver, or an admin of the driver's org.
MayRevoke(actor, c) ==
  /\ user[actor].status # "absent"
  /\ \/ cred[c].user = actor
     \/ actor \in Owners /\ OrgOf[actor] = OrgOf[cred[c].user]

RequestRevoke(r, actor, c) ==
  /\ cred[c].status = "live"
  /\ MayRevoke(actor, c)
  /\ Begin(r, [op |-> "revoke", cred |-> c])

RevokeDevice(r) ==
  /\ req[r].op = "revoke"
  /\ cred' = [cred EXCEPT ![req[r].cred].status = "revoked"]
  /\ End(r)
  /\ UNCHANGED <<user, code, challenge, history>>

-----------------------------------------------------------------------------
(* Account deletion.                                                       *)

RequestDeletion(r, u) ==
  /\ user[u].status = "live"
  /\ Begin(r, [op |-> "count", user |-> u])

activeAdmins_AnyStatus(org) == {u \in Owners : user[u].status # "absent" /\ OrgOf[u] = org}
activeAdmins(org) == {u \in Owners : user[u].status = "live" /\ OrgOf[u] = org}
lastOwnerRefusal(u) == u \in Owners /\ Cardinality(activeAdmins(OrgOf[u])) <= 1

\* The other owners that were there when the count was taken.
Fellows(u) == {v \in Owners \cap Live : OrgOf[v] = OrgOf[u]} \ {u}

CountAdmins(r) ==
  /\ req[r].op = "count"
  /\ LET u == req[r].user
     IN IF lastOwnerRefusal(u) THEN End(r)
        ELSE Continue(r, [op |-> "delete", user |-> u, others |-> Fellows(u)])
  /\ UNCHANGED <<rows, history>>

\* The row stays; the address, the password and the counters go.
Tombstone == [NewAccount EXCEPT !.status = "deleted"]

DeadKeys_KeepsKeys(u) == {}
DeadKeys(u) == {c \in Creds : cred[c].status # "absent" /\ cred[c].user = u}

\* The transaction: credentials revoked, their challenges and the codes of the
\* address deleted, and the row made a tombstone.
CommitDeletion(r) ==
  /\ req[r].op = "delete"
  /\ LET u == req[r].user
         keys == DeadKeys(u)
         codes == {i \in CodeIds : code[i].status # "absent" /\ code[i].address = AddressOf[u]}
     IN /\ user' = [user EXCEPT ![u] = Tombstone]
        /\ cred' = [c \in Creds |-> IF c \in keys THEN [cred[c] EXCEPT !.status = "revoked"] ELSE cred[c]]
        /\ challenge' = [h \in Challenges |->
             IF challenge[h].cred \in keys THEN [challenge[h] EXCEPT !.status = "deleted"] ELSE challenge[h]]
        /\ code' = DeletedCodes(codes)
        /\ wrong' = [wrong EXCEPT ![u] = 0]
        /\ crossed' = IF req[r].others # {} /\ req[r].others \cap Live = {}
                      THEN crossed \cup {OrgOf[u]} ELSE crossed
  /\ End(r)
  /\ UNCHANGED <<grant, stale>>

-----------------------------------------------------------------------------
\* The process dies, or a later statement throws: what was written stays.
EndRequest(r) ==
  /\ req[r] # Idle
  /\ End(r)
  /\ UNCHANGED <<rows, history>>

Next ==
  \/ \E u \in Users : Register(u) \/ LockRunsOut(u)
  \/ \E i \in CodeIds : CodeExpires(i) \/ ResendGapEnds(i)
  \/ \E h \in Challenges : ChallengeExpires(h)
  \/ \E r \in Requests :
       \/ \E a \in Addresses, right \in BOOLEAN : LoginRead(r, a, right)
       \/ WrongPassword(r) \/ RightPassword(r)
       \/ \E u \in Users, p \in Purposes : RequestCode(r, u, p)
       \/ IssueLook(r) \/ IssueWipe(r) \/ IssueCreate(r)
       \/ \E delivered \in BOOLEAN : IssueSend(r, delivered)
       \/ \E u \in Users, p \in Purposes, right \in BOOLEAN : RedeemRead(r, u, p, right)
       \/ RedeemMiss(r) \/ RedeemBurn(r) \/ VerifyFind(r) \/ VerifyOpen(r) \/ ConfirmEmail(r)
       \/ \E u \in Users : RegisterDevice(r, u)
       \/ \E c \in Creds : RequestChallenge(r, c)
       \/ \E h \in Challenges : VerifyDevice(r, h)
       \/ \E actor \in Users, c \in Creds : RequestRevoke(r, actor, c)
       \/ BindDevice(r) \/ CreateChallenge(r) \/ BurnChallenge(r) \/ RevokeDevice(r)
       \/ \E u \in Users : RequestDeletion(r, u)
       \/ CountAdmins(r) \/ CommitDeletion(r)
       \/ EndRequest(r)

Spec == Init /\ [][Next]_vars
-----------------------------------------------------------------------------
\* A code and a challenge are worth one session, however many requests present
\* them at once and however often a code is sent again.
OneSessionEach == \A g \in grant : g.nth = 1

\* "A signed-in phone can never re-authenticate": no request that starts after an
\* account was deleted opens a session for it, and no credential of it is live -
\* but for one that was being registered while the deletion committed.
GoneForGood ==
  /\ \A c \in Creds : cred[c].status = "live" /\ cred[c].user \in Gone => cred[c].orphan
  /\ \A g \in grant : g.late => g.by \in Challenges /\ cred[challenge[g.by].cred].orphan

\* An org loses its last owner only if two deletions counted each other's.
OwnersLeaveTogether ==
  \A u \in Owners : user[u].status = "deleted" =>
    \/ \E v \in Owners \cap Live : OrgOf[v] = OrgOf[u]
    \/ OrgOf[u] \in crossed

\* As long as no login writes the counter from a stale read, the account is locked
\* by the very failure that reaches the limit and stays so until the lock runs out.
LockAtTheLimit ==
  \A u \in Users \ stale : wrong[u] >= MAX_FAILED_LOGINS => user[u].locked
=============================================================================
