------------------------------ MODULE Accounts ------------------------------
(***************************************************************************)
(* The accounts behind one contact, an e-mail address or a phone number:   *)
(* codes sent to it, registration, login, password reset, OAuth login, and *)
(* what an administrator does to an account.  Codes and cooldowns are keys *)
(* in Redis; accounts, sessions, the OAuth identity and an invitation are  *)
(* rows.  Every command and every statement is a step of the request that  *)
(* sends it, because no handler holds a lock or a transaction over two of  *)
(* them; only the deletion of an account is one transaction.               *)
(* A code, a password and a session are named by the request that made     *)
(* them.  A request that is turned away before it changed anything (wrong  *)
(* code or password, captcha, registration closed) is not a step; a        *)
(* captcha, once solved, is taken as valid.  Not modelled: the test mode   *)
(* that shows the code on the page, the ends of sessions and the rows for  *)
(* settings and the free plan that come with an account.                   *)
(***************************************************************************)
EXTENDS Naturals, FiniteSets

CONSTANTS
    Requests,    \* HTTP requests
    NoRequest,   \* no code, no password, nothing read yet
    MaxOpen,     \* bound: requests served at once
    MaxAccounts, \* bound: accounts the contact ever had
    MaxFaults    \* bound: failed commands and abandoned requests

ASSUME AccountsAssumption ==
    /\ NoRequest \notin Requests
    /\ MaxOpen \in Nat /\ MaxAccounts \in Nat \ {0} /\ MaxFaults \in Nat

None == 0 \* no account
Ids == 1..MaxAccounts
Purposes == {"register", "password_reset"}
VARIABLES
    medium,     \* what the contact is, fixed at the start
    code,       \* auth:<medium>:<purpose>:<contact>
    cooldown,   \* auth:<medium>:cooldown:<purpose>:<contact>
    account,    \* users
    identity,   \* oauth_identities: the account of the one identity
    invite,     \* affiliate_invites: who used the one invitation
    sessions,   \* user_sessions, named by the requests that opened them
    op,         \* what each request does and has read
    faults,
    delivered,  \* history: the last code that reached the contact
    accepted,   \* history: codes a verification accepted
    reaccepted, \* history: and a second one
    over,       \* history: codes used, expired or never stored
    crossed,    \* history: requests another overlapped in the way named where it is set
    unrevoked   \* history: accounts changed by a request that then failed to end the sessions

redis == <<code, cooldown>>
rows == <<account, identity, invite, sessions>>
codeHistory == <<delivered, accepted, reaccepted, over>>
history == <<codeHistory, crossed, unrevoked>>
vars == <<medium, redis, rows, op, faults, history>>

Codes == Requests \cup {NoRequest}
NoRow == [status |-> "none", renamed |-> FALSE, password |-> NoRequest]
Op(k, label, p, a, c) == [kind |-> k, pc |-> label, purpose |-> p, who |-> a, using |-> c]
Idle == Op("none", "idle", "register", None, NoRequest)
Done == [Idle EXCEPT !.pc = "done"]

Init ==
    /\ medium \in {"email", "phone"}
    /\ code = [p \in Purposes |-> NoRequest]
    /\ cooldown = [p \in Purposes |-> FALSE]
    /\ \E first \in {NoRow, [NoRow EXCEPT !.status = "active"]} :
          account = [a \in Ids |-> IF a = 1 THEN first ELSE NoRow]
    /\ identity = None /\ invite = None
    /\ sessions = {}
    /\ op = [q \in Requests |-> Idle]
    /\ faults = 0
    /\ delivered = [p \in Purposes |-> NoRequest]
    /\ accepted = {} /\ reaccepted = {} /\ over = {}
    /\ crossed = {} /\ unrevoked = {}

At(q, label) == op[q].pc = label
Goto(q, label) == op' = [op EXCEPT ![q].pc = label]
Finish(q) == op' = [op EXCEPT ![q] = Done]
Open == {q \in Requests : op[q].pc \notin {"idle", "done"}}
Begin(q, o) ==
    /\ At(q, "idle") /\ Cardinality(Open) < MaxOpen
    /\ op' = [op EXCEPT ![q] = o]
Fault == faults < MaxFaults /\ faults' = faults + 1

\* GetUserByEmail, GetUserByPhone: a deletion renames the e-mail address and
\* leaves the phone number, and no lookup asks for the status.
Found(a) == account[a].status # "none" /\ ~(medium = "email" /\ account[a].renamed)
SessionsOf(a) == {x \in sessions : op[x].who = a}
\* The rows go; what a closed session remembered goes with them.
Without(gone) == [q \in Requests |-> IF q \in gone THEN Done ELSE op[q]]

-----------------------------------------------------------------------------
(* sendContactCodeResponse.                                                *)

\* The test for the cooldown; when it fails the request goes on.
StartSend(q, p) ==
    /\ Begin(q, Op("send", "deliver", p, None, NoRequest))
    /\ \/ ~cooldown[p] /\ UNCHANGED faults
       \/ Fault
    /\ UNCHANGED <<medium, redis, rows, history>>

\* sendSMS, sendEmail: the gateway takes the message, or refuses it, or takes
\* it and the answer is lost.
GatewayTakes(q) ==
    delivered' = [delivered EXCEPT ![op[q].purpose] = q] /\ UNCHANGED faults
GatewayRefuses == UNCHANGED <<delivered, faults>>
GatewayAnswerLost(q) ==
    delivered' = [delivered EXCEPT ![op[q].purpose] = q] /\ Fault

\* Two sends that both have passed the cooldown cross.
Deliver(q) ==
    /\ At(q, "deliver")
    /\ LET others == {r \in Open : op[r].pc = "store" /\ op[r].purpose = op[q].purpose}
       IN \/ /\ GatewayTakes(q) /\ Goto(q, "store")
             /\ crossed' = IF others = {} THEN crossed ELSE crossed \cup others \cup {q}
             /\ UNCHANGED over
          \/ GatewayRefuses /\ Finish(q) /\ UNCHANGED <<over, crossed>>
          \/ GatewayAnswerLost(q) /\ Finish(q) /\ over' = over \cup {q} /\ UNCHANGED crossed
    /\ UNCHANGED <<medium, redis, rows, accepted, reaccepted, unrevoked>>

\* A verification that has read the older code will delete this one.
StoreCode(q) ==
    /\ At(q, "store")
    /\ LET p == op[q].purpose
           deleting == {r \in Open : op[r].pc = "delete code" /\ op[r].purpose = p}
       IN \/ /\ code' = [code EXCEPT ![p] = q]
             /\ Goto(q, "cooldown")
             /\ crossed' = IF deleting = {} THEN crossed ELSE crossed \cup {q}
             /\ UNCHANGED <<over, faults>>
          \/ Fault /\ Finish(q) /\ over' = over \cup {q} /\ UNCHANGED <<code, crossed>>
    /\ UNCHANGED <<medium, cooldown, rows, delivered, accepted, reaccepted, unrevoked>>

\* An error here is ignored.
SetCooldown(q) ==
    /\ At(q, "cooldown")
    /\ \/ cooldown' = [cooldown EXCEPT ![op[q].purpose] = TRUE] /\ UNCHANGED faults
       \/ Fault /\ UNCHANGED cooldown
    /\ Finish(q)
    /\ UNCHANGED <<medium, code, rows, history>>

\* The keys reach the end of their time.
Expire(p) ==
    /\ \/ cooldown[p] /\ cooldown' = [cooldown EXCEPT ![p] = FALSE] /\ UNCHANGED <<code, over>>
       \/ /\ code[p] # NoRequest
          /\ code' = [code EXCEPT ![p] = NoRequest] /\ over' = over \cup {code[p]}
          /\ UNCHANGED cooldown
    /\ UNCHANGED <<medium, rows, op, faults, delivered, accepted, reaccepted, crossed,
                   unrevoked>>

-----------------------------------------------------------------------------
(* verifyContactCode, for a registration or a reset.                       *)

\* Mutant of ReadCode: the key is deleted before the code is compared.
TakeCode(q, p) ==
    /\ code[p] # NoRequest
    /\ code' = [code EXCEPT ![p] = NoRequest]
    /\ \/ /\ Begin(q, Op(p, "delete code", p, None, code[p]))
       \/ op' = op
    /\ UNCHANGED <<medium, cooldown, rows, faults, history>>

\* Two that have read the same code before either deletes it cross.
ReadCode(q, p) ==
    /\ code[p] # NoRequest
    /\ Begin(q, Op(p, "delete code", p, None, code[p]))
    /\ LET same == {r \in Open : op[r].pc = "delete code" /\ op[r].using = code[p]}
       IN crossed' = IF same = {} THEN crossed ELSE crossed \cup {code[p]}
    /\ UNCHANGED <<medium, redis, rows, faults, codeHistory, unrevoked>>

\* Mutant of DeleteCode: the key stays until it expires.
KeepCode(q) ==
    /\ At(q, "delete code")
    /\ LET c == op[q].using IN
       /\ op' = [op EXCEPT ![q].pc = IF op[q].kind = "register" THEN "create" ELSE "find",
                           ![q].using = NoRequest]
       /\ accepted' = accepted \cup {c}
       /\ reaccepted' = IF c \in accepted THEN reaccepted \cup {c} ELSE reaccepted
       /\ over' = over \cup {c}
    /\ UNCHANGED <<medium, redis, rows, faults, delivered, crossed, unrevoked>>

\* The key is deleted whatever code it holds by now; an error is ignored.
DeleteCode(q) ==
    /\ At(q, "delete code")
    /\ LET p == op[q].purpose
           c == op[q].using
       IN /\ op' = [op EXCEPT ![q].pc = IF op[q].kind = "register" THEN "create" ELSE "find",
                              ![q].using = NoRequest]
          /\ accepted' = accepted \cup {c}
          /\ reaccepted' = IF c \in accepted THEN reaccepted \cup {c} ELSE reaccepted
          /\ over' = over \cup {c}
          /\ \/ code' = [code EXCEPT ![p] = NoRequest] /\ UNCHANGED <<crossed, faults>>
             \/ Fault /\ crossed' = crossed \cup {c} /\ UNCHANGED code
    /\ UNCHANGED <<medium, cooldown, rows, delivered, unrevoked>>

-----------------------------------------------------------------------------
(* handleRegister and handleOAuthCallback.                                 *)

\* Settings may ask for no code at registration.
StartUnverified(q) ==
    /\ Begin(q, Op("register", "create", "register", None, NoRequest))
    /\ UNCHANGED <<medium, redis, rows, faults, history>>

\* exchangeOAuthProfile: the provider returns an identity and an e-mail
\* address, never a phone number, or the callback ends.
ProfileHasContact == medium = "email"

\* FindUserByOAuth comes before the address is looked up.
StartOAuth(q) ==
    /\ ProfileHasContact
    /\ \/ identity # None /\ Begin(q, Op("oauth", "link", "register", identity, NoRequest))
       \/ identity = None /\ Begin(q, Op("oauth", "find email", "register", None, NoRequest))
    /\ UNCHANGED <<medium, redis, rows, faults, history>>

\* Without an account the callback makes one, when registration is open.
FindEmail(q) ==
    /\ At(q, "find email")
    /\ \/ \E a \in Ids : Found(a) /\ op' = [op EXCEPT ![q].who = a, ![q].pc = "link"]
       \/ ~(\E a \in Ids : Found(a)) /\ (Goto(q, "create") \/ Finish(q))
    /\ UNCHANGED <<medium, redis, rows, faults, history>>

\* A registration consumes the invitation it names, a callback links.
AfterCreate(q) == IF op[q].kind = "oauth" THEN "link" ELSE "invite"

\* INSERT INTO users, under the unique indexes on e-mail and phone.
CreateAccount(q) ==
    /\ At(q, "create")
    /\ \/ /\ ~(\E a \in Ids : Found(a))
          /\ \E a \in Ids :
                /\ account[a].status = "none" /\ \A b \in 1..(a - 1) : account[b].status # "none"
                /\ account' = [account EXCEPT ![a] =
                      [status |-> "active", renamed |-> FALSE, password |-> q]]
                /\ op' = [op EXCEPT ![q].who = a, ![q].using = q,
                                    ![q].pc = AfterCreate(q)]
       \/ (\E a \in Ids : Found(a)) /\ Finish(q) /\ UNCHANGED account
    /\ UNCHANGED <<medium, redis, identity, invite, sessions, faults, history>>

\* ConsumeAffiliateInvite; its error is ignored, and most requests name none.
ConsumeInvite(q) ==
    /\ At(q, "invite")
    /\ invite' \in {invite, IF invite = None THEN op[q].who ELSE invite}
    /\ Goto(q, "session")
    /\ UNCHANGED <<medium, redis, account, identity, sessions, faults, history>>

\* RevokeAffiliateInviteForAdmin; the next invitation is a new row.
RevokeInvite ==
    /\ invite # None /\ invite' = None
    /\ UNCHANGED <<medium, redis, account, identity, sessions, op, faults, history>>

\* LinkOAuthIdentity takes the identity from whichever account had it.
LinkIdentity(q) ==
    /\ At(q, "link")
    /\ identity' = op[q].who
    /\ Goto(q, "session")
    /\ UNCHANGED <<medium, redis, account, invite, sessions, faults, history>>

\* issueUserSession.
OpenSession(q) ==
    /\ At(q, "session")
    /\ sessions' = sessions \cup {q}
    /\ Goto(q, "done")
    /\ UNCHANGED <<medium, redis, account, identity, invite, faults, history>>

-----------------------------------------------------------------------------
(* handleLogin, handleLogout.                                              *)

StartLogin(q) ==
    /\ \E a \in Ids :
          /\ Found(a) /\ account[a].status = "active"
          /\ Begin(q, Op("login", "session", "register", a, account[a].password))
    /\ UNCHANGED <<medium, redis, rows, faults, history>>

Logout(x) ==
    /\ x \in sessions
    /\ sessions' = sessions \ {x}
    /\ op' = Without({x})
    /\ UNCHANGED <<medium, redis, account, identity, invite, faults, history>>

-----------------------------------------------------------------------------
(* handlePasswordReset and the administrator's changes.                    *)

FindAccount(q) ==
    /\ At(q, "find")
    /\ \/ \E a \in Ids : Found(a) /\ op' = [op EXCEPT ![q].who = a, ![q].pc = "update"]
       \/ ~(\E a \in Ids : Found(a)) /\ Finish(q)
    /\ UNCHANGED <<medium, redis, rows, faults, history>>

\* Requests that have read the row and will open a session with it.
Entering(a) == {r \in Open : op[r].who = a /\ op[r].pc \in {"invite", "link", "session"}}

\* UpdateUserPassword, its first statement.
UpdatePassword(q) ==
    /\ At(q, "update")
    /\ LET a == op[q].who IN
       /\ account' = [account EXCEPT ![a].password = q]
       /\ crossed' = crossed \cup Entering(a)
    /\ Goto(q, "revoke")
    /\ UNCHANGED <<medium, redis, identity, invite, sessions, faults, codeHistory, unrevoked>>

\* Mutant of EndSessions: only the password and the status are changed.
KeepSessions(q) ==
    /\ At(q, "revoke")
    /\ unrevoked' = unrevoked \ {op[q].who}
    /\ Finish(q)
    /\ UNCHANGED <<medium, redis, rows, faults, codeHistory, crossed>>

\* DELETE FROM user_sessions, the second statement of a reset and of a
\* status that is not "active".
EndSessions(q) ==
    /\ At(q, "revoke")
    /\ LET a == op[q].who IN
       /\ sessions' = sessions \ SessionsOf(a)
       /\ op' = [Without(SessionsOf(a)) EXCEPT ![q] = Done]
       /\ unrevoked' = unrevoked \ {a}
    /\ UNCHANGED <<medium, redis, account, identity, invite, faults, codeHistory, crossed>>

\* UpdateUserAdminConfig, the status; nothing keeps it from a deleted account.
SetStatus(q, a, status) ==
    /\ account[a].status \notin {"none", status}
    /\ account' = [account EXCEPT ![a].status = status]
    /\ Begin(q, IF status = "active" THEN Done ELSE Op("status", "revoke", "register", a, NoRequest))
    /\ crossed' = IF status = "active" THEN crossed ELSE crossed \cup Entering(a)
    /\ UNCHANGED <<medium, redis, identity, invite, sessions, faults, codeHistory, unrevoked>>

\* DeleteUserAccount, by the user or an administrator: one transaction.
DeleteAccount(a) ==
    /\ account[a].status \notin {"none", "deleted"}
    /\ account' = [account EXCEPT ![a].status = "deleted", ![a].renamed = TRUE]
    /\ sessions' = sessions \ SessionsOf(a)
    /\ op' = Without(SessionsOf(a))
    /\ crossed' = crossed \cup Entering(a)
    /\ unrevoked' = unrevoked \ {a}
    /\ UNCHANGED <<medium, redis, identity, invite, faults, codeHistory>>

-----------------------------------------------------------------------------
\* The next statement fails and ends the request, the client hangs up (every
\* statement runs under the request's context) or the process is lost.
Abandon(q) ==
    /\ q \in Open /\ Fault
    /\ crossed' = IF At(q, "delete code") THEN crossed \cup {op[q].using} ELSE crossed
    /\ over' = IF At(q, "store") THEN over \cup {q} ELSE over
    /\ unrevoked' = IF At(q, "revoke") THEN unrevoked \cup {op[q].who} ELSE unrevoked
    /\ Finish(q)
    /\ UNCHANGED <<medium, redis, rows, delivered, accepted, reaccepted>>

Step(q) ==
    \/ \E p \in Purposes : StartSend(q, p) \/ ReadCode(q, p)
    \/ Deliver(q) \/ StoreCode(q) \/ SetCooldown(q) \/ DeleteCode(q)
    \/ StartUnverified(q) \/ StartOAuth(q) \/ FindEmail(q) \/ CreateAccount(q)
    \/ ConsumeInvite(q) \/ LinkIdentity(q) \/ OpenSession(q)
    \/ StartLogin(q) \/ Logout(q)
    \/ FindAccount(q) \/ UpdatePassword(q) \/ EndSessions(q)
    \/ \E a \in Ids, status \in {"active", "suspended"} : SetStatus(q, a, status)
    \/ Abandon(q)

Next ==
    \/ \E q \in Requests : Step(q)
    \/ \E p \in Purposes : Expire(p)
    \/ \E a \in Ids : DeleteAccount(a)
    \/ RevokeInvite

Spec == Init /\ [][Next]_vars

-----------------------------------------------------------------------------
(* Properties.                                                             *)

\* verifyContactCode: a code is accepted a second time only if two
\* verifications had read it before either deleted it, or the deletion
\* failed.
CodeAcceptedOnce == reaccepted \subseteq crossed

\* sendContactCodeResponse: the last code that reached the contact is the
\* one that is valid until it is used or expires, unless its storing failed,
\* two sends had passed the cooldown together, or a verification of the
\* code before it was about to delete the key.
LatestCodeWorks ==
    \A p \in Purposes : LET c == delivered[p] IN
        c = NoRequest \/ At(c, "store") \/ c \in over \cup crossed \/ code[p] = c

\* UpdateUserPassword, UpdateUserAdminConfig, DeleteUserAccount: an open
\* session of an account that is not active, or one opened with a password
\* since replaced, is one whose request overlapped the change, or the
\* change has not ended the sessions yet, or has failed to. (A login through
\* a provider asks neither for the password nor for the status.)
SessionIsCurrent ==
    \A x \in sessions : LET a == op[x].who IN
        \/ account[a].status = "active" /\ op[x].using = account[a].password
        \/ op[x].kind = "oauth"
        \/ x \in crossed \/ a \in unrevoked
        \/ \E q \in Open : op[q].who = a /\ op[q].pc = "revoke"
=============================================================================
