--------------------------- MODULE Accounts_proofs ---------------------------
(***************************************************************************)
(* CodeAcceptedOnce, LatestCodeWorks and SessionIsCurrent for any requests *)
(* and accounts, any number of them at once and any number of faults.  The *)
(* inductive invariant says what is known of a code that is stored or held *)
(* by a verification (CodeInv), of the last code on its way to Redis       *)
(* (DeliveryInv) and of a request about to open a session (EntryInv).      *)
(***************************************************************************)
EXTENDS Accounts, TLAPS

Kinds == {"none", "send", "register", "password_reset", "oauth", "login", "status"}
Labels == {"idle", "done", "deliver", "store", "cooldown", "delete code", "create", "find",
           "find email", "link", "invite", "session", "update", "revoke"}
Ops == [kind : Kinds, pc : Labels, purpose : Purposes, who : Ids \cup {None}, using : Codes]
AccountRows == [status : {"none", "active", "suspended", "deleted"}, renamed : BOOLEAN,
                password : Codes]

\* Every variable has its type, and a request that works on an account has one.
HasAccount == {"link", "invite", "session", "update", "revoke"}
TypeOK ==
    /\ medium \in {"email", "phone"}
    /\ code \in [Purposes -> Codes] /\ cooldown \in [Purposes -> BOOLEAN]
    /\ account \in [Ids -> AccountRows]
    /\ identity \in Ids \cup {None} /\ invite \in Ids \cup {None}
    /\ sessions \in SUBSET Requests
    /\ op \in [Requests -> Ops]
    /\ \A q \in Requests : op[q].pc \in HasAccount => op[q].who \in Ids
    /\ faults \in Nat
    /\ delivered \in [Purposes -> Codes]
    /\ accepted \in SUBSET Requests /\ reaccepted \in SUBSET Requests
    /\ over \in SUBSET Requests /\ crossed \in SUBSET Requests
    /\ unrevoked \in SUBSET Ids

\* A request whose code is not stored yet.
Unsent == {"idle", "deliver", "store"}

\* A stored code, and one that a verification has read and is about to delete,
\* was sent; it was not accepted before unless it has crossed.
CodeInv ==
    /\ \A p \in Purposes : code[p] # NoRequest =>
           /\ op[code[p]].pc \notin Unsent
           /\ code[p] \in accepted => code[p] \in crossed
           /\ \A other \in Purposes : code[other] = code[p] => other = p
    /\ \A c \in accepted : op[c].pc \notin Unsent
    /\ \A q \in Requests : At(q, "delete code") =>
           /\ op[q].using # NoRequest
           /\ op[op[q].using].pc \notin Unsent
           /\ op[q].using \in accepted => op[q].using \in crossed
           /\ \A p \in Purposes : code[p] = op[q].using => p = op[q].purpose
           /\ code[op[q].purpose] \in {op[q].using, NoRequest} \cup crossed
           /\ \A r \in Requests \ {q} : At(r, "delete code") /\ op[r].using = op[q].using =>
                  op[q].using \in crossed

\* A code on its way to Redis is the last one delivered, or that one is not
\* promised to work.
DeliveryInv ==
    /\ \A q \in Requests : At(q, "store") =>
           LET c == delivered[op[q].purpose] IN c = q \/ c \in over \cup crossed
    /\ \A p \in Purposes : delivered[p] # NoRequest =>
           /\ op[delivered[p]].pc \notin {"idle", "deliver"}
           /\ At(delivered[p], "store") => op[delivered[p]].purpose = p

\* A request about to open a session has read what the account still says.
EntryInv ==
    /\ \A x \in sessions : At(x, "done") /\ op[x].who \in Ids
    /\ \A r \in Requests : At(r, "find email") => op[r].kind = "oauth"
    /\ \A r \in Requests : op[r].pc \in {"invite", "link", "session"} =>
           \/ account[op[r].who].status = "active" /\ op[r].using = account[op[r].who].password
           \/ op[r].kind = "oauth"
           \/ r \in crossed

IInv ==
    /\ TypeOK
    /\ CodeInv /\ CodeAcceptedOnce
    /\ DeliveryInv /\ LatestCodeWorks
    /\ EntryInv /\ SessionIsCurrent

-----------------------------------------------------------------------------
\* What the constants are, in the form the proofs use.
LEMMA Constants ==
    /\ NoRequest \notin Requests /\ None \notin Ids /\ Ids \subseteq Nat
    /\ Purposes = {"register", "password_reset"}
BY AccountsAssumption DEF None, Ids, Purposes

\* A step that changes the record of one request.
Others(q) ==
    /\ op' \in [Requests -> Ops]
    /\ \A r \in Requests \ {q} : op'[r] = op[r]

\* A new record for one request leaves those of the others.
LEMMA OpMoves ==
    ASSUME op \in [Requests -> Ops], NEW q \in Requests, NEW o \in Ops, op' = [op EXCEPT ![q] = o]
    PROVE  Others(q) /\ op'[q] = o
BY DEF Others

\* The records a request starts and ends with.
LEMMA EndTyped ==
    /\ Idle \in Ops /\ Done \in Ops /\ Idle.pc = "idle" /\ Done.pc = "done"
    /\ Idle.who = None /\ Done.who = None
BY DEF Idle, Done, Op, Ops, Kinds, Labels, Purposes, Codes

\* A request that goes on keeps what it has read.
LEMMA GotoMoves ==
    ASSUME op \in [Requests -> Ops], NEW q \in Requests, NEW label \in Labels, Goto(q, label)
    PROVE  /\ Others(q) /\ op'[q].pc = label
           /\ op'[q].kind = op[q].kind /\ op'[q].purpose = op[q].purpose
           /\ op'[q].who = op[q].who /\ op'[q].using = op[q].using
<1> DEFINE o == [op[q] EXCEPT !.pc = label]
<1>1. op[q] \in Ops /\ op' = [op EXCEPT ![q] = o]
  BY DEF Goto
<1>2. o \in Ops /\ o.pc = label /\ o.kind = op[q].kind /\ o.purpose = op[q].purpose
      /\ o.who = op[q].who /\ o.using = op[q].using
  BY <1>1 DEF Ops
<1> HIDE DEF o
<1> QED BY <1>1, <1>2, OpMoves

\* The end of a request.
LEMMA FinishMoves ==
    ASSUME op \in [Requests -> Ops], NEW q \in Requests, Finish(q)
    PROVE  Others(q) /\ op'[q] = Done /\ op'[q].pc = "done"
BY OpMoves, EndTyped DEF Finish

\* The start of one.
LEMMA BeginMoves ==
    ASSUME op \in [Requests -> Ops], NEW q \in Requests, NEW o \in Ops, Begin(q, o)
    PROVE  Others(q) /\ op'[q] = o /\ op[q].pc = "idle"
BY OpMoves DEF Begin, At

\* sendContactCodeResponse, past the test for the cooldown.
LEMMA StartSendMoves ==
    ASSUME TypeOK, NEW q \in Requests, NEW p \in Purposes, StartSend(q, p)
    PROVE  Others(q) /\ op[q].pc = "idle" /\ op'[q].pc = "deliver"
<1> DEFINE o == Op("send", "deliver", p, None, NoRequest)
<1>1. o \in Ops /\ o.pc = "deliver"
  BY DEF Op, Ops, Kinds, Labels, Codes
<1>2. Begin(q, o)
  BY DEF StartSend
<1> HIDE DEF o
<1> QED BY <1>1, <1>2, BeginMoves DEF TypeOK

\* sendSMS, sendEmail: on to Redis, or the end of the request.
LEMMA DeliverMoves ==
    ASSUME TypeOK, NEW q \in Requests, Deliver(q)
    PROVE  /\ Others(q) /\ op[q].pc = "deliver"
           /\ \/ op'[q].pc = "store" /\ op'[q].purpose = op[q].purpose
              \/ op'[q].pc = "done"
<1>1. op[q].pc = "deliver" /\ (Goto(q, "store") \/ Finish(q))
  BY DEF Deliver, At
<1> QED BY <1>1, GotoMoves, FinishMoves DEF TypeOK, Labels

\* The code is stored, or the request ends.
LEMMA StoreMoves ==
    ASSUME TypeOK, NEW q \in Requests, StoreCode(q)
    PROVE  Others(q) /\ op[q].pc = "store" /\ op'[q].pc \in {"cooldown", "done"}
<1>1. op[q].pc = "store" /\ (Goto(q, "cooldown") \/ Finish(q))
  BY DEF StoreCode, At
<1> QED BY <1>1, GotoMoves, FinishMoves DEF TypeOK, Labels

\* The last command of a send.
LEMMA CooldownMoves ==
    ASSUME TypeOK, NEW q \in Requests, SetCooldown(q)
    PROVE  Others(q) /\ op[q].pc = "cooldown" /\ op'[q].pc = "done"
BY FinishMoves DEF TypeOK, SetCooldown, At

\* verifyContactCode has the code that is stored.
LEMMA ReadMoves ==
    ASSUME TypeOK, NEW q \in Requests, NEW p \in Purposes, ReadCode(q, p)
    PROVE  /\ Others(q) /\ op[q].pc = "idle" /\ op'[q].pc = "delete code"
           /\ op'[q].purpose = p /\ op'[q].using = code[p]
<1> DEFINE o == Op(p, "delete code", p, None, code[p])
<1>1. o \in Ops /\ o.pc = "delete code" /\ o.purpose = p /\ o.using = code[p]
  BY DEF Op, Ops, Kinds, Labels, Purposes, TypeOK
<1>2. Begin(q, o)
  BY DEF ReadCode
<1> HIDE DEF o
<1> QED BY <1>1, <1>2, BeginMoves DEF TypeOK

\* The code is accepted: on to the account.
LEMMA DeleteMoves ==
    ASSUME TypeOK, NEW q \in Requests, DeleteCode(q)
    PROVE  Others(q) /\ op[q].pc = "delete code" /\ op'[q].pc \in {"create", "find"}
<1> DEFINE o == [op[q] EXCEPT !.pc = IF op[q].kind = "register" THEN "create" ELSE "find",
                              !.using = NoRequest]
<1>1. op[q] \in Ops /\ op[q].pc = "delete code"
  BY DEF DeleteCode, At, TypeOK
<1>2. o \in Ops /\ o.pc \in {"create", "find"}
  BY <1>1 DEF Ops, Labels, Codes
<1>3. op' = [op EXCEPT ![q] = o]
  BY DEF DeleteCode, TypeOK
<1> HIDE DEF o
<1> QED BY <1>1, <1>2, <1>3, OpMoves DEF TypeOK

\* A registration without a code.
LEMMA UnverifiedMoves ==
    ASSUME TypeOK, NEW q \in Requests, StartUnverified(q)
    PROVE  Others(q) /\ op[q].pc = "idle" /\ op'[q].pc = "create"
<1> DEFINE o == Op("register", "create", "register", None, NoRequest)
<1>1. o \in Ops /\ o.pc = "create"
  BY DEF Op, Ops, Kinds, Labels, Codes, Purposes
<1>2. Begin(q, o)
  BY DEF StartUnverified
<1> HIDE DEF o
<1> QED BY <1>1, <1>2, BeginMoves DEF TypeOK

\* A callback with the account of its identity, or with none.
LEMMA OAuthMoves ==
    ASSUME TypeOK, NEW q \in Requests, StartOAuth(q)
    PROVE  /\ Others(q) /\ op[q].pc = "idle" /\ op'[q].kind = "oauth"
           /\ \/ op'[q].pc = "link" /\ op'[q].who \in Ids
              \/ op'[q].pc = "find email"
<1>1. CASE identity # None /\ Begin(q, Op("oauth", "link", "register", identity, NoRequest))
  <2> DEFINE o == Op("oauth", "link", "register", identity, NoRequest)
  <2>1. o \in Ops /\ o.pc = "link" /\ o.kind = "oauth" /\ o.who \in Ids
    BY <1>1 DEF Op, Ops, Kinds, Labels, Codes, Purposes, TypeOK
  <2>2. Begin(q, o)
    BY <1>1
  <2> HIDE DEF o
  <2> QED BY <2>1, <2>2, BeginMoves DEF TypeOK
<1>2. CASE Begin(q, Op("oauth", "find email", "register", None, NoRequest))
  <2> DEFINE o == Op("oauth", "find email", "register", None, NoRequest)
  <2>1. o \in Ops /\ o.pc = "find email" /\ o.kind = "oauth"
    BY DEF Op, Ops, Kinds, Labels, Codes, Purposes
  <2>2. Begin(q, o)
    BY <1>2
  <2> HIDE DEF o
  <2> QED BY <2>1, <2>2, BeginMoves DEF TypeOK
<1> QED BY <1>1, <1>2 DEF StartOAuth

\* A request that has found its account.
LEMMA FoundMoves ==
    ASSUME op \in [Requests -> Ops], NEW q \in Requests, NEW a \in Ids, NEW label \in Labels,
           op' = [op EXCEPT ![q].who = a, ![q].pc = label]
    PROVE  Others(q) /\ op'[q].pc = label /\ op'[q].who = a /\ op'[q].kind = op[q].kind
<1> DEFINE o == [op[q] EXCEPT !.who = a, !.pc = label]
<1>1. op[q] \in Ops /\ op' = [op EXCEPT ![q] = o]
  OBVIOUS
<1>2. o \in Ops /\ o.pc = label /\ o.who = a /\ o.kind = op[q].kind
  BY <1>1 DEF Ops
<1> HIDE DEF o
<1> QED BY <1>1, <1>2, OpMoves

\* A callback that looks for its address.
LEMMA FindEmailMoves ==
    ASSUME TypeOK, NEW q \in Requests, FindEmail(q)
    PROVE  /\ Others(q) /\ op[q].pc = "find email"
           /\ \/ op'[q].pc = "link" /\ op'[q].who \in Ids /\ op'[q].kind = op[q].kind
              \/ op'[q].pc = "create" /\ op'[q].kind = op[q].kind
              \/ op'[q].pc = "done"
<1>1. op[q].pc = "find email"
  BY DEF FindEmail, At
<1>2. CASE \E a \in Ids : Found(a) /\ op' = [op EXCEPT ![q].who = a, ![q].pc = "link"]
  <2>1. PICK a \in Ids : op' = [op EXCEPT ![q].who = a, ![q].pc = "link"]
    BY <1>2
  <2>2. "link" \in Labels /\ op \in [Requests -> Ops]
    BY DEF Labels, TypeOK
  <2>3. Others(q) /\ op'[q].pc = "link" /\ op'[q].who = a /\ op'[q].kind = op[q].kind
    BY <2>1, <2>2, FoundMoves
  <2> QED BY <1>1, <2>3
<1>3. CASE Goto(q, "create") \/ Finish(q)
  BY <1>1, <1>3, GotoMoves, FinishMoves DEF TypeOK, Labels
<1> QED BY <1>2, <1>3 DEF FindEmail

\* INSERT INTO users: a new row, held by the request, or the end of it.
LEMMA CreateMoves ==
    ASSUME TypeOK, NEW q \in Requests, CreateAccount(q)
    PROVE  /\ Others(q) /\ op[q].pc = "create"
           /\ \/ op'[q].pc = "done" /\ account' = account
              \/ /\ op'[q].pc \in {"link", "invite"} /\ op'[q].who \in Ids /\ op'[q].using = q
                 /\ account[op'[q].who].status = "none"
                 /\ account' = [account EXCEPT ![op'[q].who] =
                        [status |-> "active", renamed |-> FALSE, password |-> q]]
<1>1. op[q].pc = "create"
  BY DEF CreateAccount, At
<1>2. CASE Finish(q) /\ UNCHANGED account
  BY <1>1, <1>2, FinishMoves DEF TypeOK
<1>3. ASSUME NEW a \in Ids, account[a].status = "none",
             account' = [account EXCEPT ![a] = [status |-> "active", renamed |-> FALSE, password |-> q]],
             op' = [op EXCEPT ![q].who = a, ![q].using = q, ![q].pc = AfterCreate(q)]
      PROVE  /\ Others(q) /\ op'[q].pc \in {"link", "invite"} /\ op'[q].who = a /\ op'[q].using = q
  <2> DEFINE o == [op[q] EXCEPT !.who = a, !.using = q, !.pc = AfterCreate(q)]
  <2>1. op[q] \in Ops /\ op' = [op EXCEPT ![q] = o]
    BY <1>3 DEF TypeOK
  <2>2. AfterCreate(q) \in {"link", "invite"}
    BY DEF AfterCreate
  <2>3. o \in Ops /\ o.pc = AfterCreate(q) /\ o.who = a /\ o.using = q
    BY <2>1, <2>2 DEF Ops, Labels, Codes
  <2> HIDE DEF o
  <2> QED BY <2>1, <2>2, <2>3, OpMoves DEF TypeOK
<1>4. CASE \E a \in Ids :
          /\ account[a].status = "none"
          /\ account' = [account EXCEPT ![a] = [status |-> "active", renamed |-> FALSE, password |-> q]]
          /\ op' = [op EXCEPT ![q].who = a, ![q].using = q, ![q].pc = AfterCreate(q)]
  <2>1. PICK a \in Ids :
          /\ account[a].status = "none"
          /\ account' = [account EXCEPT ![a] = [status |-> "active", renamed |-> FALSE, password |-> q]]
          /\ op' = [op EXCEPT ![q].who = a, ![q].using = q, ![q].pc = AfterCreate(q)]
    BY <1>4
  <2>2. Others(q) /\ op'[q].pc \in {"link", "invite"} /\ op'[q].who = a /\ op'[q].using = q
    BY <1>3, <2>1
  <2> QED BY <1>1, <2>1, <2>2
<1> QED BY <1>2, <1>4 DEF CreateAccount

\* A request that goes on with what it has read.
Proceeds(q, from, to) ==
    /\ Others(q) /\ op[q].pc = from /\ op'[q].pc = to
    /\ op'[q].kind = op[q].kind /\ op'[q].who = op[q].who /\ op'[q].using = op[q].using

\* ConsumeAffiliateInvite.
LEMMA InviteMoves ==
    ASSUME TypeOK, NEW q \in Requests, ConsumeInvite(q)
    PROVE  Proceeds(q, "invite", "session")
<1>1. op[q].pc = "invite" /\ Goto(q, "session")
  BY DEF ConsumeInvite, At
<1> QED BY <1>1, GotoMoves DEF TypeOK, Labels, Proceeds

\* LinkOAuthIdentity.
LEMMA LinkMoves ==
    ASSUME TypeOK, NEW q \in Requests, LinkIdentity(q)
    PROVE  Proceeds(q, "link", "session")
<1>1. op[q].pc = "link" /\ Goto(q, "session")
  BY DEF LinkIdentity, At
<1> QED BY <1>1, GotoMoves DEF TypeOK, Labels, Proceeds

\* issueUserSession.
LEMMA OpenMoves ==
    ASSUME TypeOK, NEW q \in Requests, OpenSession(q)
    PROVE  Proceeds(q, "session", "done")
<1>1. op[q].pc = "session" /\ Goto(q, "done")
  BY DEF OpenSession, At
<1> QED BY <1>1, GotoMoves DEF TypeOK, Labels, Proceeds

\* UpdateUserPassword, its first statement.
LEMMA UpdateMoves ==
    ASSUME TypeOK, NEW q \in Requests, UpdatePassword(q)
    PROVE  Proceeds(q, "update", "revoke")
<1>1. op[q].pc = "update" /\ Goto(q, "revoke")
  BY DEF UpdatePassword, At
<1> QED BY <1>1, GotoMoves DEF TypeOK, Labels, Proceeds

\* A login that has read an active account and its password.
LEMMA LoginMoves ==
    ASSUME TypeOK, NEW q \in Requests, StartLogin(q)
    PROVE  /\ Others(q) /\ op[q].pc = "idle" /\ op'[q].pc = "session" /\ op'[q].who \in Ids
           /\ account[op'[q].who].status = "active" /\ op'[q].using = account[op'[q].who].password
<1>1. PICK a \in Ids : /\ account[a].status = "active"
                       /\ Begin(q, Op("login", "session", "register", a, account[a].password))
  BY DEF StartLogin
<1> DEFINE o == Op("login", "session", "register", a, account[a].password)
<1>2. o \in Ops /\ o.pc = "session" /\ o.who = a /\ o.using = account[a].password
  <2>1. account[a].password \in Codes
    BY DEF TypeOK, AccountRows
  <2> QED BY <2>1 DEF Op, Ops, Kinds, Labels, Purposes
<1>3. Begin(q, o)
  BY <1>1
<1> HIDE DEF o
<1> QED BY <1>1, <1>2, <1>3, BeginMoves DEF TypeOK

\* A reset that looks for its account.
LEMMA FindMoves ==
    ASSUME TypeOK, NEW q \in Requests, FindAccount(q)
    PROVE  /\ Others(q) /\ op[q].pc = "find"
           /\ \/ op'[q].pc = "update" /\ op'[q].who \in Ids
              \/ op'[q].pc = "done"
<1>1. op[q].pc = "find"
  BY DEF FindAccount, At
<1>2. CASE \E a \in Ids : Found(a) /\ op' = [op EXCEPT ![q].who = a, ![q].pc = "update"]
  <2>1. PICK a \in Ids : op' = [op EXCEPT ![q].who = a, ![q].pc = "update"]
    BY <1>2
  <2>2. "update" \in Labels /\ op \in [Requests -> Ops]
    BY DEF Labels, TypeOK
  <2>3. Others(q) /\ op'[q].pc = "update" /\ op'[q].who = a /\ op'[q].kind = op[q].kind
    BY <2>1, <2>2, FoundMoves
  <2> QED BY <1>1, <2>3
<1>3. CASE Finish(q)
  BY <1>1, <1>3, FinishMoves DEF TypeOK
<1> QED BY <1>2, <1>3 DEF FindAccount

\* A change of status: sessions are still to be ended unless it is "active".
LEMMA StatusMoves ==
    ASSUME TypeOK, NEW q \in Requests, NEW a \in Ids, NEW status \in {"active", "suspended"},
           SetStatus(q, a, status)
    PROVE  /\ Others(q) /\ op[q].pc = "idle"
           /\ IF status = "active" THEN op'[q].pc = "done"
              ELSE op'[q].pc = "revoke" /\ op'[q].who = a
<1>1. CASE status = "active"
  <2>1. Begin(q, Done)
    BY <1>1 DEF SetStatus
  <2> QED BY <1>1, <2>1, BeginMoves, EndTyped DEF TypeOK
<1>2. CASE status # "active"
  <2> DEFINE o == Op("status", "revoke", "register", a, NoRequest)
  <2>1. Begin(q, o)
    BY <1>2 DEF SetStatus
  <2>2. o \in Ops /\ o.pc = "revoke" /\ o.who = a
    BY DEF Op, Ops, Kinds, Labels, Purposes, Codes
  <2> HIDE DEF o
  <2> QED BY <1>2, <2>1, <2>2, BeginMoves DEF TypeOK
<1> QED BY <1>1, <1>2

\* A request that ends early.
LEMMA AbandonMoves ==
    ASSUME TypeOK, NEW q \in Requests, Abandon(q)
    PROVE  Others(q) /\ op[q].pc \notin {"idle", "done"} /\ op'[q].pc = "done"
BY FinishMoves DEF TypeOK, Abandon, Open

\* The rows of sessions that are deleted.
Closed(gone) ==
    /\ op' \in [Requests -> Ops]
    /\ \A r \in Requests : op'[r] = IF r \in gone THEN Done ELSE op[r]

\* The end of one session.
LEMMA LogoutMoves ==
    ASSUME TypeOK, NEW q \in Requests, Logout(q)
    PROVE  Closed({q}) /\ q \in sessions
BY EndTyped DEF Logout, Without, Closed, TypeOK

\* The end of the sessions of a deleted account.
LEMMA DeleteAccountMoves ==
    ASSUME TypeOK, NEW a \in Ids, DeleteAccount(a)
    PROVE  Closed(SessionsOf(a))
BY EndTyped DEF DeleteAccount, Without, Closed, TypeOK

\* The end of those of an account that was changed.
LEMMA EndSessionsMoves ==
    ASSUME TypeOK, NEW q \in Requests, EndSessions(q)
    PROVE  Closed(SessionsOf(op[q].who) \cup {q}) /\ op[q].pc = "revoke"
<1>1. op' = [Without(SessionsOf(op[q].who)) EXCEPT ![q] = Done] /\ op[q].pc = "revoke"
  BY DEF EndSessions, At
<1>2. Without(SessionsOf(op[q].who)) \in [Requests -> Ops]
  BY EndTyped DEF Without, TypeOK
<1>3. \A r \in Requests : Without(SessionsOf(op[q].who))[r] =
          IF r \in SessionsOf(op[q].who) THEN Done ELSE op[r]
  BY DEF Without
<1> HIDE DEF Without, SessionsOf
<1> QED BY <1>1, <1>2, <1>3, EndTyped DEF Closed

-----------------------------------------------------------------------------
\* The steps of Next.
LEMMA StepCases ==
    ASSUME [Next]_vars
    PROVE  \/ \E q \in Requests, p \in Purposes : StartSend(q, p) \/ ReadCode(q, p)
           \/ \E q \in Requests : Deliver(q) \/ StoreCode(q) \/ SetCooldown(q) \/ DeleteCode(q)
           \/ \E q \in Requests : StartUnverified(q) \/ StartOAuth(q) \/ FindEmail(q) \/ CreateAccount(q)
           \/ \E q \in Requests : ConsumeInvite(q) \/ LinkIdentity(q) \/ OpenSession(q) \/ StartLogin(q)
           \/ \E q \in Requests : Logout(q) \/ FindAccount(q) \/ UpdatePassword(q) \/ EndSessions(q)
           \/ \E q \in Requests, a \in Ids, status \in {"active", "suspended"} : SetStatus(q, a, status)
           \/ \E q \in Requests : Abandon(q)
           \/ \E p \in Purposes : Expire(p)
           \/ \E a \in Ids : DeleteAccount(a)
           \/ RevokeInvite
           \/ UNCHANGED vars
<1>1. CASE \E q \in Requests : Step(q)
  BY <1>1 DEF Step
<1> QED BY <1>1 DEF Next

OpsTyped ==
    /\ op \in [Requests -> Ops]
    /\ \A q \in Requests : op[q].pc \in HasAccount => op[q].who \in Ids

\* Every step keeps the types of the requests.
LEMMA OpStep ==
    ASSUME TypeOK, [Next]_vars
    PROVE  OpsTyped'
<1>0. OpsTyped
  BY DEF TypeOK, OpsTyped
<1>a. ASSUME NEW q \in Requests, Others(q), op'[q].pc \in HasAccount => op'[q].who \in Ids
      PROVE  OpsTyped'
  BY <1>0, <1>a DEF Others, OpsTyped
<1>b. ASSUME NEW gone, Closed(gone) PROVE OpsTyped'
  BY <1>0, <1>b, EndTyped DEF Closed, OpsTyped, HasAccount
<1>c. CASE op' = op
  BY <1>0, <1>c DEF OpsTyped
<1>1. ASSUME NEW q \in Requests, NEW p \in Purposes, StartSend(q, p) \/ ReadCode(q, p) PROVE OpsTyped'
  BY <1>1, <1>a, StartSendMoves, ReadMoves DEF HasAccount
<1>2. ASSUME NEW q \in Requests, Deliver(q) \/ StoreCode(q) \/ SetCooldown(q) \/ DeleteCode(q)
      PROVE  OpsTyped'
  BY <1>2, <1>a, DeliverMoves, StoreMoves, CooldownMoves, DeleteMoves DEF HasAccount
<1>3. ASSUME NEW q \in Requests, StartUnverified(q) \/ StartOAuth(q) \/ FindEmail(q) \/ CreateAccount(q)
      PROVE  OpsTyped'
  BY <1>3, <1>a, UnverifiedMoves, OAuthMoves, FindEmailMoves, CreateMoves DEF HasAccount
<1>4. ASSUME NEW q \in Requests, ConsumeInvite(q) \/ LinkIdentity(q) \/ OpenSession(q) \/ UpdatePassword(q)
      PROVE  OpsTyped'
  BY <1>4, <1>0, <1>a, InviteMoves, LinkMoves, OpenMoves, UpdateMoves DEF HasAccount, Proceeds, OpsTyped
<1>5. ASSUME NEW q \in Requests, StartLogin(q) \/ FindAccount(q) \/ Abandon(q) PROVE OpsTyped'
  BY <1>5, <1>a, LoginMoves, FindMoves, AbandonMoves DEF HasAccount
<1>6. ASSUME NEW q \in Requests, Logout(q) \/ EndSessions(q) PROVE OpsTyped'
  BY <1>6, <1>b, LogoutMoves, EndSessionsMoves
<1>7. ASSUME NEW q \in Requests, NEW a \in Ids, NEW status \in {"active", "suspended"}, SetStatus(q, a, status)
      PROVE  OpsTyped'
  BY <1>7, <1>a, StatusMoves DEF HasAccount
<1>8. ASSUME NEW a \in Ids, DeleteAccount(a) PROVE OpsTyped'
  BY <1>8, <1>b, DeleteAccountMoves
<1>9. CASE (\E p \in Purposes : Expire(p)) \/ RevokeInvite \/ UNCHANGED vars
  BY <1>9, <1>c DEF Expire, RevokeInvite, vars
<1> QED
  BY <1>1, <1>2, <1>3, <1>4, <1>5, <1>6, <1>7, <1>8, <1>9, StepCases

StoreTyped ==
    /\ medium \in {"email", "phone"}
    /\ code \in [Purposes -> Codes] /\ cooldown \in [Purposes -> BOOLEAN]
    /\ account \in [Ids -> AccountRows]
    /\ identity \in Ids \cup {None} /\ invite \in Ids \cup {None}
    /\ sessions \in SUBSET Requests
    /\ faults \in Nat
    /\ delivered \in [Purposes -> Codes]
    /\ accepted \in SUBSET Requests /\ reaccepted \in SUBSET Requests
    /\ over \in SUBSET Requests /\ crossed \in SUBSET Requests
    /\ unrevoked \in SUBSET Ids

\* Every step keeps the types of what is stored.
LEMMA StoreStep ==
    ASSUME TypeOK, CodeInv, [Next]_vars
    PROVE  StoreTyped'
<1>0. StoreTyped
  BY DEF TypeOK, StoreTyped
<1> USE DEF StoreTyped, redis, rows, history, codeHistory
<1>a. /\ Open \in SUBSET Requests
      /\ \A a : Entering(a) \in SUBSET Requests
      /\ \A q \in Requests : op[q].purpose \in Purposes
      /\ \A q \in Requests : At(q, "delete code") => op[q].using \in Requests
      /\ Fault => faults' \in Nat
  <2>1. \A q \in Requests : op[q].purpose \in Purposes /\ op[q].using \in Codes
    BY DEF TypeOK, Ops
  <2>2. \A q \in Requests : At(q, "delete code") => op[q].using \in Requests
    BY <2>1 DEF CodeInv, Codes
  <2>3. Open \in SUBSET Requests /\ (Fault => faults' \in Nat)
    BY <1>0 DEF Open, Fault
  <2>4. \A a : Entering(a) \subseteq Open
    BY DEF Entering
  <2> HIDE DEF Open, Entering
  <2> QED BY <2>1, <2>2, <2>3, <2>4
<1> HIDE DEF Codes, AccountRows
<1>b. NoRequest \in Codes /\ Requests \subseteq Codes /\ NoRequest \notin Requests
  BY Constants DEF Codes
<1>1. ASSUME NEW q \in Requests, NEW p \in Purposes, StartSend(q, p) PROVE StoreTyped'
  BY <1>0, <1>1, <1>a DEF StartSend
<1>2. ASSUME NEW q \in Requests, NEW p \in Purposes, ReadCode(q, p) PROVE StoreTyped'
  <2>1. code[p] \in Requests
    BY <1>0, <1>2 DEF ReadCode, Codes
  <2>2. crossed' \in SUBSET Requests
    BY <1>0, <1>2, <2>1 DEF ReadCode
  <2> QED BY <1>0, <1>2, <2>2 DEF ReadCode
<1>3. ASSUME NEW q \in Requests, Deliver(q) PROVE StoreTyped'
  <2>1. delivered' \in [Purposes -> Codes]
    BY <1>0, <1>3, <1>a, <1>b DEF Deliver, GatewayTakes, GatewayRefuses, GatewayAnswerLost
  <2>2. over' \in SUBSET Requests /\ crossed' \in SUBSET Requests /\ faults' \in Nat
    BY <1>0, <1>3, <1>a DEF Deliver, GatewayTakes, GatewayRefuses, GatewayAnswerLost
  <2> QED BY <1>0, <1>3, <2>1, <2>2 DEF Deliver
<1>4. ASSUME NEW q \in Requests, StoreCode(q) PROVE StoreTyped'
  <2>1. code' \in [Purposes -> Codes]
    BY <1>0, <1>4, <1>a, <1>b DEF StoreCode
  <2>2. over' \in SUBSET Requests /\ crossed' \in SUBSET Requests /\ faults' \in Nat
    BY <1>0, <1>4, <1>a DEF StoreCode
  <2> QED BY <1>0, <1>4, <2>1, <2>2 DEF StoreCode
<1>5. ASSUME NEW q \in Requests, SetCooldown(q) PROVE StoreTyped'
  BY <1>0, <1>5, <1>a DEF SetCooldown
<1>6. ASSUME NEW q \in Requests, DeleteCode(q) PROVE StoreTyped'
  <2>0. op[q].using \in Requests /\ op[q].purpose \in Purposes
    BY <1>6, <1>a DEF DeleteCode
  <2>1. code' \in [Purposes -> Codes]
    BY <1>0, <1>6, <2>0, <1>b DEF DeleteCode
  <2>2. /\ over' \in SUBSET Requests /\ crossed' \in SUBSET Requests /\ faults' \in Nat
        /\ accepted' \in SUBSET Requests /\ reaccepted' \in SUBSET Requests
    BY <1>0, <1>6, <2>0, <1>a DEF DeleteCode
  <2> QED BY <1>0, <1>6, <2>1, <2>2 DEF DeleteCode
<1>7. ASSUME NEW q \in Requests, StartUnverified(q) \/ StartOAuth(q) \/ FindEmail(q) \/ StartLogin(q)
                                 \/ FindAccount(q)
      PROVE  StoreTyped'
  BY <1>0, <1>7 DEF StartUnverified, StartOAuth, FindEmail, StartLogin, FindAccount
<1>8. ASSUME NEW q \in Requests, CreateAccount(q) PROVE StoreTyped'
  <2>1. [status |-> "active", renamed |-> FALSE, password |-> q] \in AccountRows
    BY <1>b DEF AccountRows
  <2>2. account' \in [Ids -> AccountRows]
    BY <1>0, <1>8, <2>1 DEF CreateAccount
  <2> QED BY <1>0, <1>8, <2>2 DEF CreateAccount
<1>9. ASSUME NEW q \in Requests, ConsumeInvite(q) PROVE StoreTyped'
  <2>1. op[q].who \in Ids
    BY <1>9 DEF ConsumeInvite, At, TypeOK, HasAccount
  <2> QED BY <1>0, <1>9, <2>1 DEF ConsumeInvite
<1>10. ASSUME NEW q \in Requests, LinkIdentity(q) PROVE StoreTyped'
  <2>1. op[q].who \in Ids
    BY <1>10 DEF LinkIdentity, At, TypeOK, HasAccount
  <2> QED BY <1>0, <1>10, <2>1 DEF LinkIdentity
<1>11. ASSUME NEW q \in Requests, OpenSession(q) \/ Logout(q) PROVE StoreTyped'
  BY <1>0, <1>11 DEF OpenSession, Logout
<1>12. ASSUME NEW q \in Requests, UpdatePassword(q) PROVE StoreTyped'
  <2>1. \A a \in Ids : [account[a] EXCEPT !.password = q] \in AccountRows
    BY <1>0, <1>b DEF AccountRows
  <2>2. op[q].who \in Ids
    BY <1>12 DEF UpdatePassword, At, TypeOK, HasAccount
  <2>3. account' = [account EXCEPT ![op[q].who] = [account[op[q].who] EXCEPT !.password = q]]
    BY <1>0, <1>12, <2>2 DEF UpdatePassword
  <2>4. account' \in [Ids -> AccountRows]
    BY <1>0, <2>1, <2>2, <2>3
  <2>5. crossed' \in SUBSET Requests
    BY <1>0, <1>12, <1>a DEF UpdatePassword
  <2> QED BY <1>0, <1>12, <2>4, <2>5 DEF UpdatePassword
<1>13. ASSUME NEW q \in Requests, EndSessions(q) PROVE StoreTyped'
  BY <1>0, <1>13 DEF EndSessions
<1>14. ASSUME NEW q \in Requests, NEW a \in Ids, NEW status \in {"active", "suspended"}, SetStatus(q, a, status)
       PROVE  StoreTyped'
  <2>1. [account[a] EXCEPT !.status = status] \in AccountRows
    BY <1>0 DEF AccountRows
  <2>3. account' = [account EXCEPT ![a] = [account[a] EXCEPT !.status = status]]
    BY <1>0, <1>14 DEF SetStatus
  <2>4. account' \in [Ids -> AccountRows]
    BY <1>0, <2>1, <2>3
  <2>5. crossed' \in SUBSET Requests
    BY <1>0, <1>14, <1>a DEF SetStatus
  <2> QED BY <1>0, <1>14, <2>4, <2>5 DEF SetStatus
<1>15. ASSUME NEW a \in Ids, DeleteAccount(a) PROVE StoreTyped'
  <2>1. [account[a] EXCEPT !.status = "deleted", !.renamed = TRUE] \in AccountRows
    BY <1>0 DEF AccountRows
  <2>3. account' = [account EXCEPT ![a] = [account[a] EXCEPT !.status = "deleted", !.renamed = TRUE]]
    BY <1>0, <1>15 DEF DeleteAccount
  <2>4. account' \in [Ids -> AccountRows]
    BY <1>0, <2>1, <2>3
  <2>5. crossed' \in SUBSET Requests
    BY <1>0, <1>15, <1>a DEF DeleteAccount
  <2> QED BY <1>0, <1>15, <2>4, <2>5 DEF DeleteAccount
<1>16. ASSUME NEW q \in Requests, Abandon(q) PROVE StoreTyped'
  <2>1. At(q, "revoke") => op[q].who \in Ids
    BY DEF At, TypeOK, HasAccount
  <2>2. crossed' \in SUBSET Requests
    BY <1>0, <1>16, <1>a DEF Abandon
  <2>3. unrevoked' \in SUBSET Ids /\ over' \in SUBSET Requests /\ faults' \in Nat
    BY <1>0, <1>16, <2>1, <1>a DEF Abandon
  <2> QED BY <1>0, <1>16, <2>2, <2>3 DEF Abandon
<1>17. ASSUME NEW p \in Purposes, Expire(p) PROVE StoreTyped'
  <2>1. code' \in [Purposes -> Codes] /\ cooldown' \in [Purposes -> BOOLEAN]
    BY <1>0, <1>17, <1>b DEF Expire
  <2>2. over' \in SUBSET Requests
    BY <1>0, <1>17 DEF Expire, Codes
  <2> QED BY <1>0, <1>17, <2>1, <2>2 DEF Expire
<1>18. CASE RevokeInvite
  BY <1>0, <1>18 DEF RevokeInvite
<1>19. CASE UNCHANGED vars
  BY <1>0, <1>19 DEF vars
<1> QED
  BY <1>1, <1>2, <1>3, <1>4, <1>5, <1>6, <1>7, <1>8, <1>9, <1>10, <1>11, <1>12, <1>13, <1>14, <1>15,
     <1>16, <1>17, <1>18, <1>19, StepCases

\* Every step keeps the types.
LEMMA TypeStep ==
    ASSUME TypeOK, CodeInv, [Next]_vars
    PROVE  TypeOK'
BY OpStep, StoreStep DEF TypeOK, OpsTyped, StoreTyped

-----------------------------------------------------------------------------
\* A step that neither stores nor deletes nor accepts a code.
CodesQuiet ==
    /\ UNCHANGED <<code, accepted, reaccepted>>
    /\ crossed \subseteq crossed'
    /\ \A r \in Requests :
           /\ op'[r].pc \in Unsent => op[r].pc \in Unsent
           /\ op'[r].pc = "delete code" =>
                  /\ op[r].pc = "delete code"
                  /\ op'[r].using = op[r].using /\ op'[r].purpose = op[r].purpose

\* Such a step keeps the invariant of codes.
LEMMA QuietCodes ==
    ASSUME TypeOK, CodeInv, CodeAcceptedOnce, CodesQuiet
    PROVE  CodeInv' /\ CodeAcceptedOnce'
<1>1. \A q \in Requests : At(q, "delete code") => op[q].using \in Requests
  BY DEF CodeInv, TypeOK, Ops, Codes
<1>2. \A p \in Purposes : code[p] # NoRequest => code[p] \in Requests
  BY DEF TypeOK, Codes
<1>3. CodeAcceptedOnce'
  BY DEF CodesQuiet, CodeAcceptedOnce
<1>4. ASSUME NEW p \in Purposes, code'[p] # NoRequest
      PROVE  /\ op'[code'[p]].pc \notin Unsent
             /\ code'[p] \in accepted' => code'[p] \in crossed'
             /\ \A other \in Purposes : code'[other] = code'[p] => other = p
  BY <1>2, <1>4 DEF CodesQuiet, CodeInv
<1>5. \A c \in accepted' : op'[c].pc \notin Unsent
  BY DEF CodesQuiet, CodeInv, TypeOK
<1>6. ASSUME NEW q \in Requests, op'[q].pc = "delete code"
      PROVE  /\ op'[q].using # NoRequest
             /\ op'[op'[q].using].pc \notin Unsent
             /\ op'[q].using \in accepted' => op'[q].using \in crossed'
             /\ \A p \in Purposes : code'[p] = op'[q].using => p = op'[q].purpose
             /\ code'[op'[q].purpose] \in {op'[q].using, NoRequest} \cup crossed'
             /\ \A r \in Requests \ {q} : op'[r].pc = "delete code" /\ op'[r].using = op'[q].using =>
                    op'[q].using \in crossed'
  <2>1. At(q, "delete code") /\ op'[q].using = op[q].using /\ op'[q].purpose = op[q].purpose
    BY <1>6 DEF CodesQuiet, At
  <2>2. op[q].using \in Requests /\ op[q].purpose \in Purposes
    BY <1>1, <2>1 DEF TypeOK, Ops
  <2>3. op'[q].using # NoRequest /\ op'[op'[q].using].pc \notin Unsent
    BY <2>1, <2>2 DEF CodesQuiet, CodeInv
  <2>4. op'[q].using \in accepted' => op'[q].using \in crossed'
    BY <2>1, <2>2 DEF CodesQuiet, CodeInv
  <2>5. \A p \in Purposes : code'[p] = op'[q].using => p = op'[q].purpose
    <3>1. \A p \in Purposes : code[p] = op[q].using => p = op[q].purpose
      BY <2>1 DEF CodeInv
    <3>2. code' = code
      BY DEF CodesQuiet
    <3> QED BY <2>1, <3>1, <3>2
  <2>6. code'[op'[q].purpose] \in {op'[q].using, NoRequest} \cup crossed'
    BY <2>1, <2>2 DEF CodesQuiet, CodeInv
  <2>7. \A r \in Requests \ {q} : op'[r].pc = "delete code" /\ op'[r].using = op'[q].using =>
            op'[q].using \in crossed'
    BY <2>1, <2>2 DEF CodesQuiet, CodeInv, At
  <2> QED BY <2>3, <2>4, <2>5, <2>6, <2>7
<1> QED BY <1>3, <1>4, <1>5, <1>6 DEF CodeInv, At

\* A step of one request that is not about codes.
LEMMA OthersQuiet ==
    ASSUME NEW q \in Requests, Others(q), UNCHANGED <<code, accepted, reaccepted>>, crossed \subseteq crossed',
           op'[q].pc \in Unsent => op[q].pc \in Unsent, op'[q].pc # "delete code"
    PROVE  CodesQuiet
BY DEF Others, CodesQuiet

\* The end of sessions is one.
LEMMA ClosedQuiet ==
    ASSUME NEW gone, Closed(gone), UNCHANGED <<code, accepted, reaccepted>>, crossed \subseteq crossed'
    PROVE  CodesQuiet
BY EndTyped DEF Closed, CodesQuiet, Unsent

\* Every step keeps the invariant of codes: a code accepted while another
\* verification still holds it has crossed, and so has one that stays stored.
LEMMA CodeStep ==
    ASSUME TypeOK, CodeInv, CodeAcceptedOnce, [Next]_vars, TypeOK'
    PROVE  CodeInv' /\ CodeAcceptedOnce'
<1> USE DEF redis, rows, history, codeHistory
<1>a. \A q \in Requests : At(q, "delete code") => op[q].using \in Requests
  BY DEF CodeInv, TypeOK, Ops, Codes
<1>b. \A p \in Purposes : code[p] # NoRequest => code[p] \in Requests
  BY DEF TypeOK, Codes
<1>1. ASSUME NEW q \in Requests, NEW p \in Purposes, StartSend(q, p) PROVE CodesQuiet
  BY <1>1, OthersQuiet, StartSendMoves DEF StartSend, Unsent
<1>2. ASSUME NEW q \in Requests, Deliver(q) PROVE CodesQuiet
  <2>1. UNCHANGED <<code, accepted, reaccepted>> /\ crossed \subseteq crossed'
    BY <1>2 DEF Deliver
  <2> QED BY <1>2, <2>1, OthersQuiet, DeliverMoves DEF Unsent
<1>3. ASSUME NEW q \in Requests, SetCooldown(q) \/ StartUnverified(q) PROVE CodesQuiet
  BY <1>3, OthersQuiet, CooldownMoves, UnverifiedMoves DEF SetCooldown, StartUnverified, Unsent
<1>4. ASSUME NEW q \in Requests, StartOAuth(q) \/ FindEmail(q) \/ CreateAccount(q) PROVE CodesQuiet
  BY <1>4, OthersQuiet, OAuthMoves, FindEmailMoves, CreateMoves
  DEF StartOAuth, FindEmail, CreateAccount, Unsent
<1>5. ASSUME NEW q \in Requests, ConsumeInvite(q) \/ LinkIdentity(q) \/ OpenSession(q) PROVE CodesQuiet
  BY <1>5, OthersQuiet, InviteMoves, LinkMoves, OpenMoves
  DEF ConsumeInvite, LinkIdentity, OpenSession, Unsent, Proceeds
<1>6. ASSUME NEW q \in Requests, StartLogin(q) \/ FindAccount(q) \/ UpdatePassword(q) PROVE CodesQuiet
  BY <1>6, OthersQuiet, LoginMoves, FindMoves, UpdateMoves
  DEF StartLogin, FindAccount, UpdatePassword, Unsent, Proceeds
<1>7. ASSUME NEW q \in Requests, Logout(q) \/ EndSessions(q) PROVE CodesQuiet
  BY <1>7, ClosedQuiet, LogoutMoves, EndSessionsMoves DEF Logout, EndSessions
<1>8. ASSUME NEW q \in Requests, NEW a \in Ids, NEW status \in {"active", "suspended"}, SetStatus(q, a, status)
      PROVE  CodesQuiet
  <2>1. UNCHANGED <<code, accepted, reaccepted>> /\ crossed \subseteq crossed'
    BY <1>8 DEF SetStatus
  <2>2. Others(q) /\ op'[q].pc \in {"done", "revoke"}
    BY <1>8, StatusMoves
  <2> QED BY <2>1, <2>2, OthersQuiet DEF Unsent
<1>9. ASSUME NEW q \in Requests, Abandon(q) PROVE CodesQuiet
  <2>1. UNCHANGED <<code, accepted, reaccepted>> /\ crossed \subseteq crossed'
    BY <1>9 DEF Abandon
  <2> QED BY <1>9, <2>1, OthersQuiet, AbandonMoves DEF Unsent
<1>10. ASSUME NEW a \in Ids, DeleteAccount(a) PROVE CodesQuiet
  BY <1>10, ClosedQuiet, DeleteAccountMoves DEF DeleteAccount
<1>11. CASE RevokeInvite \/ UNCHANGED vars
  <2>1. CodesQuiet
    BY <1>11 DEF RevokeInvite, vars, CodesQuiet
  <2> QED BY <2>1, QuietCodes
<1>12. ASSUME NEW p \in Purposes, Expire(p) PROVE CodeInv' /\ CodeAcceptedOnce'
  <2>1. op' = op /\ UNCHANGED <<accepted, reaccepted, crossed>>
        /\ \A r \in Purposes : code'[r] = code[r] \/ code'[r] = NoRequest
    BY <1>12 DEF Expire, TypeOK
  <2>2. \A r \in Purposes : code'[r] # NoRequest =>
            /\ op'[code'[r]].pc \notin Unsent
            /\ code'[r] \in accepted' => code'[r] \in crossed'
            /\ \A other \in Purposes : code'[other] = code'[r] => other = r
    BY <2>1 DEF CodeInv
  <2>3. ASSUME NEW q \in Requests, At(q, "delete code")
        PROVE  /\ \A r \in Purposes : code'[r] = op[q].using => r = op[q].purpose
               /\ code'[op[q].purpose] \in {op[q].using, NoRequest} \cup crossed'
    <3>1. op[q].purpose \in Purposes
      BY DEF TypeOK, Ops
    <3> QED BY <2>1, <2>3, <3>1 DEF CodeInv
  <2>4. CodeInv'
    BY <2>1, <2>2, <2>3 DEF CodeInv, At
  <2> QED BY <2>1, <2>4 DEF CodeAcceptedOnce
<1>13. ASSUME NEW q \in Requests, StoreCode(q) PROVE CodeInv' /\ CodeAcceptedOnce'
  <2>1. Others(q) /\ op[q].pc = "store" /\ op'[q].pc \in {"cooldown", "done"}
        /\ UNCHANGED <<accepted, reaccepted>>
    BY <1>13, StoreMoves DEF StoreCode
  <2>2. CASE UNCHANGED <<code, crossed>>
    BY <2>1, <2>2, OthersQuiet, QuietCodes DEF Unsent
  <2>3. CASE /\ code' = [code EXCEPT ![op[q].purpose] = q]
             /\ LET deleting == {r \in Open : op[r].pc = "delete code" /\ op[r].purpose = op[q].purpose}
                IN  crossed' = IF deleting = {} THEN crossed ELSE crossed \cup {q}
    <3> DEFINE p == op[q].purpose
    <3>1. p \in Purposes /\ code'[p] = q /\ \A r \in Purposes \ {p} : code'[r] = code[r]
      BY <2>3 DEF TypeOK, Ops
    <3>2. crossed \subseteq crossed' /\ \A r \in Requests :
              At(r, "delete code") /\ op[r].purpose = p => q \in crossed'
      BY <2>3 DEF Open, At
    <3>3. q \notin accepted /\ \A r \in Purposes : code[r] # q
      BY <2>1, Constants DEF CodeInv, Unsent
    <3>4. \A r \in Requests : At(r, "delete code")' =>
              r # q /\ At(r, "delete code") /\ op'[r] = op[r] /\ op[r].using # q
      BY <2>1 DEF Others, At, CodeInv, Unsent
    <3>5. \A r \in Requests : op'[r].pc \in Unsent => op[r].pc \in Unsent
      BY <2>1 DEF Others, Unsent
    <3>6. op'[q].pc \notin Unsent
      BY <2>1 DEF Unsent
    <3> HIDE DEF p
    <3>7. ASSUME NEW r \in Purposes, code'[r] # NoRequest
          PROVE  /\ op'[code'[r]].pc \notin Unsent
                 /\ code'[r] \in accepted' => code'[r] \in crossed'
                 /\ \A other \in Purposes : code'[other] = code'[r] => other = r
      <4>1. CASE r = p
        BY <4>1, <2>1, <3>1, <3>3, <3>6
      <4>2. CASE r # p
        <5>1. code'[r] = code[r] /\ code[r] # NoRequest /\ code[r] \in Requests /\ code[r] # q
          BY <4>2, <3>7, <3>1, <3>3, <1>b
        <5>2. op'[code'[r]].pc \notin Unsent
          BY <5>1, <3>5 DEF CodeInv
        <5>3. code'[r] \in accepted' => code'[r] \in crossed'
          BY <5>1, <2>1, <3>2 DEF CodeInv
        <5>4. \A other \in Purposes : code'[other] = code'[r] => other = r
          BY <5>1, <3>1 DEF CodeInv
        <5> QED BY <5>2, <5>3, <5>4
      <4> QED BY <4>1, <4>2
    <3>8. \A c \in accepted' : op'[c].pc \notin Unsent
      BY <2>1, <3>5 DEF CodeInv, TypeOK
    <3>9. ASSUME NEW r \in Requests, At(r, "delete code")'
          PROVE  /\ op'[r].using # NoRequest
                 /\ op'[op'[r].using].pc \notin Unsent
                 /\ op'[r].using \in accepted' => op'[r].using \in crossed'
                 /\ \A o \in Purposes : code'[o] = op'[r].using => o = op'[r].purpose
                 /\ code'[op'[r].purpose] \in {op'[r].using, NoRequest} \cup crossed'
                 /\ \A s \in Requests \ {r} : At(s, "delete code")' /\ op'[s].using = op'[r].using =>
                        op'[r].using \in crossed'
      <4>1. At(r, "delete code") /\ op'[r] = op[r] /\ op[r].using # q /\ op[r].using \in Requests
        BY <3>4, <3>9, <1>a
      <4>2. /\ op'[r].using # NoRequest
            /\ op'[op'[r].using].pc \notin Unsent
            /\ op'[r].using \in accepted' => op'[r].using \in crossed'
        BY <4>1, <3>2, <3>5, <2>1 DEF CodeInv
      <4>3. \A o \in Purposes : code'[o] = op'[r].using => o = op'[r].purpose
        BY <4>1, <3>1 DEF CodeInv
      <4>4. code'[op'[r].purpose] \in {op'[r].using, NoRequest} \cup crossed'
        <5>1. op[r].purpose \in Purposes
          BY DEF TypeOK, Ops
        <5>2. CASE op[r].purpose = p
          BY <4>1, <5>2, <3>1, <3>2
        <5>3. CASE op[r].purpose # p
          BY <4>1, <5>1, <5>3, <3>1, <3>2 DEF CodeInv
        <5> QED BY <5>2, <5>3
      <4>5. \A s \in Requests \ {r} : At(s, "delete code")' /\ op'[s].using = op'[r].using =>
                op'[r].using \in crossed'
        BY <4>1, <3>4, <3>2 DEF CodeInv
      <4> QED BY <4>2, <4>3, <4>4, <4>5
    <3>10. CodeInv'
      BY <3>7, <3>8, <3>9 DEF CodeInv
    <3> QED BY <3>10, <3>2, <2>1 DEF CodeAcceptedOnce
  <2> QED BY <1>13, <2>2, <2>3 DEF StoreCode
<1>14. ASSUME NEW q \in Requests, NEW p \in Purposes, ReadCode(q, p) PROVE CodeInv' /\ CodeAcceptedOnce'
  <2>1. /\ Others(q) /\ op[q].pc = "idle" /\ op'[q].pc = "delete code"
        /\ op'[q].purpose = p /\ op'[q].using = code[p]
        /\ UNCHANGED <<code, accepted, reaccepted>>
        /\ code[p] # NoRequest /\ code[p] \in Requests
    BY <1>14, <1>b, ReadMoves DEF ReadCode
  <2>2. crossed \subseteq crossed' /\ \A r \in Requests :
            At(r, "delete code") /\ op[r].using = code[p] => code[p] \in crossed'
    BY <1>14 DEF ReadCode, Open, At
  <2>3. \A r \in Requests \ {q} : op'[r] = op[r]
    BY <2>1 DEF Others
  <2>4. \A r \in Requests : op'[r].pc \in Unsent => op[r].pc \in Unsent
    BY <2>1, <2>3 DEF Unsent
  <2>5. ASSUME NEW r \in Purposes, code'[r] # NoRequest
        PROVE  /\ op'[code'[r]].pc \notin Unsent
               /\ code'[r] \in accepted' => code'[r] \in crossed'
               /\ \A other \in Purposes : code'[other] = code'[r] => other = r
    BY <2>5, <2>1, <2>2, <2>4, <1>b DEF CodeInv
  <2>6. \A c \in accepted' : op'[c].pc \notin Unsent
    BY <2>1, <2>4 DEF CodeInv, TypeOK
  <2>7. ASSUME NEW r \in Requests, At(r, "delete code")'
        PROVE  /\ op'[r].using # NoRequest
               /\ op'[op'[r].using].pc \notin Unsent
               /\ op'[r].using \in accepted' => op'[r].using \in crossed'
               /\ \A o \in Purposes : code'[o] = op'[r].using => o = op'[r].purpose
               /\ code'[op'[r].purpose] \in {op'[r].using, NoRequest} \cup crossed'
               /\ \A s \in Requests \ {r} : At(s, "delete code")' /\ op'[s].using = op'[r].using =>
                      op'[r].using \in crossed'
    <3>1. CASE r = q
      <4>1. op'[q].using # NoRequest /\ op'[op'[q].using].pc \notin Unsent
        BY <2>1, <2>4 DEF CodeInv
      <4>2. op'[q].using \in accepted' => op'[q].using \in crossed'
        BY <2>1, <2>2 DEF CodeInv
      <4>3. \A o \in Purposes : code'[o] = op'[q].using => o = op'[q].purpose
        BY <2>1 DEF CodeInv
      <4>4. \A s \in Requests \ {q} : At(s, "delete code")' /\ op'[s].using = op'[q].using =>
                op'[q].using \in crossed'
        BY <2>1, <2>2, <2>3 DEF At
      <4> QED BY <3>1, <4>1, <4>2, <4>3, <4>4, <2>1
    <3>2. CASE r # q
      <4>0. At(r, "delete code") /\ op'[r] = op[r] /\ op[r].using \in Requests
        BY <2>3, <2>7, <3>2, <1>a DEF At
      <4>1. op'[r].using # NoRequest /\ op'[op'[r].using].pc \notin Unsent
        BY <4>0, <2>4 DEF CodeInv
      <4>2. /\ op'[r].using \in accepted' => op'[r].using \in crossed'
            /\ \A o \in Purposes : code'[o] = op'[r].using => o = op'[r].purpose
            /\ code'[op'[r].purpose] \in {op'[r].using, NoRequest} \cup crossed'
        BY <4>0, <2>1, <2>2 DEF CodeInv
      <4>3. \A s \in Requests \ {r} : At(s, "delete code")' /\ op'[s].using = op'[r].using =>
                op'[r].using \in crossed'
        <5>1. ASSUME NEW s \in Requests \ {r}, At(s, "delete code")', op'[s].using = op'[r].using
              PROVE  op'[r].using \in crossed'
          <6>1. CASE s = q
            BY <6>1, <5>1, <4>0, <2>1, <2>2
          <6>2. CASE s # q
            BY <6>2, <5>1, <4>0, <2>2, <2>3 DEF CodeInv, At
          <6> QED BY <6>1, <6>2
        <5> QED BY <5>1
      <4> QED BY <4>1, <4>2, <4>3
    <3> QED BY <3>1, <3>2
  <2>8. CodeInv'
    BY <2>5, <2>6, <2>7 DEF CodeInv
  <2> QED BY <2>8, <2>1, <2>2 DEF CodeAcceptedOnce
<1>15. ASSUME NEW q \in Requests, DeleteCode(q) PROVE CodeInv' /\ CodeAcceptedOnce'
  <2> DEFINE c == op[q].using
             p == op[q].purpose
  <2>0. At(q, "delete code")
    BY <1>15 DEF DeleteCode
  <2>1. /\ Others(q) /\ op'[q].pc \in {"create", "find"} /\ c \in Requests /\ p \in Purposes
        /\ accepted' = accepted \cup {c}
        /\ reaccepted' = IF c \in accepted THEN reaccepted \cup {c} ELSE reaccepted
    BY <1>15, <1>a, <2>0, DeleteMoves DEF DeleteCode, TypeOK, Ops
  <2>2. \/ code' = [code EXCEPT ![p] = NoRequest] /\ crossed' = crossed
        \/ crossed' = crossed \cup {c} /\ code' = code
    BY <1>15 DEF DeleteCode
  <2>3. /\ crossed \subseteq crossed'
        /\ \A o \in Purposes : code'[o] = code[o] \/ code'[o] = NoRequest
        /\ code'[p] = NoRequest \/ c \in crossed'
        /\ c \in accepted => c \in crossed
    <3>1. c \in accepted => c \in crossed
      BY <2>0 DEF CodeInv
    <3> HIDE DEF c, p
    <3>2. code \in [Purposes -> Codes]
      BY DEF TypeOK
    <3> QED BY <2>1, <2>2, <3>1, <3>2
  <2>4. \A r \in Requests : At(r, "delete code")' => r # q /\ op'[r] = op[r] /\ At(r, "delete code")
    BY <2>1 DEF Others, At
  <2>5. \A r \in Requests : op'[r].pc \in Unsent => op[r].pc \in Unsent
    BY <2>1 DEF Others, Unsent
  <2>6. /\ op[c].pc \notin Unsent /\ c # NoRequest
        /\ \A o \in Purposes : code[o] = c => o = p
        /\ \A r \in Requests \ {q} : At(r, "delete code") /\ op[r].using = c => c \in crossed
    BY <2>0 DEF CodeInv
  <2> HIDE DEF c, p
  <2>7. ASSUME NEW o \in Purposes, code'[o] # NoRequest
        PROVE  /\ op'[code'[o]].pc \notin Unsent
               /\ code'[o] \in accepted' => code'[o] \in crossed'
               /\ \A other \in Purposes : code'[other] = code'[o] => other = o
    <3>1. code'[o] = code[o] /\ code[o] \in Requests /\ code[o] # NoRequest
      BY <2>7, <2>3, <1>b
    <3>2. code[o] = c => c \in crossed'
      BY <2>3, <2>6, <3>1, <2>7
    <3>3. op'[code'[o]].pc \notin Unsent
      BY <3>1, <2>5 DEF CodeInv
    <3>4. code'[o] \in accepted' => code'[o] \in crossed'
      BY <3>1, <3>2, <2>1, <2>3 DEF CodeInv
    <3>5. \A other \in Purposes : code'[other] = code'[o] => other = o
      BY <3>1, <2>3 DEF CodeInv
    <3> QED BY <3>3, <3>4, <3>5
  <2>8. \A d \in accepted' : op'[d].pc \notin Unsent
    BY <2>1, <2>5, <2>6 DEF CodeInv, TypeOK
  <2>9. ASSUME NEW r \in Requests, At(r, "delete code")'
        PROVE  /\ op'[r].using # NoRequest
               /\ op'[op'[r].using].pc \notin Unsent
               /\ op'[r].using \in accepted' => op'[r].using \in crossed'
               /\ \A o \in Purposes : code'[o] = op'[r].using => o = op'[r].purpose
               /\ code'[op'[r].purpose] \in {op'[r].using, NoRequest} \cup crossed'
               /\ \A s \in Requests \ {r} : At(s, "delete code")' /\ op'[s].using = op'[r].using =>
                      op'[r].using \in crossed'
    <3>1. r # q /\ op'[r] = op[r] /\ At(r, "delete code") /\ op[r].using \in Requests
          /\ op[r].purpose \in Purposes
      BY <2>4, <2>9, <1>a DEF TypeOK, Ops
    <3>2. op'[r].using # NoRequest /\ op'[op'[r].using].pc \notin Unsent
      BY <3>1, <2>5 DEF CodeInv
    <3>3. op'[r].using \in accepted' => op'[r].using \in crossed'
      BY <3>1, <2>1, <2>3, <2>6 DEF CodeInv
    <3>4. \A o \in Purposes : code'[o] = op'[r].using => o = op'[r].purpose
      BY <3>1, <2>3, <3>2 DEF CodeInv
    <3>5. code'[op'[r].purpose] \in {op'[r].using, NoRequest} \cup crossed'
      BY <3>1, <2>3 DEF CodeInv
    <3>6. \A s \in Requests \ {r} : At(s, "delete code")' /\ op'[s].using = op'[r].using =>
              op'[r].using \in crossed'
      BY <3>1, <2>3, <2>4 DEF CodeInv
    <3> QED BY <3>2, <3>3, <3>4, <3>5, <3>6
  <2>10. CodeInv'
    BY <2>7, <2>8, <2>9 DEF CodeInv
  <2> QED BY <2>10, <2>1, <2>3 DEF CodeAcceptedOnce
<1> QED
  BY <1>1, <1>2, <1>3, <1>4, <1>5, <1>6, <1>7, <1>8, <1>9, <1>10, <1>11, <1>12, <1>13, <1>14, <1>15,
     QuietCodes, StepCases

-----------------------------------------------------------------------------
\* A step that leaves the codes alone and moves nothing to or from the point
\* where one is stored.
DeliveryQuiet ==
    /\ UNCHANGED <<code, delivered>>
    /\ over \subseteq over' /\ crossed \subseteq crossed'
    /\ \A r \in Requests :
           /\ op'[r].pc = "store" => op[r].pc = "store" /\ op'[r].purpose = op[r].purpose
           /\ op[r].pc = "store" => op'[r].pc = "store" \/ r \in over'
           /\ op'[r].pc \in {"idle", "deliver"} => op[r].pc \in {"idle", "deliver"}

\* The contact gets the code of q.
Delivered(q) ==
    /\ delivered' = [delivered EXCEPT ![op[q].purpose] = q]
    /\ over \subseteq over' /\ crossed \subseteq crossed'
    /\ \/ op'[q].pc = "store" /\ op'[q].purpose = op[q].purpose
       \/ op'[q].pc = "done" /\ q \in over'
    /\ \A r \in Requests : r # q /\ op[r].pc = "store" /\ op[r].purpose = op[q].purpose =>
           q \in over' \cup crossed'

\* Such a step keeps the last code delivered.
LEMMA QuietDelivery ==
    ASSUME TypeOK, DeliveryInv, LatestCodeWorks, DeliveryQuiet
    PROVE  DeliveryInv' /\ LatestCodeWorks'
<1>1. \A p \in Purposes : delivered[p] # NoRequest => delivered[p] \in Requests
  BY DEF TypeOK, Codes
<1>2. ASSUME NEW q \in Requests, op'[q].pc = "store"
      PROVE  LET c == delivered'[op'[q].purpose] IN c = q \/ c \in over' \cup crossed'
  BY <1>2 DEF DeliveryQuiet, DeliveryInv, At
<1>3. ASSUME NEW p \in Purposes, delivered'[p] # NoRequest
      PROVE  /\ op'[delivered'[p]].pc \notin {"idle", "deliver"}
             /\ op'[delivered'[p]].pc = "store" => op'[delivered'[p]].purpose = p
  BY <1>1, <1>3 DEF DeliveryQuiet, DeliveryInv, At
<1>4. ASSUME NEW p \in Purposes, delivered'[p] # NoRequest
      PROVE  \/ op'[delivered'[p]].pc = "store"
             \/ delivered'[p] \in over' \cup crossed'
             \/ code'[p] = delivered'[p]
  <2>1. delivered'[p] = delivered[p] /\ delivered[p] \in Requests /\ code'[p] = code[p]
    BY <1>1, <1>4 DEF DeliveryQuiet
  <2>2. \/ op[delivered[p]].pc = "store"
        \/ delivered[p] \in over \cup crossed
        \/ code[p] = delivered[p]
    BY <1>4, <2>1 DEF LatestCodeWorks, At
  <2> QED BY <2>1, <2>2 DEF DeliveryQuiet
<1>5. DeliveryInv'
  BY <1>2, <1>3 DEF DeliveryInv, At
<1>6. LatestCodeWorks'
  BY <1>4 DEF LatestCodeWorks, At
<1> QED BY <1>5, <1>6

\* A step of one request that is not about sending.
LEMMA OthersDelivery ==
    ASSUME NEW q \in Requests, Others(q), UNCHANGED <<code, delivered>>, over \subseteq over',
           crossed \subseteq crossed', op[q].pc # "store", op'[q].pc # "store",
           op[q].pc = "idle" \/ op'[q].pc \notin {"idle", "deliver"}
    PROVE  DeliveryQuiet
BY DEF Others, DeliveryQuiet

\* The end of sessions: none of them is a request that sends.
LEMMA ClosedDelivery ==
    ASSUME NEW gone, Closed(gone), UNCHANGED <<code, delivered>>, over \subseteq over',
           crossed \subseteq crossed', \A r \in gone : op[r].pc # "store"
    PROVE  DeliveryQuiet
BY EndTyped DEF Closed, DeliveryQuiet

\* Every step keeps the last code delivered: it replaces the one before in
\* Redis, or the two sends have crossed.
LEMMA DeliveryStep ==
    ASSUME TypeOK, CodeInv, DeliveryInv, LatestCodeWorks, EntryInv, [Next]_vars, TypeOK'
    PROVE  DeliveryInv' /\ LatestCodeWorks'
<1> USE DEF redis, rows, history, codeHistory
<1>a. \A p \in Purposes : delivered[p] # NoRequest => delivered[p] \in Requests
  BY DEF TypeOK, Codes
<1>b. \A q \in Requests : op[q].purpose \in Purposes
  BY DEF TypeOK, Ops
<1>1. ASSUME NEW q \in Requests, NEW p \in Purposes, StartSend(q, p) PROVE DeliveryQuiet
  BY <1>1, OthersDelivery, StartSendMoves DEF StartSend
<1>2. ASSUME NEW q \in Requests, NEW p \in Purposes, ReadCode(q, p) PROVE DeliveryQuiet
  <2>1. UNCHANGED <<code, delivered, over>> /\ crossed \subseteq crossed'
    BY <1>2 DEF ReadCode
  <2> QED BY <1>2, <2>1, OthersDelivery, ReadMoves
<1>3. ASSUME NEW q \in Requests, SetCooldown(q) \/ StartUnverified(q) PROVE DeliveryQuiet
  BY <1>3, OthersDelivery, CooldownMoves, UnverifiedMoves DEF SetCooldown, StartUnverified
<1>4. ASSUME NEW q \in Requests, StartOAuth(q) \/ FindEmail(q) \/ CreateAccount(q) PROVE DeliveryQuiet
  BY <1>4, OthersDelivery, OAuthMoves, FindEmailMoves, CreateMoves
  DEF StartOAuth, FindEmail, CreateAccount
<1>5. ASSUME NEW q \in Requests, ConsumeInvite(q) \/ LinkIdentity(q) \/ OpenSession(q) PROVE DeliveryQuiet
  BY <1>5, OthersDelivery, InviteMoves, LinkMoves, OpenMoves
  DEF ConsumeInvite, LinkIdentity, OpenSession, Proceeds
<1>6. ASSUME NEW q \in Requests, StartLogin(q) \/ FindAccount(q) \/ UpdatePassword(q) PROVE DeliveryQuiet
  BY <1>6, OthersDelivery, LoginMoves, FindMoves, UpdateMoves
  DEF StartLogin, FindAccount, UpdatePassword, Proceeds
<1>7. ASSUME NEW q \in Requests, Logout(q) PROVE DeliveryQuiet
  <2>1. op[q].pc # "store"
    BY <1>7, LogoutMoves DEF EntryInv, At
  <2> QED BY <1>7, <2>1, ClosedDelivery, LogoutMoves DEF Logout
<1>8. ASSUME NEW q \in Requests, EndSessions(q) PROVE DeliveryQuiet
  <2>1. \A r \in SessionsOf(op[q].who) \cup {q} : op[r].pc # "store"
    BY <1>8, EndSessionsMoves DEF EntryInv, At, SessionsOf
  <2> QED BY <1>8, <2>1, ClosedDelivery, EndSessionsMoves DEF EndSessions
<1>9. ASSUME NEW a \in Ids, DeleteAccount(a) PROVE DeliveryQuiet
  <2>1. \A r \in SessionsOf(a) : op[r].pc # "store"
    BY DEF EntryInv, At, SessionsOf
  <2> QED BY <1>9, <2>1, ClosedDelivery, DeleteAccountMoves DEF DeleteAccount
<1>10. ASSUME NEW q \in Requests, NEW a \in Ids, NEW status \in {"active", "suspended"}, SetStatus(q, a, status)
       PROVE  DeliveryQuiet
  <2>1. UNCHANGED <<code, delivered, over>> /\ crossed \subseteq crossed'
    BY <1>10 DEF SetStatus
  <2>2. Others(q) /\ op[q].pc = "idle" /\ op'[q].pc \in {"done", "revoke"}
    BY <1>10, StatusMoves
  <2> QED BY <2>1, <2>2, OthersDelivery
<1>11. ASSUME NEW q \in Requests, Abandon(q) PROVE DeliveryQuiet
  <2>1. /\ UNCHANGED <<code, delivered>> /\ over \subseteq over' /\ crossed \subseteq crossed'
        /\ op[q].pc = "store" => q \in over'
    BY <1>11 DEF Abandon, At
  <2> QED BY <1>11, <2>1, AbandonMoves DEF Others, DeliveryQuiet
<1>12. CASE RevokeInvite \/ UNCHANGED vars
  <2>1. DeliveryQuiet
    BY <1>12 DEF RevokeInvite, vars, DeliveryQuiet
  <2> QED BY <2>1, QuietDelivery
<1>13. ASSUME NEW p \in Purposes, Expire(p) PROVE DeliveryInv' /\ LatestCodeWorks'
  <2>1. /\ op' = op /\ UNCHANGED <<delivered, crossed>> /\ over \subseteq over'
        /\ \A r \in Purposes : code'[r] = code[r] \/ code[r] \in over'
    BY <1>13 DEF Expire, TypeOK
  <2>2. DeliveryInv'
    BY <2>1 DEF DeliveryInv, At
  <2>3. LatestCodeWorks'
    BY <2>1 DEF LatestCodeWorks, At
  <2> QED BY <2>2, <2>3
<1>14. ASSUME NEW q \in Requests, Deliver(q) PROVE DeliveryInv' /\ LatestCodeWorks'
  <2> DEFINE p == op[q].purpose
  <2>0. Others(q) /\ op[q].pc = "deliver" /\ p \in Purposes /\ code' = code
    BY <1>14, <1>b, DeliverMoves DEF Deliver
  <2>1. CASE Finish(q) /\ UNCHANGED <<delivered, over, crossed>>
    BY <2>0, <2>1, FinishMoves, OthersDelivery, QuietDelivery DEF TypeOK
  <2>2. CASE Delivered(q)
    <3>0. /\ delivered' = [delivered EXCEPT ![p] = q] /\ over \subseteq over' /\ crossed \subseteq crossed'
          /\ \/ op'[q].pc = "store" /\ op'[q].purpose = p
             \/ op'[q].pc = "done" /\ q \in over'
          /\ \A r \in Requests : r # q /\ op[r].pc = "store" /\ op[r].purpose = p => q \in over' \cup crossed'
      BY <2>2 DEF Delivered
    <3> HIDE DEF p
    <3>1. /\ delivered'[p] = q /\ \A r \in Purposes \ {p} : delivered'[r] = delivered[r]
          /\ \A r \in Requests \ {q} : op'[r] = op[r]
      BY <2>0, <3>0 DEF TypeOK, Others
    <3>2. ASSUME NEW r \in Requests, op'[r].pc = "store"
          PROVE  \/ delivered'[op'[r].purpose] = r
                 \/ delivered'[op'[r].purpose] \in over' \cup crossed'
      <4>1. CASE r = q
        BY <4>1, <3>1, <3>2, <3>0
      <4>2. CASE r # q
        BY <4>2, <3>1, <3>2, <3>0, <1>b DEF DeliveryInv, At
      <4> QED BY <4>1, <4>2
    <3>3. ASSUME NEW r \in Purposes, delivered'[r] # NoRequest
          PROVE  /\ op'[delivered'[r]].pc \notin {"idle", "deliver"}
                 /\ op'[delivered'[r]].pc = "store" => op'[delivered'[r]].purpose = r
                 /\ \/ op'[delivered'[r]].pc = "store"
                    \/ delivered'[r] \in over' \cup crossed'
                    \/ code'[r] = delivered'[r]
      <4>1. CASE r = p
        BY <4>1, <3>1, <3>0
      <4>2. CASE r # p
        <5>1. delivered'[r] = delivered[r] /\ delivered[r] \in Requests /\ code'[r] = code[r]
          BY <4>2, <3>1, <3>3, <2>0, <1>a
        <5>2. delivered[r] # q
          BY <5>1, <3>3, <2>0 DEF DeliveryInv
        <5> QED BY <5>1, <5>2, <3>1, <3>3, <3>0 DEF LatestCodeWorks, DeliveryInv, At
      <4> QED BY <4>1, <4>2
    <3>4. DeliveryInv'
      BY <3>2, <3>3 DEF DeliveryInv, At
    <3>5. LatestCodeWorks'
      BY <3>3 DEF LatestCodeWorks, At
    <3> QED BY <3>4, <3>5
  <2>3. CASE /\ GatewayTakes(q) /\ Goto(q, "store") /\ over' = over
             /\ LET others == {r \in Open : op[r].pc = "store" /\ op[r].purpose = op[q].purpose}
                IN  crossed' = IF others = {} THEN crossed ELSE crossed \cup others \cup {q}
    <3>1. op'[q].pc = "store" /\ op'[q].purpose = p
      BY <2>3, GotoMoves DEF TypeOK, Labels
    <3>2. /\ crossed \subseteq crossed'
          /\ \A r \in Requests : r # q /\ op[r].pc = "store" /\ op[r].purpose = p => q \in crossed'
      BY <2>3 DEF Open
    <3>3. Delivered(q)
      BY <2>3, <3>1, <3>2 DEF GatewayTakes, Delivered
    <3> QED BY <2>2, <3>3
  <2>4. CASE /\ GatewayAnswerLost(q) /\ Finish(q) /\ over' = over \cup {q} /\ crossed' = crossed
    <3>1. op'[q].pc = "done"
      BY <2>4, FinishMoves DEF TypeOK
    <3>2. Delivered(q)
      BY <2>4, <3>1 DEF GatewayAnswerLost, Delivered
    <3> QED BY <2>2, <3>2
  <2> QED BY <1>14, <2>1, <2>3, <2>4 DEF Deliver, GatewayRefuses
<1>15. ASSUME NEW q \in Requests, StoreCode(q) PROVE DeliveryInv' /\ LatestCodeWorks'
  <2> DEFINE p == op[q].purpose
  <2>0. /\ Others(q) /\ op[q].pc = "store" /\ op'[q].pc \notin {"idle", "deliver", "store"} /\ p \in Purposes
        /\ UNCHANGED delivered
    BY <1>15, <1>b, StoreMoves DEF StoreCode
  <2>1. CASE q \in over' /\ UNCHANGED <<code, crossed>> /\ over \subseteq over'
    BY <2>0, <2>1, QuietDelivery DEF Others, DeliveryQuiet
  <2>2. CASE code' = [code EXCEPT ![p] = q] /\ over' = over /\ crossed \subseteq crossed'
    <3>1. delivered[p] = q \/ delivered[p] \in over' \cup crossed'
      BY <2>0, <2>2 DEF DeliveryInv, At
    <3> HIDE DEF p
    <3>2. /\ code'[p] = q /\ \A r \in Purposes \ {p} : code'[r] = code[r]
          /\ \A r \in Requests \ {q} : op'[r] = op[r]
      BY <2>0, <2>2 DEF TypeOK, Others
    <3>3. DeliveryInv'
      <4>1. ASSUME NEW r \in Requests, op'[r].pc = "store"
            PROVE  \/ delivered'[op'[r].purpose] = r
                   \/ delivered'[op'[r].purpose] \in over' \cup crossed'
        BY <4>1, <2>0, <2>2, <3>2 DEF DeliveryInv, At
      <4>2. ASSUME NEW r \in Purposes, delivered'[r] # NoRequest
            PROVE  /\ op'[delivered'[r]].pc \notin {"idle", "deliver"}
                   /\ op'[delivered'[r]].pc = "store" => op'[delivered'[r]].purpose = r
        BY <4>2, <2>0, <3>2, <1>a DEF DeliveryInv, At
      <4> QED BY <4>1, <4>2 DEF DeliveryInv, At
    <3>4. ASSUME NEW r \in Purposes, delivered'[r] # NoRequest
          PROVE  \/ op'[delivered'[r]].pc = "store"
                 \/ delivered'[r] \in over' \cup crossed'
                 \/ code'[r] = delivered'[r]
      <4>1. CASE r = p
        BY <4>1, <2>0, <3>1, <3>2
      <4>2. CASE r # p
        <5>1. delivered'[r] = delivered[r] /\ delivered[r] \in Requests /\ code'[r] = code[r]
          BY <4>2, <3>2, <3>4, <2>0, <1>a
        <5>2. delivered[r] # q
          BY <4>2, <5>1, <2>0, <3>4 DEF DeliveryInv, At, p
        <5> QED BY <5>1, <5>2, <3>2, <3>4, <2>0, <2>2 DEF LatestCodeWorks, At
      <4> QED BY <4>1, <4>2
    <3>5. LatestCodeWorks'
      BY <3>4 DEF LatestCodeWorks, At
    <3> QED BY <3>3, <3>5
  <2>3. /\ \/ code' = [code EXCEPT ![p] = q] /\ over' = over
           \/ over' = over \cup {q} /\ UNCHANGED <<code, crossed>>
        /\ crossed \subseteq crossed'
    BY <1>15 DEF StoreCode
  <2> QED BY <2>1, <2>2, <2>3
<1>16. ASSUME NEW q \in Requests, DeleteCode(q) PROVE DeliveryInv' /\ LatestCodeWorks'
  <2> DEFINE p == op[q].purpose
  <2>0. /\ Others(q) /\ At(q, "delete code") /\ op'[q].pc \notin {"idle", "deliver", "store"} /\ p \in Purposes
        /\ UNCHANGED delivered /\ over' = over \cup {op[q].using} /\ crossed \subseteq crossed'
        /\ \/ code' = [code EXCEPT ![p] = NoRequest]
           \/ code' = code
    BY <1>16, <1>b, DeleteMoves DEF DeleteCode
  <2>1. CASE code' = code
    <3>1. op[q].pc # "store"
      BY <2>0 DEF At
    <3> QED BY <2>0, <2>1, <3>1, OthersDelivery, QuietDelivery
  <2>2. CASE code' = [code EXCEPT ![p] = NoRequest]
    <3>1. code[p] # NoRequest => code[p] \in over' \cup crossed'
      BY <2>0 DEF CodeInv
    <3> HIDE DEF p
    <3>2. /\ \A r \in Purposes \ {p} : code'[r] = code[r]
          /\ \A r \in Requests \ {q} : op'[r] = op[r]
          /\ op[q].pc # "store"
      BY <2>0, <2>2 DEF TypeOK, Others, At
    <3>3. DeliveryInv'
      <4>1. ASSUME NEW r \in Requests, op'[r].pc = "store"
            PROVE  \/ delivered'[op'[r].purpose] = r
                   \/ delivered'[op'[r].purpose] \in over' \cup crossed'
        BY <4>1, <2>0, <3>2 DEF DeliveryInv, At
      <4>2. ASSUME NEW r \in Purposes, delivered'[r] # NoRequest
            PROVE  /\ op'[delivered'[r]].pc \notin {"idle", "deliver"}
                   /\ op'[delivered'[r]].pc = "store" => op'[delivered'[r]].purpose = r
        BY <4>2, <2>0, <3>2, <1>a DEF DeliveryInv, At
      <4> QED BY <4>1, <4>2 DEF DeliveryInv, At
    <3>4. ASSUME NEW r \in Purposes, delivered'[r] # NoRequest
          PROVE  \/ op'[delivered'[r]].pc = "store"
                 \/ delivered'[r] \in over' \cup crossed'
                 \/ code'[r] = delivered'[r]
      <4>1. delivered'[r] = delivered[r] /\ delivered[r] \in Requests
        BY <3>4, <2>0, <1>a
      <4>2. \/ op[delivered[r]].pc = "store"
            \/ delivered[r] \in over \cup crossed
            \/ code[r] = delivered[r]
        BY <3>4, <4>1 DEF LatestCodeWorks, At
      <4>3. op[delivered[r]].pc = "store" => op'[delivered[r]].pc = "store"
        BY <4>1, <3>2
      <4>4. code[r] = delivered[r] => code'[r] = delivered[r] \/ delivered[r] \in over' \cup crossed'
        BY <3>1, <3>2, <3>4, <4>1
      <4> QED BY <2>0, <4>1, <4>2, <4>3, <4>4
    <3>5. LatestCodeWorks'
      BY <3>4 DEF LatestCodeWorks, At
    <3> QED BY <3>3, <3>5
  <2> QED BY <2>0, <2>1, <2>2
<1> QED
  BY <1>1, <1>2, <1>3, <1>4, <1>5, <1>6, <1>7, <1>8, <1>9, <1>10, <1>11, <1>12, <1>13, <1>14, <1>15,
     <1>16, QuietDelivery, StepCases

-----------------------------------------------------------------------------
\* A request that has read an account and will open a session with it.
Entered == {"invite", "link", "session"}

\* What it has read, or what it opened its session with, is still so.
Current(r) == account[op[r].who].status = "active" /\ op[r].using = account[op[r].who].password

\* A step that opens no session.  An account it changes was not active, or its
\* sessions are about to end and whoever has read it has crossed.
SessionMoves ==
    /\ sessions' \subseteq sessions /\ crossed \subseteq crossed'
    /\ \A x \in sessions' :
           /\ op'[x] = op[x]
           /\ \/ account'[op[x].who] = account[op[x].who]
              \/ account[op[x].who].status # "active"
              \/ \E q \in Requests : op'[q].who = op[x].who /\ op'[q].pc = "revoke"
           /\ op[x].who \in unrevoked => op[x].who \in unrevoked'
           /\ \A q \in Requests : op[q].pc = "revoke" /\ op[q].who = op[x].who =>
                  \/ op[x].who \in unrevoked'
                  \/ op'[q].pc = "revoke" /\ op'[q].who = op[q].who
    /\ \A r \in Requests :
           /\ op'[r].pc = "find email" => op'[r].kind = "oauth" \/ op'[r] = op[r]
           /\ op'[r].pc \in Entered =>
                  \/ op'[r].kind = "oauth"
                  \/ account'[op'[r].who].status = "active"
                     /\ op'[r].using = account'[op'[r].who].password
                  \/ r \in crossed'
                  \/ /\ op[r].pc \in Entered
                     /\ op'[r].kind = op[r].kind /\ op'[r].who = op[r].who /\ op'[r].using = op[r].using
                     /\ \/ account'[op[r].who] = account[op[r].who]
                        \/ account[op[r].who].status # "active"

\* Such a step leaves every session as current as it was.
LEMMA SessionsKept ==
    ASSUME TypeOK, EntryInv, SessionIsCurrent, SessionMoves
    PROVE  EntryInv' /\ SessionIsCurrent'
<1>1. sessions \subseteq Requests
  BY DEF TypeOK
<1>2. \A x \in sessions' : At(x, "done")' /\ op'[x].who \in Ids
  <2>1. \A x \in sessions' : x \in sessions /\ op'[x] = op[x]
    BY DEF SessionMoves
  <2> QED BY <2>1 DEF EntryInv, At
<1>3. \A r \in Requests : At(r, "find email")' => op'[r].kind = "oauth"
  BY DEF SessionMoves, EntryInv, At
<1>4. ASSUME NEW r \in Requests, op'[r].pc \in Entered
      PROVE  \/ account'[op'[r].who].status = "active" /\ op'[r].using = account'[op'[r].who].password
             \/ op'[r].kind = "oauth"
             \/ r \in crossed'
  <2>1. CASE /\ op[r].pc \in Entered
             /\ op'[r].kind = op[r].kind /\ op'[r].who = op[r].who /\ op'[r].using = op[r].using
             /\ \/ account'[op[r].who] = account[op[r].who]
                \/ account[op[r].who].status # "active"
    <3>1. \/ account[op[r].who].status = "active" /\ op[r].using = account[op[r].who].password
          \/ op[r].kind = "oauth"
          \/ r \in crossed
      BY <2>1 DEF EntryInv, Entered
    <3>2. crossed \subseteq crossed'
      BY DEF SessionMoves
    <3> QED BY <2>1, <3>1, <3>2
  <2> QED BY <1>4, <2>1 DEF SessionMoves
<1>5. ASSUME NEW x \in sessions'
      PROVE  \/ account'[op'[x].who].status = "active" /\ op'[x].using = account'[op'[x].who].password
             \/ op'[x].kind = "oauth"
             \/ x \in crossed' \/ op'[x].who \in unrevoked'
             \/ \E q \in Requests : op'[q].who = op'[x].who /\ op'[q].pc = "revoke"
  <2>1. x \in sessions /\ op'[x] = op[x]
    BY <1>5 DEF SessionMoves
  <2>2. \/ Current(x) \/ op[x].kind = "oauth" \/ x \in crossed \/ op[x].who \in unrevoked
        \/ \E q \in Requests : op[q].who = op[x].who /\ op[q].pc = "revoke"
    BY <2>1 DEF SessionIsCurrent, Current, Open
  <2>3. CASE Current(x)
    BY <2>1, <2>3, <1>5 DEF SessionMoves, Current
  <2>4. CASE op[x].kind = "oauth" \/ x \in crossed \/ op[x].who \in unrevoked
    BY <2>1, <2>4, <1>5 DEF SessionMoves
  <2>5. CASE \E q \in Requests : op[q].who = op[x].who /\ op[q].pc = "revoke"
    BY <2>1, <2>5, <1>5 DEF SessionMoves
  <2> QED BY <2>2, <2>3, <2>4, <2>5
<1>6. SessionIsCurrent'
  <2>1. \A q \in Requests : op'[q].pc = "revoke" => q \in Open'
    BY DEF Open
  <2> QED BY <1>5, <2>1 DEF SessionIsCurrent
<1> QED BY <1>2, <1>3, <1>4, <1>6 DEF EntryInv, Entered

\* A step of one request that leaves the accounts and the sessions alone.
LEMMA OthersSessions ==
    ASSUME TypeOK, EntryInv, NEW q \in Requests, Others(q), UNCHANGED <<account, sessions>>,
           crossed \subseteq crossed', unrevoked \subseteq unrevoked', op[q].pc # "done",
           op[q].pc = "revoke" => op[q].who \in unrevoked',
           op'[q].pc = "find email" => op'[q].kind = "oauth",
           op'[q].pc \in Entered =>
               \/ op'[q].kind = "oauth"
               \/ account[op'[q].who].status = "active" /\ op'[q].using = account[op'[q].who].password
               \/ /\ op[q].pc \in Entered
                  /\ op'[q].kind = op[q].kind /\ op'[q].who = op[q].who /\ op'[q].using = op[q].using
    PROVE  SessionMoves
<1>1. \A x \in sessions : x \in Requests \ {q}
  BY DEF EntryInv, At, TypeOK
<1>2. \A r \in Requests \ {q} : op'[r] = op[r]
  BY DEF Others
<1>3. ASSUME NEW x \in sessions'
      PROVE  /\ op'[x] = op[x] /\ account' = account
             /\ op[x].who \in unrevoked => op[x].who \in unrevoked'
             /\ \A s \in Requests : op[s].pc = "revoke" /\ op[s].who = op[x].who =>
                    \/ op[x].who \in unrevoked'
                    \/ op'[s].pc = "revoke" /\ op'[s].who = op[s].who
  BY <1>1, <1>2, <1>3
<1>4. ASSUME NEW r \in Requests
      PROVE  /\ op'[r].pc = "find email" => op'[r].kind = "oauth" \/ op'[r] = op[r]
             /\ op'[r].pc \in Entered =>
                  \/ op'[r].kind = "oauth"
                  \/ account'[op'[r].who].status = "active"
                     /\ op'[r].using = account'[op'[r].who].password
                  \/ /\ op[r].pc \in Entered /\ account' = account
                     /\ op'[r].kind = op[r].kind /\ op'[r].who = op[r].who /\ op'[r].using = op[r].using
  BY <1>2
<1> QED BY <1>3, <1>4 DEF SessionMoves

\* Every step keeps sessions current: a session that was about to open when
\* its account changed has crossed, an open one is about to be ended.
LEMMA SessionStep ==
    ASSUME TypeOK, EntryInv, SessionIsCurrent, [Next]_vars, TypeOK'
    PROVE  EntryInv' /\ SessionIsCurrent'
<1> USE DEF redis, rows, history, codeHistory
<1>a. \A x \in sessions : x \in Requests /\ op[x].pc = "done" /\ op[x].who \in Ids
  BY DEF EntryInv, At, TypeOK
<1>b. \A r \in Requests : op[r].pc \in Entered => r \in Open /\ op[r].who \in Ids
  BY DEF Entered, TypeOK, HasAccount, Open
<1>1. ASSUME NEW q \in Requests, NEW p \in Purposes, StartSend(q, p) PROVE SessionMoves
  BY <1>1, OthersSessions, StartSendMoves DEF StartSend, Entered
<1>2. ASSUME NEW q \in Requests, NEW p \in Purposes, ReadCode(q, p) PROVE SessionMoves
  <2>1. UNCHANGED <<account, sessions, unrevoked>> /\ crossed \subseteq crossed'
    BY <1>2 DEF ReadCode
  <2> QED BY <1>2, <2>1, OthersSessions, ReadMoves DEF Entered
<1>3. ASSUME NEW q \in Requests, Deliver(q) \/ StoreCode(q) \/ DeleteCode(q) PROVE SessionMoves
  <2>1. UNCHANGED <<account, sessions, unrevoked>> /\ crossed \subseteq crossed'
    BY <1>3 DEF Deliver, StoreCode, DeleteCode
  <2>2. /\ Others(q) /\ op[q].pc \in {"deliver", "store", "delete code"}
        /\ op'[q].pc \in {"store", "done", "cooldown", "create", "find"}
    BY <1>3, DeliverMoves, StoreMoves, DeleteMoves
  <2> QED BY <2>1, <2>2, OthersSessions DEF Entered
<1>4. ASSUME NEW q \in Requests, SetCooldown(q) \/ StartUnverified(q) PROVE SessionMoves
  BY <1>4, OthersSessions, CooldownMoves, UnverifiedMoves DEF SetCooldown, StartUnverified, Entered
<1>5. ASSUME NEW q \in Requests, StartOAuth(q) \/ FindEmail(q) PROVE SessionMoves
  <2>1. UNCHANGED <<account, sessions, unrevoked, crossed>>
    BY <1>5 DEF StartOAuth, FindEmail
  <2>2. /\ Others(q) /\ op[q].pc \in {"idle", "find email"}
        /\ op'[q].pc \in {"link", "find email", "create", "done"}
        /\ op'[q].pc \in {"link", "find email"} => op'[q].kind = "oauth"
    BY <1>5, OAuthMoves, FindEmailMoves DEF EntryInv, At
  <2> QED BY <2>1, <2>2, OthersSessions DEF Entered
<1>6. ASSUME NEW q \in Requests, ConsumeInvite(q) \/ LinkIdentity(q) PROVE SessionMoves
  BY <1>6, OthersSessions, InviteMoves, LinkMoves DEF ConsumeInvite, LinkIdentity, Entered, Proceeds
<1>7. ASSUME NEW q \in Requests, StartLogin(q) \/ FindAccount(q) PROVE SessionMoves
  <2>1. UNCHANGED <<account, sessions, unrevoked, crossed>>
    BY <1>7 DEF StartLogin, FindAccount
  <2>2. /\ Others(q) /\ op[q].pc \in {"idle", "find"} /\ op'[q].pc \in {"session", "update", "done"}
        /\ op'[q].pc = "session" =>
               account[op'[q].who].status = "active" /\ op'[q].using = account[op'[q].who].password
    BY <1>7, LoginMoves, FindMoves
  <2> QED BY <2>1, <2>2, OthersSessions DEF Entered
<1>8. ASSUME NEW q \in Requests, Abandon(q) PROVE SessionMoves
  <2>1. /\ UNCHANGED <<account, sessions>> /\ crossed \subseteq crossed' /\ unrevoked \subseteq unrevoked'
        /\ op[q].pc = "revoke" => op[q].who \in unrevoked'
    BY <1>8 DEF Abandon, At
  <2> QED BY <1>8, <2>1, OthersSessions, AbandonMoves DEF Entered
<1>9. ASSUME (\E p \in Purposes : Expire(p)) \/ RevokeInvite \/ UNCHANGED vars PROVE SessionMoves
  <2>1. UNCHANGED <<op, account, sessions, crossed, unrevoked>>
    BY <1>9 DEF Expire, RevokeInvite, vars
  <2> QED BY <2>1 DEF SessionMoves
<1>10. ASSUME NEW q \in Requests, Logout(q) PROVE SessionMoves
  <2>1. /\ sessions' = sessions \ {q} /\ UNCHANGED <<account, crossed, unrevoked>>
        /\ Closed({q}) /\ op[q].pc = "done"
    BY <1>10, <1>a, LogoutMoves DEF Logout
  <2>2. \A r \in Requests \ {q} : op'[r] = op[r]
    BY <2>1 DEF Closed
  <2>3. op'[q].pc = "done"
    BY <2>1, EndTyped DEF Closed
  <2> QED BY <2>1, <2>2, <2>3, <1>a DEF SessionMoves, Entered
<1>11. ASSUME NEW q \in Requests, CreateAccount(q) PROVE SessionMoves
  <2>1. UNCHANGED <<sessions, crossed, unrevoked>> /\ Others(q) /\ op[q].pc = "create"
    BY <1>11, CreateMoves DEF CreateAccount
  <2>2. CASE op'[q].pc = "done" /\ account' = account
    BY <2>1, <2>2, OthersSessions DEF Entered
  <2>3. CASE /\ op'[q].pc \in {"link", "invite"} /\ op'[q].who \in Ids /\ op'[q].using = q
             /\ account[op'[q].who].status = "none"
             /\ account' = [account EXCEPT ![op'[q].who] =
                    [status |-> "active", renamed |-> FALSE, password |-> q]]
    <3>1. /\ account'[op'[q].who].status = "active" /\ account'[op'[q].who].password = q
          /\ \A a \in Ids \ {op'[q].who} : account'[a] = account[a]
      BY <2>3 DEF TypeOK
    <3>2. \A r \in Requests \ {q} : op'[r] = op[r]
      BY <2>1 DEF Others
    <3>3. \A a \in Ids : account'[a] = account[a] \/ account[a].status # "active"
      BY <2>3, <3>1
    <3> QED BY <1>a, <1>b, <2>1, <2>3, <3>1, <3>2, <3>3 DEF SessionMoves
  <2> QED BY <1>11, <2>2, <2>3, CreateMoves
<1>12. ASSUME NEW q \in Requests, UpdatePassword(q) PROVE SessionMoves
  <2>1. /\ UNCHANGED <<sessions, unrevoked>> /\ Proceeds(q, "update", "revoke")
        /\ account' = [account EXCEPT ![op[q].who].password = q]
        /\ crossed' = crossed \cup Entering(op[q].who)
    BY <1>12, UpdateMoves DEF UpdatePassword
  <2>2. \A a \in Ids \ {op[q].who} : account'[a] = account[a]
    BY <2>1 DEF TypeOK
  <2>3. \A r \in Requests \ {q} : op'[r] = op[r]
    BY <2>1 DEF Proceeds, Others
  <2>4. op[q].pc = "update" /\ op'[q].pc = "revoke" /\ op'[q].who = op[q].who
    BY <2>1 DEF Proceeds
  <2>5. \A r \in Requests : op[r].pc \in Entered /\ op[r].who = op[q].who => r \in crossed'
    BY <2>1, <1>b DEF Entering, Entered
  <2>6. ASSUME NEW x \in sessions'
        PROVE  /\ op'[x] = op[x]
               /\ \/ account'[op[x].who] = account[op[x].who]
                  \/ \E r \in Requests : op'[r].who = op[x].who /\ op'[r].pc = "revoke"
               /\ \A r \in Requests : op[r].pc = "revoke" => op'[r] = op[r]
    BY <1>a, <2>1, <2>2, <2>3, <2>4, <2>6
  <2>7. \A r \in Requests :
            /\ op'[r].pc \in Entered =>
                   /\ op[r].pc \in Entered /\ op'[r] = op[r]
                   /\ account'[op[r].who] = account[op[r].who] \/ r \in crossed'
            /\ op'[r].pc = "find email" => op'[r] = op[r]
    BY <1>b, <2>2, <2>3, <2>4, <2>5 DEF Entered
  <2> QED BY <2>1, <2>6, <2>7 DEF SessionMoves
<1>13. ASSUME NEW q \in Requests, EndSessions(q) PROVE SessionMoves
  <2> DEFINE gone == SessionsOf(op[q].who)
  <2>1. /\ sessions' = sessions \ gone /\ UNCHANGED <<account, crossed>>
        /\ unrevoked' = unrevoked \ {op[q].who}
        /\ Closed(gone \cup {q}) /\ op[q].pc = "revoke"
    BY <1>13, EndSessionsMoves DEF EndSessions
  <2>2. \A r \in Requests : r \in sessions /\ op[r].who = op[q].who <=> r \in gone
    BY <1>a DEF SessionsOf
  <2> HIDE DEF gone
  <2>3. \A r \in Requests : op'[r] = op[r] \/ (r \in gone \cup {q} /\ op'[r].pc = "done")
    BY <2>1, EndTyped DEF Closed
  <2>4. ASSUME NEW x \in sessions'
        PROVE  /\ op'[x] = op[x] /\ op[x].who # op[q].who
               /\ \A r \in Requests : op[r].pc = "revoke" /\ op[r].who = op[x].who => op'[r] = op[r]
    BY <1>a, <2>1, <2>2, <2>3, <2>4 DEF Closed
  <2>5. \A r \in Requests : op'[r].pc \in Entered \cup {"find email"} => op'[r] = op[r]
    BY <2>3 DEF Entered
  <2> QED BY <2>1, <2>4, <2>5 DEF SessionMoves
<1>14. ASSUME NEW q \in Requests, NEW a \in Ids, NEW status \in {"active", "suspended"}, SetStatus(q, a, status)
       PROVE  SessionMoves
  <2>1. /\ UNCHANGED <<sessions, unrevoked>> /\ Others(q) /\ op[q].pc = "idle"
        /\ account' = [account EXCEPT ![a].status = status]
        /\ account[a].status # status
        /\ IF status = "active" THEN op'[q].pc = "done" ELSE op'[q].pc = "revoke" /\ op'[q].who = a
        /\ crossed' = IF status = "active" THEN crossed ELSE crossed \cup Entering(a)
    BY <1>14, StatusMoves DEF SetStatus
  <2>2. \A b \in Ids \ {a} : account'[b] = account[b]
    BY <2>1 DEF TypeOK
  <2>3. \A r \in Requests \ {q} : op'[r] = op[r]
    BY <2>1 DEF Others
  <2>4. \A r \in Requests : op[r].pc \in Entered /\ op[r].who = a =>
            r \in crossed' \/ account[a].status # "active"
    BY <2>1, <1>b DEF Entering, Entered
  <2>5. ASSUME NEW x \in sessions'
        PROVE  /\ op'[x] = op[x]
               /\ \/ account'[op[x].who] = account[op[x].who]
                  \/ account[op[x].who].status # "active"
                  \/ \E r \in Requests : op'[r].who = op[x].who /\ op'[r].pc = "revoke"
               /\ \A r \in Requests : op[r].pc = "revoke" => op'[r] = op[r]
    BY <1>a, <2>1, <2>2, <2>3, <2>5
  <2>6. \A r \in Requests :
            /\ op'[r].pc \in Entered =>
                   /\ op[r].pc \in Entered /\ op'[r] = op[r]
                   /\ \/ account'[op[r].who] = account[op[r].who] \/ r \in crossed'
                      \/ account[op[r].who].status # "active"
            /\ op'[r].pc = "find email" => op'[r] = op[r]
    BY <1>b, <2>1, <2>2, <2>3, <2>4 DEF Entered
  <2>7. crossed \subseteq crossed'
    BY <2>1
  <2> QED BY <2>1, <2>5, <2>6, <2>7 DEF SessionMoves
<1>15. ASSUME NEW a \in Ids, DeleteAccount(a) PROVE SessionMoves
  <2> DEFINE gone == SessionsOf(a)
  <2>1. /\ sessions' = sessions \ gone /\ Closed(gone)
        /\ account' = [account EXCEPT ![a].status = "deleted", ![a].renamed = TRUE]
        /\ unrevoked' = unrevoked \ {a} /\ crossed' = crossed \cup Entering(a)
    BY <1>15, DeleteAccountMoves DEF DeleteAccount
  <2>2. \A r \in Requests : r \in sessions /\ op[r].who = a <=> r \in gone
    BY <1>a DEF SessionsOf
  <2> HIDE DEF gone
  <2>3. \A r \in Requests : op'[r] = op[r] \/ (r \in gone /\ op'[r].pc = "done")
    BY <2>1, EndTyped DEF Closed
  <2>4. \A b \in Ids \ {a} : account'[b] = account[b]
    BY <2>1 DEF TypeOK
  <2>5. ASSUME NEW x \in sessions'
        PROVE  /\ op'[x] = op[x] /\ op[x].who # a /\ account'[op[x].who] = account[op[x].who]
               /\ \A r \in Requests : op[r].pc = "revoke" => op'[r] = op[r]
    BY <1>a, <2>1, <2>2, <2>3, <2>4, <2>5 DEF Closed
  <2>6. \A r \in Requests :
            /\ op'[r].pc \in Entered =>
                   /\ op[r].pc \in Entered /\ op'[r] = op[r]
                   /\ account'[op[r].who] = account[op[r].who] \/ r \in crossed'
            /\ op'[r].pc = "find email" => op'[r] = op[r]
    BY <1>b, <2>1, <2>3, <2>4 DEF Entered, Entering
  <2> QED BY <2>1, <2>5, <2>6 DEF SessionMoves
<1>16. ASSUME NEW q \in Requests, OpenSession(q) PROVE EntryInv' /\ SessionIsCurrent'
  <2>1. /\ sessions' = sessions \cup {q} /\ UNCHANGED <<account, crossed, unrevoked>>
        /\ Proceeds(q, "session", "done")
    BY <1>16, OpenMoves DEF OpenSession
  <2>2. \A r \in Requests \ {q} : op'[r] = op[r]
    BY <2>1 DEF Proceeds, Others
  <2>3. /\ op[q].pc = "session" /\ op'[q].pc = "done"
        /\ op'[q].kind = op[q].kind /\ op'[q].who = op[q].who /\ op'[q].using = op[q].using
    BY <2>1 DEF Proceeds
  <2>4. op[q].who \in Ids
    BY <2>3, <1>b DEF Entered
  <2>5. EntryInv'
    BY <1>a, <2>1, <2>2, <2>3, <2>4 DEF EntryInv, At
  <2>6. \A r \in Requests : op[r].pc = "revoke" => op'[r] = op[r] /\ r \in Open'
    BY <2>2, <2>3 DEF Open
  <2>7. ASSUME NEW x \in sessions'
        PROVE  \/ account'[op'[x].who].status = "active" /\ op'[x].using = account'[op'[x].who].password
               \/ op'[x].kind = "oauth"
               \/ x \in crossed' \/ op'[x].who \in unrevoked'
               \/ \E r \in Open' : op'[r].who = op'[x].who /\ op'[r].pc = "revoke"
    <3>1. CASE x = q
      BY <3>1, <2>1, <2>3 DEF EntryInv
    <3>2. CASE x # q
      <4>1. x \in sessions /\ op'[x] = op[x]
        BY <3>2, <2>1, <2>2, <2>7, <1>a
      <4>2. \/ account[op[x].who].status = "active" /\ op[x].using = account[op[x].who].password
            \/ op[x].kind = "oauth"
            \/ x \in crossed \/ op[x].who \in unrevoked
            \/ \E r \in Requests : op[r].who = op[x].who /\ op[r].pc = "revoke"
        BY <4>1 DEF SessionIsCurrent, Open
      <4> QED BY <4>1, <4>2, <2>1, <2>6
    <3> QED BY <3>1, <3>2
  <2>8. SessionIsCurrent'
    BY <2>7 DEF SessionIsCurrent
  <2> QED BY <2>5, <2>8
<1> QED
  BY <1>1, <1>2, <1>3, <1>4, <1>5, <1>6, <1>7, <1>8, <1>9, <1>10, <1>11, <1>12, <1>13, <1>14, <1>15,
     <1>16, SessionsKept, StepCases

-----------------------------------------------------------------------------
\* The invariant holds initially.
LEMMA InvInit ==
    ASSUME Init
    PROVE  IInv
<1>1. TypeOK
  <2>1. NoRow \in AccountRows /\ [NoRow EXCEPT !.status = "active"] \in AccountRows
    BY DEF NoRow, AccountRows, Codes
  <2>2. account \in [Ids -> AccountRows]
    BY <2>1 DEF Init
  <2>3. op \in [Requests -> Ops] /\ \A q \in Requests : op[q].pc = "idle"
    BY EndTyped DEF Init
  <2> QED BY <2>2, <2>3 DEF Init, TypeOK, HasAccount, Codes
<1>2. /\ \A q \in Requests : op[q].pc = "idle"
      /\ \A p \in Purposes : code[p] = NoRequest /\ delivered[p] = NoRequest
      /\ accepted = {} /\ reaccepted = {} /\ sessions = {}
  BY EndTyped DEF Init
<1>3. CodeInv /\ CodeAcceptedOnce
  BY <1>2 DEF CodeInv, CodeAcceptedOnce, At
<1>4. DeliveryInv /\ LatestCodeWorks
  BY <1>2 DEF DeliveryInv, LatestCodeWorks, At
<1>5. EntryInv /\ SessionIsCurrent
  BY <1>2 DEF EntryInv, SessionIsCurrent, At
<1> QED BY <1>1, <1>3, <1>4, <1>5 DEF IInv

\* Every step keeps the invariant.
LEMMA InvStep ==
    ASSUME IInv, [Next]_vars
    PROVE  IInv'
BY TypeStep, CodeStep, DeliveryStep, SessionStep DEF IInv

\* IInv is an invariant, for any requests, accounts and faults.
THEOREM AccountsInvariant == Spec => []IInv
<1>1. Init => IInv
  BY InvInit
<1>2. IInv /\ [Next]_vars => IInv'
  BY InvStep
<1> QED BY <1>1, <1>2, PTL DEF Spec

\* Every variable keeps its type.
THEOREM TypeCorrect == Spec => []TypeOK
<1>1. IInv => TypeOK
  BY DEF IInv
<1> QED BY <1>1, AccountsInvariant, PTL

\* verifyContactCode accepts a code twice only if two verifications had read it
\* before either deleted it, or its deletion failed.
THEOREM CodeIsUsedOnce == Spec => []CodeAcceptedOnce
<1>1. IInv => CodeAcceptedOnce
  BY DEF IInv
<1> QED BY <1>1, AccountsInvariant, PTL

\* The last code that reached the contact is the one that is stored, until it
\* is used or expires, unless its storing failed or two requests crossed.
THEOREM NewestCodeWorks == Spec => []LatestCodeWorks
<1>1. IInv => LatestCodeWorks
  BY DEF IInv
<1> QED BY <1>1, AccountsInvariant, PTL

\* A session of an account that was suspended, deleted or given a new password
\* is about to be ended, or its request overlapped the change, or the ending
\* failed.
THEOREM SessionsAreCurrent == Spec => []SessionIsCurrent
<1>1. IInv => SessionIsCurrent
  BY DEF IInv
<1> QED BY <1>1, AccountsInvariant, PTL

===============================================================================
