------------------------------ MODULE DeviceAuth ------------------------------
(***************************************************************************)
(* How the Infinite Code command line logs in through the BFF: one device  *)
(* code, the page on which the user confirms or refuses it, the polls that *)
(* exchange it for an access and a refresh token, and the refreshes that   *)
(* replace a refresh token by the next one.                                *)
(* All of it is keys in Redis, and every command is a step: no handler     *)
(* reads and writes in one.  A poll issues the tokens before it deletes    *)
(* the state, a refresh issues before it deletes the old token, and the    *)
(* page writes back the state it has read.                                 *)
(* A token is named by the request that issued it.  The thirty days a      *)
(* refresh token lives are not modelled: none of these expires.            *)
(***************************************************************************)
EXTENDS Naturals, FiniteSets

CONSTANTS
    Polls,     \* device_code requests of the client
    Refreshes, \* refresh_token requests of the client
    Pages,     \* forms the user submits
    NoState,   \* a key that is not there
    NoToken,   \* what a request that has not begun was sent with
    MaxFaults  \* bound: Redis commands that fail, losses of the process

ASSUME DeviceAuthAssumption ==
    /\ Polls \cap Refreshes = {}
    /\ (Polls \cup Refreshes) \cap Pages = {}
    /\ NoToken \notin Polls \cup Refreshes
    /\ MaxFaults \in Nat

Issuers == Polls \cup Refreshes
Actors == Issuers \cup Pages

States == [approved : BOOLEAN, denied : BOOLEAN]
Pending == [approved |-> FALSE, denied |-> FALSE]

ASSUME NoStateAssumption == NoState \notin States

Ended == {"answered", "pending", "denied", "expired", "error", "confirmed", "refused", "lost"}
Labels == {"idle", "user code", "access", "refresh", "delete", "answer", "store"} \cup Ended

VARIABLES
    creation,  \* the handler that makes the device code
    device,    \* infinite-code:device:<code>
    userCode,  \* whether infinite-code:user-code:<code> is there
    expired,   \* the ten minutes of the device code are over
    live,      \* refresh tokens in Redis
    pc,        \* where each request is
    read,      \* the state a page has read, and will write back
    used,      \* the token a refresh was sent with
    received,  \* tokens the client was answered with
    faults,
    session,   \* history: the poll at the root of each token
    deleted,   \* history: polls that deleted the device code
    seen,      \* history: deletions before each request read the state
    revived,   \* history: a page wrote back a state deleted since it read it
    confirmed, \* history: a page told the user "authorized"
    refused,   \* history: so did one with "refused", and none the other since
    tooLate    \* history: polls that read the state while it was refused

redis == <<device, userCode, live>>
client == <<used, received>>
history == <<session, deleted, seen, revived, confirmed, refused, tooLate>>
vars == <<creation, redis, expired, pc, read, client, faults, history>>

Init ==
    /\ creation = "new"
    /\ device = NoState /\ userCode = FALSE
    /\ expired = FALSE
    /\ live = {}
    /\ pc = [a \in Actors |-> "idle"]
    /\ read = [g \in Pages |-> Pending]
    /\ used = [q \in Refreshes |-> NoToken]
    /\ received = {}
    /\ faults = 0
    /\ session = [a \in Issuers |-> NoToken]
    /\ deleted = {}
    /\ seen = [a \in Polls \cup Pages |-> {}]
    /\ revived = FALSE /\ confirmed = FALSE /\ refused = FALSE
    /\ tooLate = {}

At(a, label) == pc[a] = label
Goto(a, label) == pc' = [pc EXCEPT ![a] = label]

\* A Redis command returns an error.
Fault ==
    /\ faults < MaxFaults
    /\ faults' = faults + 1

-----------------------------------------------------------------------------
(* handleInfiniteCodeDeviceCode.                                           *)

\* The state, then the key that finds it; the client is only told of a code
\* when both are stored.
CreateDevice ==
    /\ \/ /\ creation = "new"
          /\ device' = Pending
          /\ creation' = "state stored"
          /\ UNCHANGED <<userCode, faults>>
       \/ /\ creation = "state stored"
          /\ userCode' = TRUE
          /\ creation' = "answered"
          /\ UNCHANGED <<device, faults>>
       \/ /\ creation \in {"new", "state stored"}
          /\ Fault
          /\ creation' = "failed"
          /\ UNCHANGED <<device, userCode>>
    /\ UNCHANGED <<expired, live, pc, read, client, history>>

-----------------------------------------------------------------------------
(* handleInfiniteCodeDeviceTokenPoll.                                      *)

\* loadInfiniteCodeDeviceState: a state past its time is as good as none.
Loadable == device # NoState /\ ~expired

\* Mutant of PollOutcome: a state that names a user is taken first.
UserFirst(state) ==
    IF state.approved THEN "access" ELSE IF state.denied THEN "denied" ELSE "pending"

PollOutcome(state) ==
    IF state.denied THEN "denied" ELSE IF ~state.approved THEN "pending" ELSE "access"

\* Mutant of LoadState: the state is taken out as it is read.
TakeState(p) ==
    /\ At(p, "idle") /\ creation = "answered"
    /\ \/ Loadable /\ Goto(p, PollOutcome(device)) /\ device' = NoState /\ UNCHANGED faults
       \/ ~Loadable /\ Goto(p, "expired") /\ UNCHANGED <<device, faults>>
       \/ Fault /\ Goto(p, "expired") /\ UNCHANGED device
    /\ seen' = [seen EXCEPT ![p] = deleted]
    /\ tooLate' = IF refused THEN tooLate \cup {p} ELSE tooLate
    /\ session' = [session EXCEPT ![p] = p]
    /\ UNCHANGED <<creation, userCode, live, expired, read, client, deleted, revived,
                   confirmed, refused>>

\* A failed GET is answered like a key that is not there.
LoadState(p) ==
    /\ At(p, "idle") /\ creation = "answered"
    /\ \/ Loadable /\ Goto(p, PollOutcome(device)) /\ UNCHANGED faults
       \/ ~Loadable /\ Goto(p, "expired") /\ UNCHANGED faults
       \/ Fault /\ Goto(p, "expired")
    /\ seen' = [seen EXCEPT ![p] = deleted]
    /\ tooLate' = IF refused THEN tooLate \cup {p} ELSE tooLate
    /\ session' = [session EXCEPT ![p] = p]
    /\ UNCHANGED <<creation, redis, expired, read, client, deleted, revived,
                   confirmed, refused>>

\* issueInfiniteCodeTokens: the access token, then the refresh token. When
\* the second is not stored the first stays behind, unanswered.
IssueTokens(a) ==
    /\ \/ /\ At(a, "access")
          /\ Goto(a, "refresh")
          /\ UNCHANGED <<live, faults>>
       \/ /\ At(a, "refresh")
          /\ live' = live \cup {a}
          /\ Goto(a, "delete")
          /\ UNCHANGED faults
       \/ /\ pc[a] \in {"access", "refresh"}
          /\ Fault
          /\ Goto(a, "error")
          /\ UNCHANGED live
    /\ UNCHANGED <<creation, device, userCode, expired, read, client, history>>

\* Mutant of DeleteDevice: only the user's code is deleted.
DeleteUserCode(p) ==
    /\ At(p, "delete")
    /\ userCode' = FALSE /\ deleted' = deleted \cup {p}
    /\ Goto(p, "answer")
    /\ UNCHANGED <<creation, device, live, expired, read, client, faults, session, seen,
                   revived, confirmed, refused, tooLate>>

\* One DEL for both keys; its error is ignored.
DeleteDevice(p) ==
    /\ At(p, "delete")
    /\ \/ device' = NoState /\ userCode' = FALSE /\ deleted' = deleted \cup {p} /\ UNCHANGED faults
       \/ Fault /\ UNCHANGED <<device, userCode, deleted>>
    /\ Goto(p, "answer")
    /\ UNCHANGED <<creation, live, expired, read, client, session, seen, revived,
                   confirmed, refused, tooLate>>

\* The answer reaches the client, or the connection is gone.
Answer(a) ==
    /\ At(a, "answer")
    /\ \/ received' = received \cup {a} /\ Goto(a, "answered")
       \/ Goto(a, "lost") /\ UNCHANGED received
    /\ UNCHANGED <<creation, redis, expired, read, used, faults, history>>

-----------------------------------------------------------------------------
(* handleInfiniteCodeRefreshToken.                                         *)

\* Mutant of LoadToken: the old token is taken out as it is read.
TakeToken(q) ==
    /\ At(q, "idle")
    /\ \E t \in received :
          /\ used' = [used EXCEPT ![q] = t]
          /\ session' = [session EXCEPT ![q] = session[t]]
          /\ live' = live \ {t}
          /\ \/ t \in live /\ Goto(q, "access") /\ UNCHANGED faults
             \/ t \notin live /\ Goto(q, "expired") /\ UNCHANGED faults
             \/ Fault /\ Goto(q, "expired")
    /\ UNCHANGED <<creation, device, userCode, expired, read, received, deleted, seen,
                   revived, confirmed, refused, tooLate>>

\* The client may repeat a request, with a token it has used before.
LoadToken(q) ==
    /\ At(q, "idle")
    /\ \E t \in received :
          /\ used' = [used EXCEPT ![q] = t]
          /\ session' = [session EXCEPT ![q] = session[t]]
          /\ \/ t \in live /\ Goto(q, "access") /\ UNCHANGED faults
             \/ t \notin live /\ Goto(q, "expired") /\ UNCHANGED faults
             \/ Fault /\ Goto(q, "expired")
    /\ UNCHANGED <<creation, redis, expired, read, received, deleted, seen, revived,
                   confirmed, refused, tooLate>>

DeleteToken(q) ==
    /\ At(q, "delete")
    /\ \/ live' = live \ {used[q]} /\ UNCHANGED faults
       \/ Fault /\ UNCHANGED live
    /\ Goto(q, "answer")
    /\ UNCHANGED <<creation, device, userCode, expired, read, client, history>>

-----------------------------------------------------------------------------
(* handleInfiniteCodeAuthorize, the POST.                                  *)

FindDevice(g) ==
    /\ At(g, "idle")
    /\ \/ userCode /\ Goto(g, "user code") /\ UNCHANGED faults
       \/ ~userCode /\ Goto(g, "expired") /\ UNCHANGED faults
       \/ Fault /\ Goto(g, "expired")
    /\ UNCHANGED <<creation, redis, expired, read, client, history>>

ReadState(g) ==
    /\ At(g, "user code")
    /\ \/ /\ Loadable /\ Goto(g, "store")
          /\ read' = [read EXCEPT ![g] = device]
          /\ UNCHANGED faults
       \/ ~Loadable /\ Goto(g, "expired") /\ UNCHANGED <<read, faults>>
       \/ Fault /\ Goto(g, "expired") /\ UNCHANGED read
    /\ seen' = [seen EXCEPT ![g] = deleted]
    /\ UNCHANGED <<creation, redis, expired, client, session, deleted, revived,
                   confirmed, refused, tooLate>>

\* storeInfiniteCodeDeviceState: whatever happened to the key meanwhile.
StoreState(g, state) ==
    /\ device' = state
    /\ revived' = (revived \/ deleted # seen[g])
    /\ UNCHANGED faults

pageFrame == <<creation, userCode, live, expired, read, client, session, deleted, seen, tooLate>>

\* The user is shown a success only when the state is stored.
Approve(g) ==
    /\ At(g, "store")
    /\ \/ /\ StoreState(g, [approved |-> TRUE, denied |-> FALSE])
          /\ confirmed' = TRUE /\ refused' = FALSE
          /\ Goto(g, "confirmed")
       \/ /\ Fault
          /\ Goto(g, "error")
          /\ UNCHANGED <<device, revived, confirmed, refused>>
    /\ UNCHANGED pageFrame

\* The refusal is shown whether it was stored or not.
Deny(g) ==
    /\ At(g, "store")
    /\ \/ StoreState(g, [read[g] EXCEPT !.denied = TRUE])
       \/ Fault /\ UNCHANGED <<device, revived>>
    /\ refused' = TRUE
    /\ Goto(g, "refused")
    /\ UNCHANGED <<confirmed, pageFrame>>

\* Nobody is logged in, or the form is not the one of this session.
TurnAway(g) ==
    /\ At(g, "store")
    /\ Goto(g, "error")
    /\ UNCHANGED <<creation, redis, expired, read, client, faults, history>>

-----------------------------------------------------------------------------
(* The environment.                                                        *)

\* The device code's time is over; Redis removes its keys at some later
\* moment, and those a page wrote back, which live for a second.
Expire ==
    /\ creation = "answered" /\ ~expired
    /\ expired' = TRUE
    /\ UNCHANGED <<creation, redis, pc, read, client, faults, history>>

Evict ==
    /\ expired
    /\ device # NoState \/ userCode
    /\ device' = NoState /\ userCode' = FALSE
    /\ UNCHANGED <<creation, live, expired, pc, read, client, faults, history>>

\* The BFF is lost with every request it was serving; Redis is not.
Crash ==
    /\ Fault
    /\ creation' = IF creation = "state stored" THEN "failed" ELSE creation
    /\ pc' = [a \in Actors |-> IF pc[a] \in Ended \cup {"idle"} THEN pc[a] ELSE "lost"]
    /\ UNCHANGED <<redis, expired, read, client, history>>

Quiescent ==
    /\ creation \in {"answered", "failed"}
    /\ \A a \in Actors : pc[a] \in Ended \cup {"idle"}
    /\ UNCHANGED vars

PollStep(p) == LoadState(p) \/ IssueTokens(p) \/ DeleteDevice(p) \/ Answer(p)
RefreshStep(q) == LoadToken(q) \/ IssueTokens(q) \/ DeleteToken(q) \/ Answer(q)
PageStep(g) == FindDevice(g) \/ ReadState(g) \/ Approve(g) \/ Deny(g) \/ TurnAway(g)

Next ==
    \/ CreateDevice
    \/ \E p \in Polls : PollStep(p)
    \/ \E q \in Refreshes : RefreshStep(q)
    \/ \E g \in Pages : PageStep(g)
    \/ Expire \/ Evict \/ Crash
    \/ Quiescent

Spec == Init /\ [][Next]_vars

-----------------------------------------------------------------------------
(* Properties.                                                             *)

\* Refresh tokens that were stored, used up since or not.
Issued == {a \in Issuers : pc[a] \in {"delete", "answer", "answered"} \/ a \in live}

\* Every variable holds a value of its type.
Typed ==
    /\ creation \in {"new", "state stored", "answered", "failed"}
    /\ device \in States \cup {NoState}
    /\ userCode \in BOOLEAN /\ expired \in BOOLEAN
    /\ revived \in BOOLEAN /\ confirmed \in BOOLEAN /\ refused \in BOOLEAN
    /\ live \subseteq Issuers /\ received \subseteq Issuers
    /\ pc \in [Actors -> Labels]
    /\ read \in [Pages -> States]
    /\ used \in [Refreshes -> Issuers \cup {NoToken}]
    /\ session \in [Issuers -> Polls \cup {NoToken}]
    /\ deleted \subseteq Polls /\ tooLate \subseteq Polls
    /\ seen \in [Polls \cup Pages -> SUBSET Polls]
    /\ faults \in 0..MaxFaults

\* Besides, a stored token belongs to a session, and the two keys of a code
\* that is still valid are there together or not at all, unless a page wrote
\* one of them back.
TypeOK ==
    /\ Typed
    /\ \A a \in Issued : session[a] \in Polls
    /\ creation = "answered" /\ ~expired /\ ~revived =>
           (userCode <=> device # NoState)

\* A device code is exchanged once. A poll that reads it after another has
\* deleted it gets tokens only when a page wrote the state back that it had
\* read before the deletion; otherwise two that get tokens have both read it
\* before either deleted it.
ExchangedOnceUnlessOverlapped ==
    ~revived =>
        \A p, q \in Issued \cap Polls : p # q => p \notin seen[q]

\* An authorization the user was told of is not lost before it expires,
\* whatever fails in the middle of an exchange: the code can still be
\* exchanged, or the tokens are stored.
ApprovalNotLost ==
    confirmed /\ ~refused /\ ~expired =>
        \/ device = [approved |-> TRUE, denied |-> FALSE]
        \/ Issued \cap Polls # {}

\* A refusal the user was told of holds: no poll that comes afterwards gets
\* tokens, pages that overlap included, unless a command failed or a page
\* confirmed since.
RefusalHolds == faults = 0 => tooLate \cap Issued = {}

\* At every moment Redis holds a refresh token for each session that got
\* tokens, however refreshes of it overlap, repeat or fail half-way: the
\* next token is there before the old one goes.
SessionKeepsToken ==
    \A a \in Issued : \E t \in live : session[t] = session[a]

=============================================================================
