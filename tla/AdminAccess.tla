---------------------------- MODULE AdminAccess ----------------------------
(***************************************************************************)
(* The first administrator and the logins after it.  While there is no     *)
(* administrator anybody may start a setup, which Redis keeps for fifteen  *)
(* minutes under a token; whoever completes one becomes the administrator. *)
(* A setup is named by the request that started it, an administrator by    *)
(* the one that completed it, a session by the one that opened it.         *)
(* Logins pass RiskGuard first, the setup does not.  A setup that is       *)
(* completed has the right one-time code; that of a login may be wrong.    *)
(***************************************************************************)
EXTENDS RiskGuard, FiniteSets

VARIABLES
    setups,   \* adminBootstrapStateKey: the setups in Redis
    admins,   \* admin_users
    sessions, \* admin_sessions
    who       \* the setup a request completes, then the administrator it is for

adminVars == <<setups, admins, sessions, who>>
accessVars == <<guardVars, adminVars>>
guardData == <<count, expiring, blocked, fingerprint, key, lost>>

HandlerStages == {"store", "read", "create", "forget", "handler", "session"}

AdminInit ==
    /\ GuardInit
    /\ setups = {} /\ admins = {} /\ sessions = {}
    /\ who = [q \in Requests |-> q]

Finish(q) == ToStage(q, "done")

\* AdminSetupRequired: no row in admin_users.
SetupRequired == admins = {}

-----------------------------------------------------------------------------
(* handleAdminBootstrapStart.                                              *)

StartSetup(q) ==
    /\ AtStage(q, "new") /\ SetupRequired
    /\ ToStage(q, "store")
    /\ UNCHANGED <<guardData, failures, adminVars>>

StoreSetup(q) ==
    /\ AtStage(q, "store")
    /\ setups' = setups \cup {q}
    /\ Finish(q)
    /\ UNCHANGED <<guardData, failures, admins, sessions, who>>

SetupExpires(s) ==
    /\ s \in setups /\ setups' = setups \ {s}
    /\ UNCHANGED <<guardVars, admins, sessions, who>>

-----------------------------------------------------------------------------
(* handleAdminBootstrapComplete.                                           *)

BeginComplete(q) ==
    /\ AtStage(q, "new") /\ SetupRequired
    /\ ToStage(q, "read")
    /\ UNCHANGED <<guardData, failures, adminVars>>

\* The setup the token names, or it has expired.
ReadSetup(q) ==
    /\ AtStage(q, "read")
    /\ \/ \E s \in setups : who' = [who EXCEPT ![q] = s] /\ ToStage(q, "create")
       \/ Finish(q) /\ UNCHANGED who
    /\ UNCHANGED <<guardData, failures, setups, admins, sessions>>

\* Mutant of CreateFirstAdmin: the answer to the first question is trusted.
CreateAdmin(q) ==
    /\ AtStage(q, "create")
    /\ admins' = admins \cup {q} /\ ToStage(q, "forget")
    /\ UNCHANGED <<guardData, failures, setups, sessions, who>>

\* One transaction, under a lock on the table: the rows are counted again.
\* Its commit may be the last thing the client is not told of.
CreateFirstAdmin(q) ==
    /\ AtStage(q, "create")
    /\ \/ /\ SetupRequired /\ admins' = {q}
          /\ ToStage(q, "forget") /\ UNCHANGED failures
       \/ SetupRequired /\ admins' = {q} /\ Failure /\ Finish(q)
       \/ ~SetupRequired /\ Finish(q) /\ UNCHANGED <<admins, failures>>
    /\ UNCHANGED <<guardData, setups, sessions, who>>

\* An error here is ignored.
ForgetSetup(q) ==
    /\ AtStage(q, "forget")
    /\ \/ setups' = setups \ {who[q]} /\ UNCHANGED failures
       \/ Failure /\ UNCHANGED setups
    /\ who' = [who EXCEPT ![q] = q]
    /\ ToStage(q, "session")
    /\ UNCHANGED <<guardData, admins, sessions>>

\* issueAdminSession.
OpenSession(q) ==
    /\ AtStage(q, "session")
    /\ sessions' = sessions \cup {q}
    /\ Finish(q)
    /\ UNCHANGED <<guardData, failures, setups, admins, who>>

-----------------------------------------------------------------------------
(* handleAdminLogin, handleAdminLogout.                                    *)

Login(q) ==
    /\ AtStage(q, "handler")
    /\ \/ \E a \in admins : who' = [who EXCEPT ![q] = a] /\ ToStage(q, "session")
       \/ Finish(q) /\ UNCHANGED who
    /\ UNCHANGED <<guardData, failures, setups, admins, sessions>>

Logout(x) ==
    /\ x \in sessions /\ sessions' = sessions \ {x}
    /\ UNCHANGED <<guardVars, setups, admins, who>>

-----------------------------------------------------------------------------
\* A statement fails and ends the request, the client hangs up, or the
\* process is lost.
Abandon(q) ==
    /\ stage[q] \in HandlerStages /\ Failure
    /\ Finish(q)
    /\ UNCHANGED <<guardData, adminVars>>

\* A request to log in meets the guard first.
Guarded(q) ==
    /\ EnterGuard(q) \/ GuardStep(q) \/ CommandFails(q)
    /\ UNCHANGED adminVars

Handler(q) ==
    \/ StoreSetup(q) \/ ReadSetup(q) \/ CreateFirstAdmin(q) \/ ForgetSetup(q)
    \/ Login(q) \/ OpenSession(q)

Step(q) ==
    \/ Guarded(q) \/ Handler(q)
    \/ StartSetup(q) \/ BeginComplete(q)
    \/ Logout(q) \/ Abandon(q)

AdminNext ==
    \/ \E q \in Requests : Step(q)
    \/ Timers /\ UNCHANGED adminVars
    \/ \E s \in setups : SetupExpires(s)

AdminSpec == AdminInit /\ [][AdminNext]_accessVars

\* Redis answers, and keys reach the end of their time.
AdminFairness ==
    /\ \A q \in Requests : WF_accessVars(GuardStep(q) /\ UNCHANGED adminVars)
    /\ \A k \in Keys :
          /\ WF_accessVars(CounterExpires(k) /\ UNCHANGED adminVars)
          /\ WF_accessVars(BlockExpires(k) /\ UNCHANGED adminVars)

AdminFairSpec == AdminSpec /\ AdminFairness

-----------------------------------------------------------------------------
(* Properties.                                                             *)

\* CreateFirstAdmin: whatever setups are started and completed side by side,
\* by however many people, one request creates an administrator; the others
\* that had seen the table empty are turned away, and no session is open, or
\* about to be, that is not that administrator's.
OneFirstAdmin ==
    /\ Cardinality(admins) <= 1
    /\ \A q \in Requests :
          /\ AtStage(q, "forget") => q \in admins
          /\ q \in sessions \/ AtStage(q, "session") => who[q] \in admins
=============================================================================
