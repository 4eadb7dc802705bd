----------------------------- MODULE QuotaLedger -----------------------------
(***************************************************************************)
(* The developer API and the Infinite Code quota of one user: requests     *)
(* that reserve a credit before they go upstream and give it back when the *)
(* upstream fails, and payments that add to the same ledger.  A request    *)
(* with an ordinary API key costs nothing.                                 *)
(* Reserving and refunding are transactions that lock the user's row; a    *)
(* payment locks its order instead.  PostgreSQL runs them READ COMMITTED,  *)
(* and created_at is the time the transaction began, not the time it       *)
(* committed.  The limit on a model is checked before the transaction.     *)
(***************************************************************************)
EXTENDS Integers, Sequences, FiniteSets, SequencesExt

CONSTANTS
    Requests,   \* requests of the user, each with a reference of its own
    Payments,   \* recharges being fulfilled
    Amount,     \* what a recharge adds
    PlanCredits, \* credits per window, of each plan the user may have
    ModelLimit, \* limit of the plan on the model, per window
    MaxResets,  \* bound: windows that begin
    MaxFaults   \* bound: failed statements, lost answers to COMMIT, crashes

\* The user's row is not locked.
Free == "free"

ASSUME QuotaLedgerAssumption ==
    /\ Requests \cap Payments = {}
    /\ Free \notin Requests
    /\ PlanCredits \subseteq Nat
    /\ {ModelLimit, MaxResets, MaxFaults} \subseteq Nat
    /\ Amount \in Nat \ {0}

\* A model answers to its slug and to the name it has upstream.
Names == {"slug", "upstream"}

\* How an answer may be made: an agent's tools have the request relayed as it
\* is, a stream is passed on part by part, anything else is asked for whole.
Ways == {"relay", "stream", "whole"}

InTransaction == {"charging", "charge", "refunding", "refund"}
Ended == {"answered", "cut", "denied", "refunded", "error", "unrefunded", "crashed"}
VARIABLES
    clock,       \* time of the latest transaction to begin
    credits,     \* credits per window of the user's plan
    windowStart, \* when the current window began
    ledger,      \* quota_ledgers, in the order the rows were committed
    lock,        \* the transaction that holds the user's row
    req,         \* each request: where it is and what it has read
    pay,         \* each payment's transaction
    resets, faults,
    raced        \* history: a commit fell between a payment's read and its own

vars == <<clock, credits, windowStart, ledger, lock, req, pay, resets, faults, raced>>

NewRequest == [pc |-> "new", ways |-> {}, metered |-> TRUE, name |-> "slug",
               since |-> 0, seen |-> {}, ts |-> 0, used |-> 0, current |-> 0]
NewPayment == [pc |-> "new", ts |-> 0, current |-> 0]

Init ==
    /\ clock = 0
    /\ credits \in PlanCredits
    /\ windowStart = 0
    /\ ledger = <<>>
    /\ lock = Free
    /\ req = [r \in Requests |-> NewRequest]
    /\ pay = [p \in Payments |-> NewPayment]
    /\ resets = 0 /\ faults = 0
    /\ raced = FALSE

-----------------------------------------------------------------------------
(* What the queries of the store return.                                   *)

Committed == ToSet(ledger)
Of(type, since) == {row \in Committed : row.type = type /\ row.created >= since}
Refs(rows) == {row.ref : row \in rows}

\* Usage counts one, a refund takes one off, never below zero.
Net(rows) ==
    Cardinality({row \in rows : row.type = "usage"})
        - Cardinality({row \in rows : row.type = "refund"})
AtLeastZero(n) == IF n < 0 THEN 0 ELSE n

\* CountInfiniteCodeUsageSince, and the same query inside the reservation.
UsageSince(since) ==
    AtLeastZero(Net(Of("usage", since) \cup Of("refund", since)))

\* CountInfiniteCodeModelUsageSince: by the name the request gave.
ModelRows(name, since) ==
    {row \in Of("usage", since) \cup Of("refund", since) : row.model = name}

\* ORDER BY created_at DESC LIMIT 1.
CurrentBalance ==
    IF ledger = <<>> THEN 0
    ELSE (CHOOSE row \in Committed :
             \A other \in Committed : other.created <= row.created).balance

At(r, label) == req[r].pc = label
Goto(r, label) == req' = [req EXCEPT ![r].pc = label]

\* What a transaction has read is gone when it ends.
EndTransaction(r, label) ==
    req' = [req EXCEPT ![r] = [@ EXCEPT !.pc = label, !.since = 0, !.ts = 0,
                                        !.used = 0, !.current = 0]]

Row(r, type, balance) ==
    [created |-> req[r].ts, type |-> type, ref |-> r,
     model |-> req[r].name, balance |-> balance]

\* A commit shows its row to everybody, the payments that have read included.
CommitRow(row) ==
    /\ ledger' = Append(ledger, row)
    /\ raced' = (raced \/ \E p \in Payments : pay[p].pc = "read" /\ p # row.ref)

-----------------------------------------------------------------------------
(* The five handlers: who asks, and what the answer may look like.         *)

Scopes == {"*", "chat:write", "images:generate", "other"}
ChatScopes == {"chat:write"}
ImageScopes == {"images:generate", "chat:write"}

\* apiKeyAllows
Allows(scopes, required) == scopes \cap (required \cup {"*"}) # {}

\* What the credentials of a request stand for: the session of Infinite Code
\* may do everything; a key has its scopes; nothing else is let in, the
\* session of a user who is not active any more included.
Principals ==
    {[metered |-> TRUE, scopes |-> {"*"}]}
        \cup {[metered |-> FALSE, scopes |-> scopes] : scopes \in SUBSET Scopes}

Admit(r, required, ways) ==
    /\ At(r, "new")
    /\ \E principal \in Principals :
           /\ Allows(principal.scopes, required)
           /\ req' = [req EXCEPT ![r] = [@ EXCEPT
                         !.pc = IF principal.metered THEN "admitted" ELSE "upstream",
                         !.metered = principal.metered,
                         !.ways = ways]]
    /\ UNCHANGED <<clock, credits, windowStart, ledger, lock, pay, resets, faults, raced>>

HandleDeveloperChatCompletion(r) == Admit(r, ChatScopes, Ways)
HandleDeveloperResponses(r) == Admit(r, ChatScopes, Ways)
HandleDeveloperAnthropicMessage(r) == Admit(r, ChatScopes, {"whole"})
HandleDeveloperImageGeneration(r) == Admit(r, ImageScopes, {"whole"})
HandleDeveloperImageEdit(r) == Admit(r, ImageScopes, {"whole"})

\* No credentials that stand for anybody, or none that may do this, or more
\* calls in this minute than the key may make: the sessions of all users
\* count as one key, so this is not in the hands of the one.
Reject(r) ==
    /\ At(r, "new")
    /\ Goto(r, "denied")
    /\ UNCHANGED <<clock, credits, windowStart, ledger, lock, pay, resets, faults, raced>>

-----------------------------------------------------------------------------
(* reserveInfiniteCodeQuota.                                               *)

\* Plan, window and model are resolved once, outside the transaction.
Resolve(r) ==
    /\ At(r, "admitted")
    /\ \E name \in Names :
           req' = [req EXCEPT ![r] = [@ EXCEPT !.pc = "resolved", !.name = name,
                                               !.since = windowStart]]
    /\ UNCHANGED <<clock, credits, windowStart, ledger, lock, pay, resets, faults, raced>>

\* Mutant of CheckModel: one more than the limit.
CheckModelOffByOne(r) ==
    /\ At(r, "resolved")
    /\ LET counted == ModelRows("slug", req[r].since)
           allowed == AtLeastZero(Net(counted)) <= ModelLimit
       IN  req' = [req EXCEPT ![r] = [@ EXCEPT !.pc = IF allowed THEN "allowed" ELSE "denied",
                                               !.seen = Refs(counted)]]
    /\ UNCHANGED <<clock, credits, windowStart, ledger, lock, pay, resets, faults, raced>>

\* The model check counts the rows under the slug, whatever name was given.
CheckModel(r) ==
    /\ At(r, "resolved")
    /\ LET counted == ModelRows("slug", req[r].since)
           allowed == AtLeastZero(Net(counted)) < ModelLimit
       IN  req' = [req EXCEPT ![r] = [@ EXCEPT !.pc = IF allowed THEN "allowed" ELSE "denied",
                                               !.seen = Refs(counted)]]
    /\ UNCHANGED <<clock, credits, windowStart, ledger, lock, pay, resets, faults, raced>>

\* BEGIN: the timestamp is taken, the lock is not.
Begin(r, from, to) ==
    /\ At(r, from)
    /\ clock' = clock + 1
    /\ req' = [req EXCEPT ![r].pc = to, ![r].ts = clock + 1]
    /\ UNCHANGED <<credits, windowStart, ledger, lock, pay, resets, faults, raced>>

BeginCharge(r) == Begin(r, "allowed", "charging")

\* Mutant of LockAndRead: no FOR UPDATE.
ReadUnlocked(r, from, to) ==
    /\ At(r, from)
    /\ req' = [req EXCEPT ![r] = [@ EXCEPT !.pc = to,
                                           !.used = UsageSince(req[r].since),
                                           !.current = CurrentBalance]]
    /\ UNCHANGED <<clock, credits, windowStart, ledger, lock, pay, resets, faults, raced>>

\* SELECT ... FOR UPDATE, then the two reads.
LockAndRead(r, from, to) ==
    /\ At(r, from)
    /\ lock = Free
    /\ lock' = r
    /\ req' = [req EXCEPT ![r] = [@ EXCEPT !.pc = to,
                                           !.used = UsageSince(req[r].since),
                                           !.current = CurrentBalance]]
    /\ UNCHANGED <<clock, credits, windowStart, ledger, pay, resets, faults, raced>>

LockCharge(r) == LockAndRead(r, "charging", "charge")

Refuse(r) ==
    /\ At(r, "charge")
    /\ credits <= 0 \/ req[r].used >= credits
    /\ lock' = Free
    /\ EndTransaction(r, "denied")
    /\ UNCHANGED <<clock, credits, windowStart, ledger, pay, resets, faults, raced>>

\* The row is inserted and committed; the request goes upstream, unless the
\* answer to COMMIT is lost: an error for a credit that was taken.
Charge(r) ==
    /\ At(r, "charge")
    /\ credits > 0 /\ req[r].used < credits
    /\ lock' = Free
    /\ CommitRow(Row(r, "usage", req[r].current - 1))
    /\ \/ EndTransaction(r, "upstream") /\ UNCHANGED faults
       \/ faults < MaxFaults /\ faults' = faults + 1 /\ EndTransaction(r, "error")
    /\ UNCHANGED <<clock, credits, windowStart, pay, resets>>

-----------------------------------------------------------------------------
(* The answer.                                                             *)

\* An error is followed by a refund only where something was reserved.
Failed(r) == IF req[r].metered THEN "failed" ELSE "error"

\* A request that ended is not asked how any more.
Answered(r, label) ==
    /\ req' = [req EXCEPT ![r] = [@ EXCEPT !.pc = label, !.ways = {}]]
    /\ UNCHANGED <<clock, credits, windowStart, ledger, lock, pay, resets, faults, raced>>

Generate(r) ==
    /\ At(r, "upstream") /\ "whole" \in req[r].ways
    /\ Answered(r, "answered") \/ Answered(r, Failed(r))

\* The status of the relayed answer decides: what becomes of its body, or of
\* the client that reads it, is not looked at.
Relay(r) ==
    /\ At(r, "upstream") /\ "relay" \in req[r].ways
    /\ Answered(r, "answered") \/ Answered(r, "cut") \/ Answered(r, Failed(r))

SendDelta(r) ==
    /\ At(r, "upstream") /\ "stream" \in req[r].ways
    /\ Goto(r, "streaming")
    /\ UNCHANGED <<clock, credits, windowStart, ledger, lock, pay, resets, faults, raced>>

\* A stream fails as a whole, however much of it was sent.
EndStream(r) ==
    /\ \/ At(r, "upstream") /\ "stream" \in req[r].ways
       \/ At(r, "streaming")
    /\ Answered(r, "answered") \/ Answered(r, Failed(r))

-----------------------------------------------------------------------------
(* refundInfiniteCodeQuota, in a context the client cannot cancel.         *)

BeginRefund(r) == Begin(r, "failed", "refunding")
LockRefund(r) == LockAndRead(r, "refunding", "refund")

\* Mutant of Refundable: the charge is looked for in the current window.
RefundableInWindow(r) ==
    /\ r \notin Refs(Of("refund", 0))
    /\ r \in Refs(Of("usage", windowStart))

\* Once per reference, and only for one that was charged.
Refundable(r) ==
    /\ r \notin Refs(Of("refund", 0))
    /\ r \in Refs(Of("usage", 0))

Refund(r) ==
    /\ At(r, "refund")
    /\ lock' = Free
    /\ IF Refundable(r) THEN CommitRow(Row(r, "refund", req[r].current + 1))
                        ELSE UNCHANGED <<ledger, raced>>
    /\ EndTransaction(r, "refunded")
    /\ UNCHANGED <<clock, credits, windowStart, pay, resets, faults>>

\* A statement fails: the transaction is rolled back and the reservation
\* answers with an error; nobody looks at the error of a refund.
Fail(r) ==
    /\ req[r].pc \in InTransaction \cup {"admitted", "resolved"}
    /\ faults < MaxFaults
    /\ faults' = faults + 1
    /\ lock' = IF lock = r THEN Free ELSE lock
    /\ EndTransaction(r, IF req[r].pc \in {"refunding", "refund"} THEN "unrefunded" ELSE "error")
    /\ UNCHANGED <<clock, credits, windowStart, ledger, pay, resets, raced>>

-----------------------------------------------------------------------------
(* applyRechargePaymentTX: no lock on the user, but the foreign key of the *)
(* inserted row waits for one.                                             *)

BeginPayment(p) ==
    /\ pay[p].pc = "new"
    /\ clock' = clock + 1
    /\ pay' = [pay EXCEPT ![p].pc = "begun", ![p].ts = clock + 1]
    /\ UNCHANGED <<credits, windowStart, ledger, lock, req, resets, faults, raced>>

ReadPayment(p) ==
    /\ pay[p].pc = "begun"
    /\ pay' = [pay EXCEPT ![p].pc = "read", ![p].current = CurrentBalance]
    /\ UNCHANGED <<clock, credits, windowStart, ledger, lock, req, resets, faults, raced>>

CommitPayment(p) ==
    /\ pay[p].pc = "read"
    /\ lock = Free
    /\ CommitRow([created |-> pay[p].ts, type |-> "recharge", ref |-> p,
                  model |-> "none", balance |-> pay[p].current + Amount])
    /\ pay' = [pay EXCEPT ![p].pc = "done"]
    /\ UNCHANGED <<clock, credits, windowStart, lock, req, resets, faults>>

-----------------------------------------------------------------------------
(* The environment.                                                        *)

\* The window of the plan ends, or a new subscription anchors another one.
ResetWindow ==
    /\ resets < MaxResets
    /\ resets' = resets + 1
    /\ windowStart' = clock + 1
    /\ clock' = clock + 1
    /\ UNCHANGED <<credits, ledger, lock, req, pay, faults, raced>>

\* The core process is lost: nothing gives a credit back afterwards.
Crash ==
    /\ faults < MaxFaults
    /\ faults' = faults + 1
    /\ lock' = Free
    /\ req' = [r \in Requests |->
                  IF req[r].pc \in Ended \cup {"new"} THEN req[r]
                  ELSE [req[r] EXCEPT !.pc = "crashed", !.ts = 0, !.used = 0, !.current = 0]]
    /\ pay' = [p \in Payments |->
                  IF pay[p].pc = "done" THEN pay[p] ELSE NewPayment]
    /\ UNCHANGED <<clock, credits, windowStart, ledger, resets, raced>>

Done ==
    /\ \A r \in Requests : req[r].pc \in Ended
    /\ \A p \in Payments : pay[p].pc = "done"
    /\ UNCHANGED vars

RequestStep(r) ==
    \/ HandleDeveloperChatCompletion(r) \/ HandleDeveloperResponses(r)
    \/ HandleDeveloperAnthropicMessage(r)
    \/ HandleDeveloperImageGeneration(r) \/ HandleDeveloperImageEdit(r)
    \/ Reject(r)
    \/ Resolve(r) \/ CheckModel(r)
    \/ BeginCharge(r) \/ LockCharge(r) \/ Refuse(r) \/ Charge(r)
    \/ Generate(r) \/ Relay(r) \/ SendDelta(r) \/ EndStream(r)
    \/ BeginRefund(r) \/ LockRefund(r) \/ Refund(r)
    \/ Fail(r)

PaymentStep(p) == BeginPayment(p) \/ ReadPayment(p) \/ CommitPayment(p)

Next ==
    \/ \E r \in Requests : RequestStep(r)
    \/ \E p \in Payments : PaymentStep(p)
    \/ ResetWindow
    \/ Crash
    \/ Done

Spec == Init /\ [][Next]_vars

-----------------------------------------------------------------------------
(* Properties.                                                             *)

Charged(r) == r \in Refs(Of("usage", 0))
Standing(r) == Charged(r) /\ r \notin Refs(Of("refund", 0))

\* Credits spent in a window and not given back never exceed those of the
\* plan, but for the credits a refund of an older charge adds to the window it
\* happens to fall in, however many requests reserve at once and however
\* stale the window is they were admitted in.
WindowQuota ==
    LET spent == {row \in Of("usage", windowStart) : Standing(row.ref)}
        older == {row \in Of("refund", 0) :
                     row.ref \notin Refs(Of("usage", windowStart))}
    IN  Cardinality(spent) <= credits + Cardinality(older)

\* The limit on the model is checked before the reservation. It is exceeded
\* only by requests that were between the two at the same time, each without
\* the other in what it counted.
ModelLimitExceededOnlyByRace ==
    LET spent == {row \in Of("usage", windowStart) :
                     row.model = "slug" /\ Standing(row.ref)}
        older == {row \in Of("refund", 0) :
                     row.ref \notin Refs(Of("usage", windowStart))}
    IN  Cardinality(spent) > ModelLimit + Cardinality(older) =>
            \E r, s \in Refs(spent) :
                r # s /\ r \notin req[s].seen /\ s \notin req[r].seen

\* Without faults, a request of Infinite Code that ended costs a credit exactly
\* when its answer was not an error: a stream that broke off is given back, a
\* relayed answer that broke off is not. An API key never costs one.
OutcomeIsCharged ==
    faults = 0 =>
        \A r \in Requests : req[r].pc \in Ended =>
            (Standing(r) <=> req[r].metered /\ req[r].pc \in {"answered", "cut"})

\* The balance of the latest row is the sum of all rows: the lock sees to
\* that among reservations and refunds, as long as they commit in the order
\* of their timestamps and no commit falls into a payment.
Sum == Net(Committed)
Recharged == Amount * Cardinality(Of("recharge", 0))
CommittedInOrder ==
    \A i, j \in 1..Len(ledger) : i < j => ledger[i].created < ledger[j].created

BalanceIsSum ==
    CommittedInOrder /\ ~raced => CurrentBalance = Recharged - Sum

=============================================================================
