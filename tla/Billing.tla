------------------------------- MODULE Billing -------------------------------
(***************************************************************************)
(* What a user has paid for: payment orders and the gateway's callbacks    *)
(* that fulfil them, redeem codes, subscriptions, and the worker that lets *)
(* them expire.  Fulfilling an order and claiming a code are READ          *)
(* COMMITTED transactions: one locks the order, the other the code with    *)
(* its plan, neither the user, so two of them meet only in the rows of     *)
(* subscriptions they both update.  created_at is when a transaction       *)
(* began.  One plan is sold; callbacks arrive in any order, any number of  *)
(* times.                                                                  *)
(***************************************************************************)
EXTENDS Naturals, FiniteSets

CONSTANTS
    Orders,        \* orders of the user
    Handlers,      \* callbacks handled at the same time
    User, Others,  \* who claims the redeem code
    MaxUses,       \* of the code
    Never,         \* ends_at IS NULL
    Period,        \* what one payment, or one claim, is worth
    MaxDeliveries, \* bound: callbacks
    MaxFaults,     \* bound: transactions that fail
    MaxNow         \* bound: time

Claimers == {User} \cup Others
Transactions == Handlers \cup Claimers

Free == "free"   \* no transaction holds the lock

ASSUME BillingAssumption ==
    /\ {MaxUses, MaxDeliveries, MaxFaults, MaxNow} \subseteq Nat
    /\ Period \in Nat \ {0} /\ Never \notin Nat
    /\ User \notin Others
    /\ Handlers \cap Claimers = {}
    /\ Free \notin Transactions
    /\ {"signup", "redeem"} \cap Orders = {}

Kinds == {"plan", "recharge"}

NoOrder == "no order"
VARIABLES
    now,        \* the calendar
    clock,      \* the moment the latest transaction began, its created_at
    orders,     \* payment_orders: kind and status, succeeded or not (open)
    orderLock,  \* the transaction that holds each order
    subs,       \* subscriptions of the user
    codeLock,   \* the claim that holds the code and its plan
    codeActive, \* whether the code can still be claimed
    remaining,  \* remaining_uses of the code
    claimed,    \* redeem_claims
    tx,         \* each handler and each claimer: where it is, what it read
    recharges,  \* recharges booked in the ledger for each order
    deliveries, faults,
    regressed,  \* history: times each order left "succeeded"
    raced       \* history: a change of subscriptions fell into a transaction

orderVars == <<orders, orderLock, regressed>>
redeemVars == <<codeLock, codeActive, remaining, claimed>>
bounds == <<deliveries, faults>>
vars == <<now, clock, orderVars, subs, recharges, redeemVars, tx, bounds, raced>>

Signup == [created |-> 0, ends |-> Never, status |-> "active", source |-> "signup"]

Idle == [pc |-> "idle", order |-> NoOrder, ts |-> 0,
         ends |-> Never, matched |-> {}, expiring |-> {}]

Init ==
    /\ now = 0 /\ clock = 0
    /\ orders = [o \in Orders |-> [kind |-> "plan", status |-> "none"]]
    /\ orderLock = [o \in Orders |-> Free]
    /\ subs = {Signup}
    /\ codeLock = Free /\ codeActive = TRUE
    /\ remaining = MaxUses
    /\ claimed = {}
    /\ tx = [t \in Transactions |-> Idle]
    /\ deliveries = 0 /\ faults = 0
    /\ recharges = [o \in Orders |-> 0]
    /\ regressed = [o \in Orders |-> 0]
    /\ raced = FALSE

At(t, label) == tx[t].pc = label
\* A transaction that has begun and not ended.
Running(t) == tx[t].pc \notin {"idle", "done"}

\* Rows another transaction has updated and not committed.
LockedRows(t) == UNION {tx[u].expiring : u \in Transactions \ {t}}

-----------------------------------------------------------------------------
(* Orders and callbacks that do not fulfil.                                *)

\* The order's number is answered after both statements of the handler.
CreateOrder(o) ==
    /\ orders[o].status = "none"
    /\ \E kind \in Kinds : orders' = [orders EXCEPT ![o] = [kind |-> kind, status |-> "open"]]
    /\ UNCHANGED <<now, clock, orderLock, regressed, subs, recharges, redeemVars,
                   tx, bounds, raced>>

\* A callback that says anything else: UpdatePaymentOrderStatus puts its
\* status over any other, "succeeded" included.
UpdateOrder(o) ==
    /\ deliveries < MaxDeliveries
    /\ deliveries' = deliveries + 1
    /\ orders[o].status # "none"
    /\ orderLock[o] = Free
    /\ orders' = [orders EXCEPT ![o].status = "open"]
    /\ regressed' = IF orders[o].status = "succeeded"
                    THEN [regressed EXCEPT ![o] = @ + 1] ELSE regressed
    /\ UNCHANGED <<now, clock, orderLock, subs, recharges, redeemVars, tx, faults, raced>>

-----------------------------------------------------------------------------
(* ApplySuccessfulPayment.                                                 *)

\* A callback that says the order succeeded: BEGIN.
Receive(h) ==
    /\ At(h, "idle")
    /\ deliveries < MaxDeliveries
    /\ deliveries' = deliveries + 1
    /\ clock' = clock + 1
    /\ \E o \in Orders :
           /\ orders[o].status # "none"
           /\ tx' = [tx EXCEPT ![h].pc = "begin", ![h].order = o, ![h].ts = clock + 1]
    /\ UNCHANGED <<now, orderVars, subs, recharges, redeemVars, faults, raced>>

\* Mutant of AlreadyFulfilled: nothing stops a second fulfilment.
NeverFulfilled(o) == FALSE

AlreadyFulfilled(o) == orders[o].status = "succeeded"

\* SELECT ... FOR UPDATE of the order; the transaction began before it.
\* An order that has succeeded is not fulfilled again.
LockOrder(h) ==
    LET o == tx[h].order IN
    /\ At(h, "begin")
    /\ orderLock[o] = Free
    /\ tx' = [tx EXCEPT ![h] = IF AlreadyFulfilled(o) THEN Idle
                               ELSE [@ EXCEPT !.pc = orders[o].kind]]
    /\ orderLock' = IF AlreadyFulfilled(o) THEN orderLock ELSE [orderLock EXCEPT ![o] = h]
    /\ UNCHANGED <<now, clock, orders, regressed, subs, recharges, redeemVars, bounds, raced>>

Active == {s \in subs : s.status = "active"}
Latest(rows) == CHOOSE s \in rows : \A other \in rows : other.created <= s.created

\* Mutant of Base: a payment counts from the day it is made.
BaseNow == now

\* The time left on the latest active subscription is kept; one without an
\* end counts as having none left.
Base ==
    IF Active = {} \/ Latest(Active).ends = Never \/ Latest(Active).ends < now
    THEN now ELSE Latest(Active).ends

ReadSubscription(h) ==
    /\ At(h, "plan")
    /\ tx' = [tx EXCEPT ![h].pc = "match", ![h].ends = Base + Period]
    /\ UNCHANGED <<now, clock, orderVars, subs, recharges, redeemVars, bounds, raced>>

\* UPDATE ... WHERE status = 'active': the rows are those the statement finds
\* when it starts; it waits for the ones others have updated, and then only
\* takes those that still match.
MatchActive(t) ==
    /\ At(t, "match")
    /\ tx' = [tx EXCEPT ![t].pc = "expire", ![t].matched = {s.created : s \in Active}]
    /\ UNCHANGED <<now, clock, orderVars, subs, recharges, redeemVars, bounds, raced>>

ExpireActive(t) ==
    /\ At(t, "expire")
    /\ tx[t].matched \cap LockedRows(t) = {}
    /\ tx' = [tx EXCEPT ![t].pc = "insert", ![t].matched = {},
                        ![t].expiring = {s.created : s \in Active} \cap tx[t].matched]
    /\ UNCHANGED <<now, clock, orderVars, subs, recharges, redeemVars, bounds, raced>>

\* Mutant of Replace: the old subscription stays active.
AddOnly(rows, t, source) ==
    rows \cup {[created |-> tx[t].ts, ends |-> tx[t].ends, status |-> "active", source |-> source]}

\* What the transaction leaves: its rows expired, a new one active.
Replace(rows, t, source) ==
    {IF s.created \in tx[t].expiring THEN [s EXCEPT !.status = "expired"] ELSE s : s \in rows}
    \cup {[created |-> tx[t].ts, ends |-> tx[t].ends, status |-> "active", source |-> source]}

Raced(t) == raced \/ \E u \in Transactions \ {t} : Running(u)

\* Succeeded and its fulfilment become visible together. The foreign key of
\* the new row waits for a claim that holds the plan.
FinishOrder(h) ==
    LET o == tx[h].order IN
    /\ orders' = [orders EXCEPT ![o].status = "succeeded"]
    /\ orderLock' = [orderLock EXCEPT ![o] = Free]
    /\ tx' = [tx EXCEPT ![h] = Idle]

CommitPlan(h) ==
    /\ At(h, "insert") /\ h \in Handlers
    /\ codeLock = Free
    /\ subs' = Replace(subs, h, tx[h].order)
    /\ raced' = Raced(h)
    /\ FinishOrder(h)
    /\ UNCHANGED <<now, clock, regressed, recharges, redeemVars, bounds>>

CommitRecharge(h) ==
    /\ At(h, "recharge")
    /\ recharges' = [recharges EXCEPT ![tx[h].order] = @ + 1]
    /\ FinishOrder(h)
    /\ UNCHANGED <<now, clock, regressed, subs, redeemVars, bounds, raced>>

-----------------------------------------------------------------------------
(* ClaimRedeemCode.                                                        *)

BeginClaim(c) ==
    /\ At(c, "idle")
    /\ clock' = clock + 1
    /\ tx' = [tx EXCEPT ![c].pc = "claim", ![c].ts = clock + 1]
    /\ UNCHANGED <<now, orderVars, subs, recharges, redeemVars, bounds, raced>>

\* Mutant of CodeFree: the row of the code is read without FOR UPDATE.
CodeShared == TRUE

CodeFree == codeLock = Free

\* The code, its campaign and its plan are locked by one SELECT. A claim made
\* already is answered again, one the code does not allow is refused.
LockCode(c) ==
    /\ At(c, "claim")
    /\ CodeFree
    /\ LET granted == c \notin claimed /\ codeActive /\ remaining > 0 IN
          /\ codeLock' = IF granted THEN c ELSE codeLock
          /\ tx' = [tx EXCEPT ![c] =
                 IF ~granted THEN [Idle EXCEPT !.pc = "done"]
                 ELSE [@ EXCEPT !.pc = IF c = User THEN "match" ELSE "insert",
                                !.ends = now + Period]]
    /\ UNCHANGED <<now, clock, orderVars, subs, recharges, codeActive, remaining,
                   claimed, bounds, raced>>

\* The claim replaces what the user had, whatever was left of it.
CommitClaim(c) ==
    /\ At(c, "insert") /\ c \in Claimers
    /\ claimed' = claimed \cup {c}
    /\ remaining' = IF remaining > 0 THEN remaining - 1 ELSE remaining
    /\ codeLock' = Free
    /\ subs' = IF c = User THEN Replace(subs, c, "redeem") ELSE subs
    /\ raced' = IF c = User THEN Raced(c) ELSE raced
    /\ tx' = [tx EXCEPT ![c] = [Idle EXCEPT !.pc = "done"]]
    /\ UNCHANGED <<now, clock, orderVars, recharges, codeActive, bounds>>

-----------------------------------------------------------------------------
(* Failures.                                                               *)

\* A transaction that does not commit leaves nothing behind. The gateway may
\* send its callback again; the user is told of an error.
Rollback(t) ==
    /\ tx' = [tx EXCEPT ![t] = IF t \in Handlers THEN Idle ELSE [Idle EXCEPT !.pc = "done"]]
    /\ orderLock' = [o \in Orders |-> IF orderLock[o] = t THEN Free ELSE orderLock[o]]
    /\ codeLock' = IF codeLock = t THEN Free ELSE codeLock
    /\ UNCHANGED <<now, clock, orders, regressed, subs, recharges, codeActive,
                   remaining, claimed, deliveries, raced>>

\* A statement fails, or the process is lost.
Fail(t) ==
    /\ Running(t)
    /\ faults < MaxFaults
    /\ faults' = faults + 1
    /\ Rollback(t)

\* The payment has updated the subscription and waits for the plan; the claim
\* has the plan and waits for the subscription. PostgreSQL aborts one.
Deadlocked(h, c) ==
    /\ At(h, "insert") /\ codeLock = c
    /\ At(c, "expire") /\ tx[c].matched \cap tx[h].expiring # {}

BreakDeadlock ==
    \E h \in Handlers, c \in Claimers :
        /\ Deadlocked(h, c)
        /\ \E victim \in {h, c} : Rollback(victim)
        /\ UNCHANGED faults

-----------------------------------------------------------------------------
(* The worker, and time.                                                   *)

Due == {s \in Active : s.ends # Never /\ s.ends < now}

ExpireDue ==
    /\ Due # {}
    /\ {s.created : s \in Due} \cap UNION {tx[t].expiring : t \in Transactions} = {}
    /\ subs' = (subs \ Due) \cup {[s EXCEPT !.status = "expired"] : s \in Due}
    /\ raced' = (raced \/ \E t \in Transactions : Running(t))
    /\ UNCHANGED <<now, clock, orderVars, recharges, redeemVars, tx, bounds>>

\* The date of the code has passed.
ExpireCode ==
    /\ codeActive /\ now > 0
    /\ codeLock = Free
    /\ codeActive' = FALSE
    /\ UNCHANGED <<now, clock, orderVars, subs, recharges, codeLock, remaining,
                   claimed, tx, bounds, raced>>

Tick ==
    /\ now < MaxNow
    /\ now' = now + 1
    /\ UNCHANGED <<clock, orderVars, subs, recharges, redeemVars, tx, bounds, raced>>

HandlerStep(h) ==
    \/ Receive(h) \/ LockOrder(h) \/ ReadSubscription(h) \/ MatchActive(h) \/ ExpireActive(h)
    \/ CommitPlan(h) \/ CommitRecharge(h)

ClaimStep(c) ==
    \/ BeginClaim(c) \/ LockCode(c) \/ MatchActive(c) \/ ExpireActive(c)
    \/ CommitClaim(c)

Quiescent ==
    /\ \A h \in Handlers : At(h, "idle")
    /\ \A c \in Claimers : At(c, "done")
    /\ UNCHANGED vars

Next ==
    \/ \E o \in Orders : CreateOrder(o) \/ UpdateOrder(o)
    \/ \E h \in Handlers : HandlerStep(h)
    \/ \E c \in Claimers : ClaimStep(c)
    \/ \E t \in Transactions : Fail(t)
    \/ BreakDeadlock
    \/ ExpireDue \/ ExpireCode \/ Tick
    \/ Quiescent

Spec == Init /\ [][Next]_vars

-----------------------------------------------------------------------------
(* Properties.                                                             *)

\* How often an order has been delivered: the subscriptions and the ledger
\* rows that refer to it.
Fulfilments(o) == Cardinality({s \in subs : s.source = o}) + recharges[o]

\* Callbacks repeated or handled side by side deliver an order once; a later
\* one only does when a callback that says something else took the order out
\* of "succeeded" before. And no order is succeeded without what was bought.
FulfilledOnce ==
    \A o \in Orders :
        /\ Fulfilments(o) <= 1 + regressed[o]
        /\ orders[o].status = "succeeded" => Fulfilments(o) >= 1

\* The code is claimed by no more users than it has uses.
RedeemNotOversold == Cardinality(claimed) + remaining = MaxUses

\* Unless a change of subscriptions fell into another transaction, only the
\* latest subscription, the one every reader takes, is active.
OnlyLatestActive == ~raced => \A s \in Active : s = Latest(subs)

\* Unless so, a payment adds a full period to the time that was left.
PaidTimeKept ==
    [][~raced' =>
        \A s \in subs' :
            s.source \in Orders /\ s.created \notin {old.created : old \in subs} =>
                \A old \in Active : old.ends # Never => s.ends >= old.ends + Period]_vars

=============================================================================
