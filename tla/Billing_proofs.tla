---------------------------- MODULE Billing_proofs ----------------------------
(***************************************************************************)
(* FulfilledOnce, RedeemNotOversold, OnlyLatestActive and PaidTimeKept for *)
(* any orders, callbacks and claimers, any number of faults, and callbacks *)
(* in any order.  The inductive invariant says whose a lock is (OrderInv,  *)
(* CodeInv), that created_at tells rows apart (StampInv) so that they can  *)
(* be counted by it, how often an order has been delivered (DeliveredInv), *)
(* and, as long as nothing raced, that what running transactions have read *)
(* of the subscriptions still holds (UndisturbedInv).                      *)
(***************************************************************************)
EXTENDS Billing, FiniteSetTheorems, WellFoundedInduction, TLAPS

HandlerLabels == {"idle", "begin", "plan", "recharge", "match", "expire", "insert"}
ClaimLabels == {"idle", "claim", "match", "expire", "insert", "done"}

\* Where a callback holds its order, and a claim the code.
HoldsOrder == {"plan", "recharge", "match", "expire", "insert"}
HoldsCode == {"match", "expire", "insert"}

Sources == Orders \cup {"signup", "redeem"}
Rows == [created : Nat, ends : Nat \cup {Never}, status : {"active", "expired"}, source : Sources]
OrderRows == [kind : Kinds, status : {"none", "open", "succeeded"}]
States == [pc : HandlerLabels \cup ClaimLabels, order : Orders \cup {NoOrder}, ts : Nat,
           ends : Nat \cup {Never}, matched : SUBSET Nat, expiring : SUBSET Nat]

\* Every variable has its type; a callback runs the program of callbacks, a
\* claim that of claims.
TypeOK ==
    /\ now \in Nat /\ clock \in Nat
    /\ orders \in [Orders -> OrderRows]
    /\ orderLock \in [Orders -> Handlers \cup {Free}]
    /\ subs \in SUBSET Rows /\ IsFiniteSet(subs)
    /\ codeLock \in Claimers \cup {Free} /\ codeActive \in BOOLEAN
    /\ remaining \in Nat
    /\ claimed \in SUBSET Claimers /\ IsFiniteSet(claimed)
    /\ tx \in [Transactions -> States]
    /\ \A h \in Handlers : tx[h].pc \in HandlerLabels
    /\ \A c \in Claimers : tx[c].pc \in ClaimLabels
    /\ recharges \in [Orders -> Nat] /\ regressed \in [Orders -> Nat]
    /\ deliveries \in Nat /\ faults \in Nat
    /\ raced \in BOOLEAN

\* The lock of an order is its callback's until the transaction ends, and an
\* order that is locked was read as one that is not fulfilled.
OrderInv ==
    /\ \A o \in Orders : orderLock[o] # Free =>
           /\ tx[orderLock[o]].pc \in HoldsOrder
           /\ tx[orderLock[o]].order = o
    /\ \A h \in Handlers : tx[h].pc \in HoldsOrder =>
           /\ tx[h].order \in Orders
           /\ orderLock[tx[h].order] = h
           /\ orders[tx[h].order].status = "open"
    /\ \A h \in Handlers : tx[h].pc = "begin" =>
           /\ tx[h].order \in Orders
           /\ orders[tx[h].order].status # "none"

\* The lock of the code is its claimer's, who has not claimed it yet, and
\* whose use is still there.
CodeInv ==
    /\ codeLock # Free =>
           /\ tx[codeLock].pc \in HoldsCode
           /\ codeLock \notin claimed
           /\ remaining > 0
    /\ \A c \in Claimers : tx[c].pc \in HoldsCode => codeLock = c

\* created_at tells subscriptions apart, those that are there and those that
\* running transactions may still insert.
StampInv ==
    /\ \A s \in subs : s.created <= clock
    /\ \A s, other \in subs : s.created = other.created => s = other
    /\ \A t \in Transactions : Running(t) =>
           /\ tx[t].ts <= clock
           /\ \A s \in subs : s.created # tx[t].ts
           /\ \A u \in Transactions \ {t} : Running(u) => tx[u].ts # tx[t].ts

\* An order that is not succeeded has been delivered as often as it left that
\* status, one that is has been once more.
DeliveredInv ==
    \A o \in Orders :
        Fulfilments(o) = regressed[o] + (IF orders[o].status = "succeeded" THEN 1 ELSE 0)

\* As long as no change of subscriptions fell into another transaction, what a
\* running one has read of them still holds: they are all older than it, it
\* expires every active one, and a payment keeps the time that is left.
Replacers == Handlers \cup {User}
StillHolds(t) ==
    /\ Running(t) => \A s \in subs : s.created < tx[t].ts
    /\ t \in Replacers /\ At(t, "expire") => \A s \in Active : s.created \in tx[t].matched
    /\ t \in Replacers /\ At(t, "insert") => \A s \in Active : s.created \in tx[t].expiring
    /\ t \in Handlers /\ tx[t].pc \in HoldsCode =>
           /\ tx[t].ends \in Nat
           /\ \A s \in Active : s.ends # Never => tx[t].ends >= s.ends + Period

UndisturbedInv ==
    ~raced =>
        /\ \A s \in Active, other \in subs : other.created <= s.created
        /\ \A t \in Transactions : StillHolds(t)

IInv ==
    /\ TypeOK /\ OrderInv /\ CodeInv /\ StampInv /\ DeliveredInv /\ RedeemNotOversold
    /\ UndisturbedInv

-----------------------------------------------------------------------------
\* What the assumptions on the constants say, in the form the proofs use.
LEMMA Constants ==
    /\ MaxUses \in Nat /\ MaxDeliveries \in Nat /\ MaxFaults \in Nat /\ MaxNow \in Nat
    /\ Period \in Nat /\ Never \notin Nat
    /\ User \in Claimers /\ Claimers \subseteq Transactions /\ Handlers \subseteq Transactions
    /\ Handlers \cap Claimers = {} /\ Free \notin Transactions
    /\ "signup" \notin Orders /\ "redeem" \notin Orders
BY BillingAssumption DEF Claimers, Transactions

\* The steps of Next, with both kinds of failure as one rollback.
LEMMA StepCases ==
    ASSUME Next
    PROVE  \/ \E o \in Orders : CreateOrder(o)
           \/ \E o \in Orders : UpdateOrder(o)
           \/ \E h \in Handlers : Receive(h)
           \/ \E h \in Handlers : LockOrder(h)
           \/ \E h \in Handlers : ReadSubscription(h)
           \/ \E t \in Transactions : MatchActive(t)
           \/ \E t \in Transactions : ExpireActive(t)
           \/ \E h \in Handlers : CommitPlan(h)
           \/ \E h \in Handlers : CommitRecharge(h)
           \/ \E c \in Claimers : BeginClaim(c)
           \/ \E c \in Claimers : LockCode(c)
           \/ \E c \in Claimers : CommitClaim(c)
           \/ \E t \in Transactions : Rollback(t) /\ faults' \in {faults, faults + 1}
           \/ ExpireDue
           \/ ExpireCode
           \/ Tick
           \/ UNCHANGED vars
<1>1. CASE \E h \in Handlers : HandlerStep(h)
  BY <1>1, Constants DEF HandlerStep
<1>2. CASE \E c \in Claimers : ClaimStep(c)
  BY <1>2, Constants DEF ClaimStep
<1>3. CASE \E t \in Transactions : Fail(t)
  BY <1>3 DEF Fail
<1>4. CASE BreakDeadlock
  BY <1>4, Constants DEF BreakDeadlock
<1> QED
  BY <1>1, <1>2, <1>3, <1>4 DEF Next, Quiescent

\* What a transaction leaves of the subscriptions is a finite set of rows.
LEMMA RowSets ==
    ASSUME subs \in SUBSET Rows, IsFiniteSet(subs), tx \in [Transactions -> States],
           NEW t \in Transactions, NEW source \in Sources
    PROVE  /\ Replace(subs, t, source) \in SUBSET Rows
           /\ IsFiniteSet(Replace(subs, t, source))
<1> DEFINE F == [s \in subs |-> IF s.created \in tx[t].expiring
                               THEN [s EXCEPT !.status = "expired"] ELSE s]
           Kept == {F[s] : s \in subs}
           new == [created |-> tx[t].ts, ends |-> tx[t].ends, status |-> "active", source |-> source]
<1>1. new \in Rows
  BY DEF States, Rows
<1>2. \A s \in subs : F[s] \in Rows
  BY DEF Rows
<1>3. Kept \in SUBSET Rows
  BY <1>2
<1>4. IsFiniteSet(Kept)
  <2>1. F \in Surjection(subs, Kept)
    BY DEF Surjection
  <2> QED  BY <2>1, FS_Surjection
<1>5. Replace(subs, t, source) = Kept \cup {new}
  BY DEF Replace
<1>6. IsFiniteSet(Kept \cup {new})
  BY <1>4, FS_AddElement
<1> QED
  BY <1>1, <1>3, <1>5, <1>6

\* So is what the worker leaves.
LEMMA DueSets ==
    ASSUME subs \in SUBSET Rows, IsFiniteSet(subs), ExpireDue
    PROVE  subs' \in SUBSET Rows /\ IsFiniteSet(subs')
<1> DEFINE F == [s \in Due |-> [s EXCEPT !.status = "expired"]]
           Over == {F[s] : s \in Due}
<1>1. Due \subseteq subs
  BY DEF Due, Active
<1>2. IsFiniteSet(Due) /\ IsFiniteSet(subs \ Due)
  BY <1>1, FS_Subset
<1>3. F \in Surjection(Due, Over)
  BY DEF Surjection
<1>4. IsFiniteSet(Over)
  BY <1>2, <1>3, FS_Surjection
<1>5. Over \in SUBSET Rows
  BY <1>1 DEF Rows
<1>6. subs' = (subs \ Due) \cup Over
  BY DEF ExpireDue
<1>7. IsFiniteSet((subs \ Due) \cup Over)
  BY <1>2, <1>4, FS_Union
<1> QED
  BY <1>5, <1>6, <1>7

\* A set of natural numbers has a least element.
LEMMA Smallest ==
    ASSUME NEW S \in SUBSET Nat, S # {}
    PROVE  \E m \in S : \A n \in S : m <= n
<1> DEFINE R == OpToRel(<, Nat)
<1>1. IsWellFoundedOn(R, Nat)
  BY NatLessThanWellFounded
<1>2. R = {p \in Nat \X Nat : p[1] < p[2]}
  BY DEF OpToRel
<1> HIDE DEF R
<1>3. PICK x \in S : \A y \in S : <<y, x>> \notin R
  BY <1>1, WFMin
<1>4. ASSUME NEW n \in S, n < x PROVE FALSE
  <2>1. <<n, x>> \in Nat \X Nat /\ <<n, x>>[1] < <<n, x>>[2]
    BY <1>4
  <2> QED BY <1>2, <1>3, <2>1
<1> QED
  BY <1>3, <1>4

\* Of rows created up to some moment there is a latest: it is the least old.
LEMMA LatestExists ==
    ASSUME NEW rows \in SUBSET Rows, NEW bound \in Nat, \A s \in rows : s.created <= bound,
           rows # {}
    PROVE  Latest(rows) \in rows /\ \A other \in rows : other.created <= Latest(rows).created
<1> DEFINE Ages == {bound - s.created : s \in rows}
<1>1. \A s \in rows : s.created \in Nat
  BY DEF Rows
<1>2. Ages \in SUBSET Nat /\ Ages # {}
  BY <1>1
<1>3. PICK m \in Ages : \A n \in Ages : m <= n
  <2> HIDE DEF Ages
  <2> QED BY <1>2, Smallest
<1>4. PICK s \in rows : m = bound - s.created
  BY <1>3
<1>5. ASSUME NEW other \in rows PROVE other.created <= s.created
  <2>1. m <= bound - other.created
    BY <1>3
  <2> QED BY <1>1, <1>4, <2>1
<1> QED
  BY <1>5 DEF Latest

\* A payment always counts from a date.
LEMMA BaseTyped ==
    ASSUME subs \in SUBSET Rows, now \in Nat, clock \in Nat, StampInv
    PROVE  Base \in Nat
<1>1. CASE Active = {}
  BY <1>1 DEF Base
<1>2. CASE Active # {}
  <2>1. Active \in SUBSET Rows /\ \A s \in Active : s.created <= clock
    BY DEF Active, StampInv
  <2>2. Latest(Active) \in Rows
    BY <1>2, <2>1, LatestExists
  <2>3. Latest(Active).ends \in Nat \cup {Never}
    BY <2>2 DEF Rows
  <2> QED BY <2>3 DEF Base
<1> QED BY <1>1, <1>2

\* A new record for one transaction leaves those of the others.
LEMMA StateMoves ==
    ASSUME tx \in [Transactions -> States], NEW t \in Transactions, NEW state \in States,
           tx' = [tx EXCEPT ![t] = state]
    PROVE  /\ tx' \in [Transactions -> States]
           /\ tx'[t] = state
           /\ \A u \in Transactions \ {t} : tx'[u] = tx[u]
OBVIOUS

\* The records a transaction ends with.
LEMMA IdleTyped ==
    /\ Idle \in States /\ [Idle EXCEPT !.pc = "done"] \in States
    /\ Idle.pc = "idle" /\ [Idle EXCEPT !.pc = "done"].pc = "done"
BY DEF Idle, States, HandlerLabels, ClaimLabels

\* What each step of a transaction does to its own record.
Moves(t) ==
    /\ tx' \in [Transactions -> States]
    /\ \A u \in Transactions \ {t} : tx'[u] = tx[u]

\* BEGIN of a callback.
LEMMA ReceiveMoves ==
    ASSUME TypeOK, NEW h \in Handlers, Receive(h)
    PROVE  /\ Moves(h) /\ tx[h].pc = "idle" /\ tx'[h].pc = "begin"
           /\ tx'[h].order \in Orders /\ orders[tx'[h].order].status # "none"
           /\ tx'[h].ts = clock + 1
<1>1. PICK o \in Orders : /\ orders[o].status # "none"
                         /\ tx' = [tx EXCEPT ![h] = [tx[h] EXCEPT !.pc = "begin", !.order = o, !.ts = clock + 1]]
  BY Constants DEF Receive, TypeOK
<1> DEFINE state == [tx[h] EXCEPT !.pc = "begin", !.order = o, !.ts = clock + 1]
<1>2. h \in Transactions /\ tx[h] \in States /\ clock + 1 \in Nat
  BY Constants DEF TypeOK
<1>3. state \in States /\ state.pc = "begin" /\ state.order = o /\ state.ts = clock + 1
  BY <1>2 DEF States, HandlerLabels
<1> HIDE DEF state
<1>4. Moves(h) /\ tx'[h] = state
  BY <1>1, <1>2, <1>3, StateMoves DEF Moves, TypeOK, state
<1> QED BY <1>1, <1>3, <1>4 DEF Receive, At

\* SELECT ... FOR UPDATE of the order: the end of the transaction if the order
\* has succeeded, its lock otherwise.
LEMMA LockOrderMoves ==
    ASSUME TypeOK, OrderInv, NEW h \in Handlers, LockOrder(h)
    PROVE  /\ Moves(h) /\ tx[h].pc = "begin"
           /\ tx[h].order \in Orders /\ orderLock[tx[h].order] = Free
           /\ \/ AlreadyFulfilled(tx[h].order) /\ tx'[h].pc = "idle" /\ orderLock' = orderLock
              \/ /\ orders[tx[h].order].status = "open"
                 /\ orderLock' = [orderLock EXCEPT ![tx[h].order] = h]
                 /\ tx'[h].pc \in Kinds /\ tx'[h].order = tx[h].order /\ tx'[h].ts = tx[h].ts
<1> DEFINE o == tx[h].order
           state == [tx[h] EXCEPT !.pc = orders[o].kind]
<1>1. h \in Transactions /\ tx[h] \in States /\ tx[h].pc = "begin"
  BY Constants DEF TypeOK, LockOrder, At
<1>2. o \in Orders /\ orders[o].status # "none" /\ orders[o] \in OrderRows
  BY <1>1 DEF OrderInv, TypeOK
<1>3. state \in States /\ state.pc \in Kinds /\ state.order = o /\ state.ts = tx[h].ts
  BY <1>1, <1>2 DEF States, HandlerLabels, OrderRows, Kinds
<1>4. CASE AlreadyFulfilled(o)
  <2>1. tx' = [tx EXCEPT ![h] = Idle] /\ orderLock' = orderLock
    BY <1>4 DEF LockOrder
  <2>2. Moves(h) /\ tx'[h] = Idle
    BY <2>1, <1>1, IdleTyped, StateMoves DEF Moves, TypeOK
  <2> QED BY <1>1, <1>2, <1>4, <2>1, <2>2, IdleTyped DEF LockOrder
<1>5. CASE ~ AlreadyFulfilled(o)
  <2>1. tx' = [tx EXCEPT ![h] = state] /\ orderLock' = [orderLock EXCEPT ![o] = h]
    BY <1>5, <1>1 DEF LockOrder, TypeOK
  <2>2. Moves(h) /\ tx'[h] = state
    <3> HIDE DEF state, o
    <3> QED BY <2>1, <1>1, <1>3, StateMoves DEF Moves, TypeOK
  <2>3. orders[o].status = "open"
    BY <1>2, <1>5 DEF AlreadyFulfilled, OrderRows
  <2> QED BY <1>1, <1>2, <1>3, <2>1, <2>2, <2>3 DEF LockOrder
<1> QED BY <1>4, <1>5

\* The end of the new subscription, from what is left.
LEMMA ReadMoves ==
    ASSUME TypeOK, StampInv, NEW h \in Handlers, ReadSubscription(h)
    PROVE  /\ Moves(h) /\ tx[h].pc = "plan" /\ tx'[h].pc = "match"
           /\ tx'[h].order = tx[h].order /\ tx'[h].ts = tx[h].ts /\ tx'[h].ends = Base + Period
<1> DEFINE state == [tx[h] EXCEPT !.pc = "match", !.ends = Base + Period]
<1>1. h \in Transactions /\ tx[h] \in States /\ tx[h].pc = "plan"
  BY Constants DEF TypeOK, ReadSubscription, At
<1>2. Base \in Nat /\ Base + Period \in Nat
  BY BaseTyped, Constants DEF TypeOK
<1>3. state \in States /\ state.pc = "match" /\ state.order = tx[h].order /\ state.ts = tx[h].ts
      /\ state.ends = Base + Period
  <2> HIDE DEF Base
  <2> QED BY <1>1, <1>2 DEF States, HandlerLabels
<1>4. tx' = [tx EXCEPT ![h] = state]
  BY <1>1 DEF ReadSubscription, TypeOK
<1>5. Moves(h) /\ tx'[h] = state
  <2> HIDE DEF state
  <2> QED BY <1>4, <1>1, <1>3, StateMoves DEF Moves, TypeOK
<1> QED BY <1>1, <1>3, <1>5

\* Moments are numbers.
LEMMA CreatedTyped ==
    ASSUME subs \in SUBSET Rows
    PROVE  {s.created : s \in Active} \in SUBSET Nat
BY DEF Active, Rows

\* The rows the UPDATE finds.
LEMMA MatchMoves ==
    ASSUME TypeOK, NEW t \in Transactions, MatchActive(t)
    PROVE  /\ Moves(t) /\ tx[t].pc = "match" /\ tx'[t].pc = "expire"
           /\ tx'[t].order = tx[t].order /\ tx'[t].ts = tx[t].ts /\ tx'[t].ends = tx[t].ends
           /\ tx'[t].matched = {s.created : s \in Active}
<1> DEFINE found == {s.created : s \in Active}
           state == [tx[t] EXCEPT !.pc = "expire", !.matched = found]
<1>1. tx[t] \in States /\ tx[t].pc = "match" /\ found \in SUBSET Nat
  BY CreatedTyped DEF TypeOK, MatchActive, At
<1>4. tx' = [tx EXCEPT ![t] = state]
  BY <1>1 DEF MatchActive, TypeOK
<1> HIDE DEF found
<1>3. state \in States /\ state.pc = "expire" /\ state.order = tx[t].order /\ state.ts = tx[t].ts
      /\ state.ends = tx[t].ends /\ state.matched = found
  BY <1>1 DEF States, HandlerLabels
<1>5. Moves(t) /\ tx'[t] = state
  <2> HIDE DEF state
  <2> QED BY <1>4, <1>1, <1>3, StateMoves DEF Moves, TypeOK
<1> QED BY <1>1, <1>3, <1>5 DEF found

\* The rows it takes.
LEMMA ExpireMoves ==
    ASSUME TypeOK, NEW t \in Transactions, ExpireActive(t)
    PROVE  /\ Moves(t) /\ tx[t].pc = "expire" /\ tx'[t].pc = "insert"
           /\ tx'[t].order = tx[t].order /\ tx'[t].ts = tx[t].ts /\ tx'[t].ends = tx[t].ends
           /\ tx'[t].expiring = {s.created : s \in Active} \cap tx[t].matched
<1> DEFINE found == {s.created : s \in Active} \cap tx[t].matched
           state == [tx[t] EXCEPT !.pc = "insert", !.matched = {}, !.expiring = found]
<1>1. tx[t] \in States /\ tx[t].pc = "expire" /\ found \in SUBSET Nat
  BY CreatedTyped DEF TypeOK, ExpireActive, At
<1>4. tx' = [tx EXCEPT ![t] = state]
  BY <1>1 DEF ExpireActive, TypeOK
<1> HIDE DEF found
<1>3. state \in States /\ state.pc = "insert" /\ state.order = tx[t].order /\ state.ts = tx[t].ts
      /\ state.ends = tx[t].ends /\ state.expiring = found
  BY <1>1 DEF States, HandlerLabels
<1>5. Moves(t) /\ tx'[t] = state
  <2> HIDE DEF state
  <2> QED BY <1>4, <1>1, <1>3, StateMoves DEF Moves, TypeOK
<1> QED BY <1>1, <1>3, <1>5 DEF found

\* COMMIT of a callback.
LEMMA FinishMoves ==
    ASSUME TypeOK, NEW h \in Handlers, FinishOrder(h)
    PROVE  Moves(h) /\ tx'[h].pc = "idle"
<1>1. Moves(h) /\ tx'[h] = Idle
  BY StateMoves, IdleTyped, Constants DEF FinishOrder, Moves, TypeOK
<1> QED BY <1>1, IdleTyped

\* BEGIN of a claim.
LEMMA BeginClaimMoves ==
    ASSUME TypeOK, NEW c \in Claimers, BeginClaim(c)
    PROVE  /\ Moves(c) /\ tx[c].pc = "idle" /\ tx'[c].pc = "claim" /\ tx'[c].ts = clock + 1
<1> DEFINE state == [tx[c] EXCEPT !.pc = "claim", !.ts = clock + 1]
<1>1. c \in Transactions /\ tx[c] \in States /\ tx[c].pc = "idle" /\ clock + 1 \in Nat
  BY Constants DEF TypeOK, BeginClaim, At
<1>3. state \in States /\ state.pc = "claim" /\ state.ts = clock + 1
  BY <1>1 DEF States, ClaimLabels
<1>4. tx' = [tx EXCEPT ![c] = state]
  BY <1>1 DEF BeginClaim, TypeOK
<1>5. Moves(c) /\ tx'[c] = state
  <2> HIDE DEF state
  <2> QED BY <1>4, <1>1, <1>3, StateMoves DEF Moves, TypeOK
<1> QED BY <1>1, <1>3, <1>5

\* SELECT ... FOR UPDATE of the code: granted only while it has uses left.
LEMMA LockCodeMoves ==
    ASSUME TypeOK, NEW c \in Claimers, LockCode(c)
    PROVE  /\ Moves(c) /\ tx[c].pc = "claim" /\ codeLock = Free
           /\ \/ tx'[c].pc = "done" /\ codeLock' = codeLock
              \/ /\ c \notin claimed /\ remaining > 0
                 /\ codeLock' = c
                 /\ tx'[c].pc = (IF c = User THEN "match" ELSE "insert")
                 /\ tx'[c].ts = tx[c].ts
<1> DEFINE granted == c \notin claimed /\ codeActive /\ remaining > 0
           state == [tx[c] EXCEPT !.pc = IF c = User THEN "match" ELSE "insert", !.ends = now + Period]
<1>1. c \in Transactions /\ tx[c] \in States /\ tx[c].pc = "claim" /\ codeLock = Free /\ now + Period \in Nat
  BY Constants DEF TypeOK, LockCode, At, CodeFree
<1>2. CASE ~granted
  <2>1. tx' = [tx EXCEPT ![c] = [Idle EXCEPT !.pc = "done"]] /\ codeLock' = codeLock
    BY <1>2 DEF LockCode
  <2>2. Moves(c) /\ tx'[c] = [Idle EXCEPT !.pc = "done"]
    BY <2>1, <1>1, IdleTyped, StateMoves DEF Moves, TypeOK
  <2> QED BY <1>1, <2>1, <2>2, IdleTyped
<1>3. CASE granted
  <2>1. tx' = [tx EXCEPT ![c] = state] /\ codeLock' = c
    BY <1>1, <1>3 DEF LockCode, TypeOK
  <2>2. state \in States /\ state.pc = (IF c = User THEN "match" ELSE "insert") /\ state.ts = tx[c].ts
    BY <1>1 DEF States, ClaimLabels
  <2>3. Moves(c) /\ tx'[c] = state
    <3> HIDE DEF state
    <3> QED BY <2>1, <1>1, <2>2, StateMoves DEF Moves, TypeOK
  <2> QED BY <1>1, <1>3, <2>1, <2>2, <2>3
<1> QED BY <1>2, <1>3

\* COMMIT of a claim.
LEMMA CommitClaimMoves ==
    ASSUME TypeOK, NEW c \in Claimers, CommitClaim(c)
    PROVE  Moves(c) /\ tx[c].pc = "insert" /\ tx'[c].pc = "done"
<1>1. Moves(c) /\ tx'[c] = [Idle EXCEPT !.pc = "done"]
  BY StateMoves, IdleTyped, Constants DEF CommitClaim, Moves, TypeOK
<1> QED BY <1>1, IdleTyped DEF CommitClaim, At

\* A transaction that does not commit starts over or gives up.
LEMMA RollbackMoves ==
    ASSUME TypeOK, NEW t \in Transactions, Rollback(t)
    PROVE  Moves(t) /\ tx'[t].pc = (IF t \in Handlers THEN "idle" ELSE "done")
<1>1. CASE t \in Handlers
  <2>1. Moves(t) /\ tx'[t] = Idle
    BY <1>1, StateMoves, IdleTyped DEF Rollback, Moves, TypeOK
  <2> QED BY <1>1, <2>1, IdleTyped
<1>2. CASE t \notin Handlers
  <2>1. Moves(t) /\ tx'[t] = [Idle EXCEPT !.pc = "done"]
    BY <1>2, StateMoves, IdleTyped DEF Rollback, Moves, TypeOK
  <2> QED BY <1>2, <2>1, IdleTyped
<1> QED BY <1>1, <1>2

-----------------------------------------------------------------------------
TxTyped ==
    /\ tx \in [Transactions -> States]
    /\ \A h \in Handlers : tx[h].pc \in HandlerLabels
    /\ \A c \in Claimers : tx[c].pc \in ClaimLabels

\* A transaction that stays in its own program keeps the types.
LEMMA TxMoves ==
    ASSUME TypeOK, NEW t \in Transactions, Moves(t),
           t \in Handlers => tx'[t].pc \in HandlerLabels,
           t \in Claimers => tx'[t].pc \in ClaimLabels
    PROVE  TxTyped'
BY Constants DEF TypeOK, TxTyped, Moves

\* Every step keeps the types of the transactions.
LEMMA TxStep ==
    ASSUME TypeOK, OrderInv, StampInv, [Next]_vars
    PROVE  TxTyped'
<1>0. TxTyped
  BY DEF TypeOK, TxTyped
<1>1. CASE \E o \in Orders : CreateOrder(o)
  BY <1>0, <1>1 DEF CreateOrder, TxTyped
<1>2. CASE \E o \in Orders : UpdateOrder(o)
  BY <1>0, <1>2 DEF UpdateOrder, TxTyped
<1>3. ASSUME NEW h \in Handlers, Receive(h) PROVE TxTyped'
  BY <1>3, TxMoves, ReceiveMoves, Constants DEF HandlerLabels
<1>4. ASSUME NEW h \in Handlers, LockOrder(h) PROVE TxTyped'
  BY <1>4, TxMoves, LockOrderMoves, Constants DEF HandlerLabels, Kinds
<1>5. ASSUME NEW h \in Handlers, ReadSubscription(h) PROVE TxTyped'
  BY <1>5, TxMoves, ReadMoves, Constants DEF HandlerLabels
<1>6. ASSUME NEW t \in Transactions, MatchActive(t) PROVE TxTyped'
  BY <1>6, TxMoves, MatchMoves DEF HandlerLabels, ClaimLabels
<1>7. ASSUME NEW t \in Transactions, ExpireActive(t) PROVE TxTyped'
  BY <1>7, TxMoves, ExpireMoves DEF HandlerLabels, ClaimLabels
<1>8. ASSUME NEW h \in Handlers, CommitPlan(h) PROVE TxTyped'
  BY <1>8, TxMoves, FinishMoves, Constants DEF HandlerLabels, CommitPlan
<1>9. ASSUME NEW h \in Handlers, CommitRecharge(h) PROVE TxTyped'
  BY <1>9, TxMoves, FinishMoves, Constants DEF HandlerLabels, CommitRecharge
<1>10. ASSUME NEW c \in Claimers, BeginClaim(c) PROVE TxTyped'
  BY <1>10, TxMoves, BeginClaimMoves, Constants DEF ClaimLabels
<1>11. ASSUME NEW c \in Claimers, LockCode(c) PROVE TxTyped'
  BY <1>11, TxMoves, LockCodeMoves, Constants DEF ClaimLabels
<1>12. ASSUME NEW c \in Claimers, CommitClaim(c) PROVE TxTyped'
  BY <1>12, TxMoves, CommitClaimMoves, Constants DEF ClaimLabels
<1>13. ASSUME NEW t \in Transactions, Rollback(t) PROVE TxTyped'
  BY <1>13, TxMoves, RollbackMoves, Constants DEF ClaimLabels, HandlerLabels
<1>14. CASE ExpireDue \/ ExpireCode \/ Tick \/ UNCHANGED vars
  BY <1>0, <1>14 DEF ExpireDue, ExpireCode, Tick, vars, TxTyped
<1> QED
  BY <1>1, <1>2, <1>3, <1>4, <1>5, <1>6, <1>7, <1>8, <1>9, <1>10, <1>11, <1>12, <1>13, <1>14,
     StepCases DEF vars

\* The rest of the types.
StoreTyped ==
    /\ now \in Nat /\ clock \in Nat
    /\ orders \in [Orders -> OrderRows]
    /\ orderLock \in [Orders -> Handlers \cup {Free}]
    /\ subs \in SUBSET Rows /\ IsFiniteSet(subs)
    /\ codeLock \in Claimers \cup {Free} /\ codeActive \in BOOLEAN
    /\ remaining \in Nat
    /\ claimed \in SUBSET Claimers /\ IsFiniteSet(claimed)
    /\ recharges \in [Orders -> Nat] /\ regressed \in [Orders -> Nat]
    /\ deliveries \in Nat /\ faults \in Nat
    /\ raced \in BOOLEAN

\* Every step keeps the types of what is stored.
LEMMA StoreStep ==
    ASSUME TypeOK, OrderInv, StampInv, [Next]_vars
    PROVE  StoreTyped'
<1>0. StoreTyped
  BY DEF TypeOK, StoreTyped
<1>1. ASSUME NEW o \in Orders, CreateOrder(o) PROVE StoreTyped'
  <2>1. PICK kind \in Kinds : orders' = [orders EXCEPT ![o] = [kind |-> kind, status |-> "open"]]
    BY <1>1 DEF CreateOrder
  <2>2. [kind |-> kind, status |-> "open"] \in OrderRows
    BY DEF OrderRows
  <2>3. orders' \in [Orders -> OrderRows]
    BY <1>0, <2>1, <2>2 DEF StoreTyped
  <2> QED BY <1>0, <1>1, <2>3 DEF CreateOrder, StoreTyped, redeemVars, bounds
<1>2. ASSUME NEW o \in Orders, UpdateOrder(o) PROVE StoreTyped'
  <2>1. orders' = [orders EXCEPT ![o] = [orders[o] EXCEPT !.status = "open"]]
    BY <1>0, <1>2 DEF UpdateOrder, StoreTyped
  <2>2. [orders[o] EXCEPT !.status = "open"] \in OrderRows
    BY <1>0 DEF OrderRows, StoreTyped
  <2>3. orders' \in [Orders -> OrderRows]
    BY <1>0, <2>1, <2>2 DEF StoreTyped
  <2>4. regressed' \in [Orders -> Nat]
    BY <1>0, <1>2 DEF UpdateOrder, StoreTyped
  <2> QED BY <1>0, <1>2, <2>3, <2>4 DEF UpdateOrder, StoreTyped, redeemVars, bounds
<1>3. ASSUME NEW h \in Handlers, Receive(h) PROVE StoreTyped'
  BY <1>0, <1>3 DEF Receive, StoreTyped, redeemVars, bounds, orderVars
<1>4. ASSUME NEW h \in Handlers, LockOrder(h) PROVE StoreTyped'
  <2>1. orderLock' \in [Orders -> Handlers \cup {Free}]
    BY <1>0, <1>4, LockOrderMoves DEF StoreTyped
  <2> QED BY <1>0, <1>4, <2>1 DEF LockOrder, StoreTyped, redeemVars, bounds
<1>5. ASSUME NEW h \in Handlers, ReadSubscription(h) PROVE StoreTyped'
  BY <1>0, <1>5 DEF ReadSubscription, StoreTyped, redeemVars, bounds, orderVars
<1>6. ASSUME NEW t \in Transactions, MatchActive(t) PROVE StoreTyped'
  BY <1>0, <1>6 DEF MatchActive, StoreTyped, redeemVars, bounds, orderVars
<1>7. ASSUME NEW t \in Transactions, ExpireActive(t) PROVE StoreTyped'
  BY <1>0, <1>7 DEF ExpireActive, StoreTyped, redeemVars, bounds, orderVars
<1>a. ASSUME NEW h \in Handlers, FinishOrder(h)
      PROVE  orders' \in [Orders -> OrderRows] /\ orderLock' \in [Orders -> Handlers \cup {Free}]
  <2>1. ASSUME NEW o \in Orders PROVE [orders[o] EXCEPT !.status = "succeeded"] \in OrderRows
    BY <1>0 DEF OrderRows, StoreTyped
  <2>2. CASE tx[h].order \in Orders
    <3>1. orders' = [orders EXCEPT ![tx[h].order] = [orders[tx[h].order] EXCEPT !.status = "succeeded"]]
      BY <1>a, <2>2, <1>0 DEF FinishOrder, StoreTyped
    <3>2. orders' \in [Orders -> OrderRows]
      BY <1>0, <2>1, <2>2, <3>1 DEF StoreTyped
    <3> QED BY <1>a, <1>0, <3>2 DEF FinishOrder, StoreTyped
  <2>3. CASE tx[h].order \notin Orders
    BY <1>a, <1>0, <2>3 DEF FinishOrder, StoreTyped
  <2> QED BY <2>2, <2>3
<1>8. ASSUME NEW h \in Handlers, CommitPlan(h) PROVE StoreTyped'
  <2>1. h \in Transactions /\ tx[h].order \in Orders
    BY <1>8, Constants DEF CommitPlan, OrderInv, At, HoldsOrder
  <2>2. subs' \in SUBSET Rows /\ IsFiniteSet(subs')
    BY <1>0, <1>8, <2>1, RowSets DEF CommitPlan, Sources, TypeOK
  <2>3. raced' \in BOOLEAN
    BY <1>0, <1>8 DEF CommitPlan, Raced, StoreTyped
  <2> QED BY <1>0, <1>8, <1>a, <2>2, <2>3 DEF CommitPlan, StoreTyped, redeemVars, bounds
<1>9. ASSUME NEW h \in Handlers, CommitRecharge(h) PROVE StoreTyped'
  <2>0. tx[h].order \in Orders
    BY <1>9 DEF CommitRecharge, OrderInv, At, HoldsOrder
  <2>1. recharges' \in [Orders -> Nat]
    BY <1>0, <1>9, <2>0 DEF CommitRecharge, StoreTyped
  <2> QED BY <1>0, <1>9, <1>a, <2>1 DEF CommitRecharge, StoreTyped, redeemVars, bounds
<1>10. ASSUME NEW c \in Claimers, BeginClaim(c) PROVE StoreTyped'
  BY <1>0, <1>10 DEF BeginClaim, StoreTyped, redeemVars, bounds, orderVars
<1>11. ASSUME NEW c \in Claimers, LockCode(c) PROVE StoreTyped'
  <2>1. codeLock' \in Claimers \cup {Free}
    BY <1>0, <1>11, LockCodeMoves DEF StoreTyped
  <2> QED BY <1>0, <1>11, <2>1 DEF LockCode, StoreTyped, bounds, orderVars
<1>12. ASSUME NEW c \in Claimers, CommitClaim(c) PROVE StoreTyped'
  <2>1. subs' \in SUBSET Rows /\ IsFiniteSet(subs')
    BY <1>0, <1>12, RowSets, Constants DEF CommitClaim, Sources, TypeOK
  <2>2. claimed' \in SUBSET Claimers /\ IsFiniteSet(claimed')
    BY <1>0, <1>12, FS_AddElement DEF CommitClaim, StoreTyped
  <2>3. remaining' \in Nat
    BY <1>0, <1>12 DEF CommitClaim, StoreTyped
  <2>4. raced' \in BOOLEAN
    BY <1>0, <1>12 DEF CommitClaim, Raced, StoreTyped
  <2> QED BY <1>0, <1>12, <2>1, <2>2, <2>3, <2>4 DEF CommitClaim, StoreTyped, bounds, orderVars
<1>13. ASSUME NEW t \in Transactions, Rollback(t), faults' \in {faults, faults + 1} PROVE StoreTyped'
  <2>1. orderLock' \in [Orders -> Handlers \cup {Free}]
    BY <1>0, <1>13 DEF Rollback, StoreTyped
  <2> QED BY <1>0, <1>13, <2>1 DEF Rollback, StoreTyped
<1>14. CASE ExpireDue
  <2>1. subs' \in SUBSET Rows /\ IsFiniteSet(subs')
    BY <1>0, <1>14, DueSets DEF StoreTyped
  <2>2. raced' \in BOOLEAN
    BY <1>0, <1>14 DEF ExpireDue, StoreTyped
  <2> QED BY <1>0, <1>14, <2>1, <2>2 DEF ExpireDue, StoreTyped, redeemVars, bounds, orderVars
<1>15. CASE ExpireCode
  BY <1>0, <1>15 DEF ExpireCode, StoreTyped, redeemVars, bounds, orderVars
<1>16. CASE Tick
  BY <1>0, <1>16 DEF Tick, StoreTyped, redeemVars, bounds, orderVars
<1>17. CASE UNCHANGED vars
  BY <1>0, <1>17 DEF vars, StoreTyped, redeemVars, bounds, orderVars
<1> QED
  BY <1>1, <1>2, <1>3, <1>4, <1>5, <1>6, <1>7, <1>8, <1>9, <1>10, <1>11, <1>12, <1>13, <1>14, <1>15,
     <1>16, <1>17, StepCases DEF vars

\* Every step keeps the types.
LEMMA TypeStep ==
    ASSUME TypeOK, OrderInv, StampInv, [Next]_vars
    PROVE  TypeOK'
BY TxStep, StoreStep DEF TypeOK, TxTyped, StoreTyped

-----------------------------------------------------------------------------
\* A step inside the program of one transaction, which keeps its locks.
LEMMA OrdersKept ==
    ASSUME TypeOK, OrderInv, NEW t \in Transactions, Moves(t), orders' = orders, orderLock' = orderLock,
           t \in Handlers =>
               /\ tx[t].pc \in HoldsOrder /\ tx'[t].pc \in HoldsOrder
               /\ tx'[t].order = tx[t].order
    PROVE  OrderInv'
<1>1. ASSUME NEW h \in Handlers
      PROVE  /\ tx'[h].pc \in HoldsOrder <=> tx[h].pc \in HoldsOrder
             /\ tx[h].pc \in HoldsOrder => tx'[h].order = tx[h].order
             /\ tx'[h].pc = "begin" => tx[h].pc = "begin" /\ tx'[h].order = tx[h].order
  BY Constants DEF Moves, HoldsOrder
<1>2. \A o \in Orders : orderLock[o] # Free => orderLock[o] \in Handlers
  BY DEF TypeOK
<1> QED
  BY <1>1, <1>2 DEF OrderInv

\* The end of a callback, by commit or by rollback.
Released(h) ==
    /\ Moves(h) /\ tx'[h].pc = "idle"
    /\ \A o \in Orders : orderLock'[o] = IF orderLock[o] = h THEN Free ELSE orderLock[o]
    /\ \A o \in Orders : \/ orders'[o] = orders[o]
                         \/ orderLock[o] = h /\ orders'[o].status # "none"

\* The end of a callback frees its order, and no other.
LEMMA OrderReleased ==
    ASSUME TypeOK, OrderInv, NEW h \in Handlers, Released(h)
    PROVE  OrderInv'
<1>1. \A g \in Handlers \ {h} : tx'[g] = tx[g]
  BY Constants DEF Moves, Released
<1>2. ASSUME NEW g \in Handlers, tx'[g].pc \in HoldsOrder \cup {"begin"}
      PROVE  g # h /\ tx'[g] = tx[g]
  BY <1>1, <1>2 DEF HoldsOrder, Released
<1>3. ASSUME NEW o \in Orders, orderLock'[o] # Free
      PROVE  /\ tx'[orderLock'[o]].pc \in HoldsOrder
             /\ tx'[orderLock'[o]].order = o
  <2>1. orderLock[o] # h /\ orderLock'[o] = orderLock[o] /\ orderLock[o] \in Handlers
    BY <1>3 DEF TypeOK, Released
  <2> QED BY <1>1, <1>3, <2>1 DEF OrderInv
<1>4. ASSUME NEW g \in Handlers, tx'[g].pc \in HoldsOrder
      PROVE  /\ tx'[g].order \in Orders
             /\ orderLock'[tx'[g].order] = g
             /\ orders'[tx'[g].order].status = "open"
  BY <1>2, <1>4, Constants DEF OrderInv, Released
<1>5. ASSUME NEW g \in Handlers, tx'[g].pc = "begin"
      PROVE  /\ tx'[g].order \in Orders
             /\ orders'[tx'[g].order].status # "none"
  <2>1. /\ tx[g].pc = "begin" /\ tx'[g] = tx[g]
    BY <1>2, <1>5
  <2>2. tx[g].order \in Orders /\ orders[tx[g].order].status # "none"
    BY <2>1 DEF OrderInv
  <2> QED
    BY <2>1, <2>2 DEF Released
<1> QED
  BY <1>3, <1>4, <1>5 DEF OrderInv

\* Every step keeps locks and orders together: a status that a callback says
\* must wait for the lock.
LEMMA OrderStep ==
    ASSUME TypeOK, OrderInv, StampInv, [Next]_vars
    PROVE  OrderInv'
<1>1. ASSUME NEW o \in Orders, CreateOrder(o) PROVE OrderInv'
  <2>1. orders[o].status = "none" /\ UNCHANGED <<tx, orderLock>>
    BY <1>1 DEF CreateOrder
  <2>2. \A p \in Orders : p # o => orders'[p] = orders[p]
    BY <1>1 DEF CreateOrder, TypeOK
  <2>3. orders'[o].status = "open"
    BY <1>1 DEF CreateOrder, TypeOK
  <2> QED BY <2>1, <2>2, <2>3 DEF OrderInv
<1>2. ASSUME NEW o \in Orders, UpdateOrder(o) PROVE OrderInv'
  <2>1. orderLock[o] = Free /\ UNCHANGED <<tx, orderLock>>
    BY <1>2 DEF UpdateOrder
  <2>2. \A p \in Orders : p # o => orders'[p] = orders[p]
    BY <1>2 DEF UpdateOrder, TypeOK
  <2>3. orders'[o].status = "open"
    BY <1>2 DEF UpdateOrder, TypeOK, OrderRows
  <2> QED BY <2>1, <2>2, <2>3 DEF OrderInv
<1>3. ASSUME NEW h \in Handlers, Receive(h) PROVE OrderInv'
  <2>1. /\ Moves(h) /\ tx[h].pc = "idle" /\ tx'[h].pc = "begin"
        /\ tx'[h].order \in Orders /\ orders[tx'[h].order].status # "none"
    BY <1>3, ReceiveMoves
  <2>2. orders' = orders /\ orderLock' = orderLock
    BY <1>3 DEF Receive, orderVars
  <2>3. \A g \in Handlers \ {h} : tx'[g] = tx[g]
    BY <2>1, Constants DEF Moves
  <2>4. \A o \in Orders : orderLock[o] # Free => orderLock[o] \in Handlers \ {h}
    BY <2>1 DEF TypeOK, OrderInv, HoldsOrder
  <2> QED BY <2>1, <2>2, <2>3, <2>4 DEF OrderInv, HoldsOrder
<1>4. ASSUME NEW h \in Handlers, LockOrder(h) PROVE OrderInv'
  <2>0. /\ Moves(h) /\ tx[h].pc = "begin"
        /\ tx[h].order \in Orders /\ orderLock[tx[h].order] = Free
        /\ orders' = orders
    BY <1>4, LockOrderMoves DEF LockOrder
  <2>1. CASE tx'[h].pc = "idle" /\ orderLock' = orderLock
    <3>1. \A o \in Orders : orderLock[o] # h
      BY <2>0, Constants DEF OrderInv, HoldsOrder
    <3>2. Released(h)
      BY <2>0, <2>1, <3>1 DEF Released
    <3> QED BY <3>2, OrderReleased
  <2>2. CASE /\ orders[tx[h].order].status = "open"
             /\ orderLock' = [orderLock EXCEPT ![tx[h].order] = h]
             /\ tx'[h].pc \in Kinds /\ tx'[h].order = tx[h].order
    <3>1. \A g \in Handlers \ {h} : tx'[g] = tx[g]
      BY <2>0, Constants DEF Moves
    <3>2. tx'[h].pc \in HoldsOrder /\ tx'[h].pc # "begin"
      BY <2>2 DEF Kinds, HoldsOrder
    <3>3. /\ orderLock'[tx[h].order] = h
          /\ \A o \in Orders : o # tx[h].order => orderLock'[o] = orderLock[o]
      BY <2>0, <2>2 DEF TypeOK
    <3>4. \A o \in Orders : orderLock[o] # Free => orderLock[o] \in Handlers \ {h}
      BY <2>0 DEF TypeOK, OrderInv, HoldsOrder
    <3>5. h # Free
      BY Constants
    <3>6. ASSUME NEW o \in Orders, orderLock'[o] # Free
          PROVE  tx'[orderLock'[o]].pc \in HoldsOrder /\ tx'[orderLock'[o]].order = o
      BY <3>6, <3>1, <3>2, <3>3, <3>4, <2>2 DEF OrderInv
    <3>7. ASSUME NEW g \in Handlers, tx'[g].pc \in HoldsOrder
          PROVE  /\ tx'[g].order \in Orders
                 /\ orderLock'[tx'[g].order] = g
                 /\ orders'[tx'[g].order].status = "open"
      <4>1. CASE g = h
        BY <4>1, <2>0, <2>2, <3>3
      <4>2. CASE g # h
        <5>1. tx'[g] = tx[g] /\ tx[g].order \in Orders /\ orderLock[tx[g].order] = g
              /\ orders[tx[g].order].status = "open"
          BY <4>2, <3>1, <3>7 DEF OrderInv
        <5>2. tx[g].order # tx[h].order
          BY <2>0, <5>1, Constants
        <5> QED BY <5>1, <5>2, <2>0, <3>3
      <4> QED BY <4>1, <4>2
    <3>8. ASSUME NEW g \in Handlers, tx'[g].pc = "begin"
          PROVE  tx'[g].order \in Orders /\ orders'[tx'[g].order].status # "none"
      BY <3>8, <2>0, <3>1, <3>2 DEF OrderInv
    <3> QED BY <3>6, <3>7, <3>8 DEF OrderInv
  <2> QED BY <1>4, <2>1, <2>2, LockOrderMoves
<1>5. ASSUME NEW h \in Handlers, ReadSubscription(h) PROVE OrderInv'
  BY <1>5, OrdersKept, ReadMoves, Constants DEF ReadSubscription, orderVars, HoldsOrder
<1>6. ASSUME NEW t \in Transactions, MatchActive(t) PROVE OrderInv'
  BY <1>6, OrdersKept, MatchMoves DEF MatchActive, orderVars, HoldsOrder
<1>7. ASSUME NEW t \in Transactions, ExpireActive(t) PROVE OrderInv'
  BY <1>7, OrdersKept, ExpireMoves DEF ExpireActive, orderVars, HoldsOrder
<1>8. ASSUME NEW h \in Handlers, FinishOrder(h), tx[h].pc \in HoldsOrder PROVE OrderInv'
  <2> DEFINE o == tx[h].order
  <2>1. o \in Orders /\ orderLock[o] = h
    BY <1>8 DEF OrderInv
  <2>2. \A p \in Orders : orderLock'[p] = (IF p = o THEN Free ELSE orderLock[p])
    BY <1>8, <2>1 DEF FinishOrder, TypeOK
  <2>3. \A p \in Orders : orderLock[p] = h => p = o
    BY <2>1, Constants DEF OrderInv
  <2>4. \A p \in Orders : p # o => orders'[p] = orders[p]
    BY <1>8, <2>1 DEF FinishOrder, TypeOK
  <2>5. orders'[o].status = "succeeded"
    BY <1>8, <2>1 DEF FinishOrder, TypeOK, OrderRows
  <2>6. Moves(h) /\ tx'[h].pc = "idle"
    BY <1>8, FinishMoves
  <2> HIDE DEF o
  <2>7. Released(h)
    BY <2>1, <2>2, <2>3, <2>4, <2>5, <2>6 DEF Released
  <2> QED BY <2>7, OrderReleased
<1>9. ASSUME NEW h \in Handlers, CommitPlan(h) \/ CommitRecharge(h) PROVE OrderInv'
  BY <1>8, <1>9 DEF CommitPlan, CommitRecharge, At, HoldsOrder
<1>10. ASSUME NEW c \in Claimers, BeginClaim(c) \/ LockCode(c) \/ CommitClaim(c) PROVE OrderInv'
  <2>1. c \in Transactions /\ c \notin Handlers /\ Moves(c)
    BY <1>10, BeginClaimMoves, LockCodeMoves, CommitClaimMoves, Constants
  <2>2. orders' = orders /\ orderLock' = orderLock
    BY <1>10 DEF BeginClaim, LockCode, CommitClaim, orderVars
  <2> QED BY <2>1, <2>2, OrdersKept
<1>11. ASSUME NEW t \in Transactions, Rollback(t) PROVE OrderInv'
  <2>1. Moves(t) /\ tx'[t].pc = (IF t \in Handlers THEN "idle" ELSE "done")
    BY <1>11, RollbackMoves
  <2>2. /\ orders' = orders
        /\ \A o \in Orders : orderLock'[o] = (IF orderLock[o] = t THEN Free ELSE orderLock[o])
    BY <1>11 DEF Rollback
  <2>3. CASE t \in Handlers
    <3>1. Released(t)
      BY <2>1, <2>2, <2>3 DEF Released
    <3> QED BY <2>3, <3>1, OrderReleased
  <2>4. CASE t \notin Handlers
    <3>1. \A o \in Orders : orderLock[o] # t
      BY <2>4, <1>11, Constants DEF TypeOK
    <3>2. orderLock' = orderLock
      BY <1>11, <3>1 DEF Rollback, TypeOK
    <3> QED BY <2>1, <2>2, <2>4, <3>2, OrdersKept
  <2> QED BY <2>3, <2>4
<1>12. CASE ExpireDue \/ ExpireCode \/ Tick \/ UNCHANGED vars
  BY <1>12 DEF ExpireDue, ExpireCode, Tick, vars, orderVars, OrderInv
<1> QED
  BY <1>1, <1>2, <1>3, <1>4, <1>5, <1>6, <1>7, <1>9, <1>10, <1>11, <1>12, StepCases DEF vars

-----------------------------------------------------------------------------
\* A step that does not pass in or out of the lock of the code.
LEMMA CodeKept ==
    ASSUME TypeOK, CodeInv, NEW t \in Transactions, Moves(t), UNCHANGED <<codeLock, claimed, remaining>>,
           t \in Claimers => (tx[t].pc \in HoldsCode <=> tx'[t].pc \in HoldsCode)
    PROVE  CodeInv'
<1>1. \A c \in Claimers : tx[c].pc \in HoldsCode <=> tx'[c].pc \in HoldsCode
  BY Constants DEF Moves
<1>2. codeLock # Free => codeLock \in Claimers
  BY DEF TypeOK
<1> QED BY <1>1, <1>2 DEF CodeInv

\* Every step keeps the lock of the code and its uses together.
LEMMA CodeStep ==
    ASSUME TypeOK, OrderInv, StampInv, CodeInv, [Next]_vars
    PROVE  CodeInv'
<1>1. CASE \E o \in Orders : CreateOrder(o) \/ UpdateOrder(o)
  BY <1>1 DEF CreateOrder, UpdateOrder, redeemVars, CodeInv
<1>3. ASSUME NEW h \in Handlers, Receive(h) PROVE CodeInv'
  BY <1>3, CodeKept, ReceiveMoves, Constants DEF Receive, redeemVars
<1>4. ASSUME NEW h \in Handlers, LockOrder(h) PROVE CodeInv'
  BY <1>4, CodeKept, LockOrderMoves, Constants DEF LockOrder, redeemVars
<1>5. ASSUME NEW h \in Handlers, ReadSubscription(h) PROVE CodeInv'
  BY <1>5, CodeKept, ReadMoves, Constants DEF ReadSubscription, redeemVars
<1>6. ASSUME NEW t \in Transactions, MatchActive(t) PROVE CodeInv'
  BY <1>6, CodeKept, MatchMoves DEF MatchActive, redeemVars, HoldsCode
<1>7. ASSUME NEW t \in Transactions, ExpireActive(t) PROVE CodeInv'
  BY <1>7, CodeKept, ExpireMoves DEF ExpireActive, redeemVars, HoldsCode
<1>8. ASSUME NEW h \in Handlers, CommitPlan(h) \/ CommitRecharge(h) PROVE CodeInv'
  BY <1>8, CodeKept, FinishMoves, Constants DEF CommitPlan, CommitRecharge, redeemVars
<1>9. ASSUME NEW c \in Claimers, BeginClaim(c) PROVE CodeInv'
  BY <1>9, CodeKept, BeginClaimMoves, Constants DEF BeginClaim, redeemVars, HoldsCode
<1>10. ASSUME NEW c \in Claimers, LockCode(c) PROVE CodeInv'
  <2>1. Moves(c) /\ tx[c].pc = "claim" /\ codeLock = Free /\ UNCHANGED <<claimed, remaining>>
    BY <1>10, LockCodeMoves DEF LockCode
  <2>2. CASE tx'[c].pc = "done" /\ codeLock' = codeLock
    BY <2>1, <2>2, CodeKept, Constants DEF HoldsCode
  <2>3. CASE /\ c \notin claimed /\ remaining > 0
             /\ codeLock' = c
             /\ tx'[c].pc = (IF c = User THEN "match" ELSE "insert")
    <3>1. \A d \in Claimers \ {c} : tx'[d] = tx[d] /\ tx[d].pc \notin HoldsCode
      BY <2>1, Constants DEF Moves, CodeInv
    <3>2. tx'[c].pc \in HoldsCode
      BY <2>3 DEF HoldsCode
    <3> QED BY <2>1, <2>3, <3>1, <3>2 DEF CodeInv
  <2> QED BY <1>10, <2>2, <2>3, LockCodeMoves
<1>11. ASSUME NEW c \in Claimers, CommitClaim(c) PROVE CodeInv'
  <2>1. Moves(c) /\ tx[c].pc = "insert" /\ tx'[c].pc = "done" /\ codeLock' = Free
    BY <1>11, CommitClaimMoves DEF CommitClaim
  <2>2. codeLock = c
    BY <2>1 DEF CodeInv, HoldsCode
  <2>3. \A d \in Claimers : tx'[d].pc \notin HoldsCode
    BY <2>1, <2>2, Constants DEF Moves, CodeInv, HoldsCode
  <2> QED BY <2>1, <2>3 DEF CodeInv
<1>12. ASSUME NEW t \in Transactions, Rollback(t) PROVE CodeInv'
  <2>0. Moves(t) /\ tx'[t].pc = (IF t \in Handlers THEN "idle" ELSE "done")
    BY <1>12, RollbackMoves
  <2>1. /\ Moves(t) /\ tx'[t].pc \notin HoldsCode /\ UNCHANGED <<claimed, remaining>>
        /\ codeLock' = (IF codeLock = t THEN Free ELSE codeLock)
    BY <1>12, <2>0 DEF Rollback, HoldsCode
  <2>2. CASE codeLock = t
    <3>1. \A d \in Claimers : tx'[d].pc \notin HoldsCode
      BY <2>1, <2>2, Constants DEF Moves, CodeInv
    <3> QED BY <2>1, <2>2, <3>1 DEF CodeInv
  <2>3. CASE codeLock # t
    BY <2>1, <2>3, CodeKept DEF CodeInv
  <2> QED BY <2>2, <2>3
<1>13. CASE ExpireDue \/ ExpireCode \/ Tick \/ UNCHANGED vars
  BY <1>13 DEF ExpireDue, ExpireCode, Tick, vars, redeemVars, CodeInv
<1> QED
  BY <1>1, <1>3, <1>4, <1>5, <1>6, <1>7, <1>8, <1>9, <1>10, <1>11, <1>12, <1>13, StepCases DEF vars

\* A claim adds one claimer and takes one use: its claimer is new and the use
\* is there, because it has held the lock since it looked.
LEMMA RedeemStep ==
    ASSUME TypeOK, CodeInv, RedeemNotOversold, [Next]_vars
    PROVE  RedeemNotOversold'
<1>1. CASE UNCHANGED <<claimed, remaining>>
  BY <1>1 DEF RedeemNotOversold
<1>2. ASSUME NEW c \in Claimers, CommitClaim(c) PROVE RedeemNotOversold'
  <2>1. codeLock = c
    BY <1>2 DEF CommitClaim, At, CodeInv, HoldsCode
  <2>2. c \notin claimed /\ remaining > 0 /\ remaining \in Nat /\ IsFiniteSet(claimed)
    BY <2>1, <1>2, Constants DEF CodeInv, TypeOK
  <2>3. Cardinality(claimed \cup {c}) = Cardinality(claimed) + 1 /\ Cardinality(claimed) \in Nat
    BY <2>2, FS_AddElement, FS_CardinalityType
  <2>4. claimed' = claimed \cup {c} /\ remaining' = remaining - 1
    BY <1>2, <2>2 DEF CommitClaim
  <2> QED BY <2>2, <2>3, <2>4 DEF RedeemNotOversold
<1> QED
  BY <1>1, <1>2, StepCases
  DEF CreateOrder, UpdateOrder, Receive, LockOrder, ReadSubscription, MatchActive, ExpireActive,
      CommitPlan, CommitRecharge, BeginClaim, LockCode, Rollback, ExpireDue, ExpireCode, Tick,
      vars, redeemVars

-----------------------------------------------------------------------------
\* The rows after a change of subscriptions: those that were there, by the
\* moment they were created, and the new one.
Renewed(rows) ==
    /\ \A s \in subs : \E row \in rows : row.created = s.created /\ row.source = s.source
    /\ \A row \in rows : \E s \in subs :
           /\ row = s \/ row = [s EXCEPT !.status = "expired"]
           /\ row.created = s.created /\ row.source = s.source /\ row.ends = s.ends
    /\ \A row, other \in rows : row.created = other.created => row = other

\* Replace renews the rows and adds one; of the old ones only those the
\* transaction did not find stay active.
LEMMA ReplaceRows ==
    ASSUME TypeOK, StampInv, NEW t \in Transactions, NEW source \in Sources
    PROVE  \E rows, row :
               /\ Replace(subs, t, source) = rows \cup {row}
               /\ Renewed(rows)
               /\ \A s \in rows : s.status = "active" => s \in Active /\ s.created \notin tx[t].expiring
               /\ row = [created |-> tx[t].ts, ends |-> tx[t].ends, status |-> "active", source |-> source]
<1> DEFINE F(s) == IF s.created \in tx[t].expiring THEN [s EXCEPT !.status = "expired"] ELSE s
           rows == {F(s) : s \in subs}
           row == [created |-> tx[t].ts, ends |-> tx[t].ends, status |-> "active", source |-> source]
<1>1. Replace(subs, t, source) = rows \cup {row}
  BY DEF Replace
<1>2. ASSUME NEW s \in subs
      PROVE  /\ F(s).created = s.created /\ F(s).source = s.source /\ F(s).ends = s.ends
             /\ F(s) = s \/ F(s) = [s EXCEPT !.status = "expired"]
             /\ F(s).status = "active" => F(s) \in Active /\ F(s).created \notin tx[t].expiring
  BY DEF TypeOK, Rows, Active
<1>3. Renewed(rows)
  <2>1. ASSUME NEW s \in subs PROVE \E r \in rows : r.created = s.created /\ r.source = s.source
    <3>1. F(s) \in rows
      OBVIOUS
    <3> HIDE DEF F, rows
    <3> QED BY <1>2, <3>1
  <2>2. ASSUME NEW r \in rows
        PROVE  \E s \in subs :
                   /\ r = s \/ r = [s EXCEPT !.status = "expired"]
                   /\ r.created = s.created /\ r.source = s.source /\ r.ends = s.ends
    <3>1. PICK s \in subs : r = F(s)
      OBVIOUS
    <3> HIDE DEF F, rows
    <3> QED BY <1>2, <3>1
  <2>3. ASSUME NEW r1 \in rows, NEW r2 \in rows, r1.created = r2.created PROVE r1 = r2
    <3>1. PICK s1 \in subs, s2 \in subs : r1 = F(s1) /\ r2 = F(s2)
      OBVIOUS
    <3> HIDE DEF F, rows
    <3> QED BY <1>2, <2>3, <3>1 DEF StampInv
  <2> HIDE DEF rows
  <2> QED BY <2>1, <2>2, <2>3 DEF Renewed
<1>4. \A s \in rows : s.status = "active" => s \in Active /\ s.created \notin tx[t].expiring
  BY <1>2
<1> HIDE DEF rows
<1> QED BY <1>1, <1>3, <1>4

\* The worker renews the rows.
LEMMA DueRows ==
    ASSUME TypeOK, StampInv, ExpireDue
    PROVE  Renewed(subs') /\ \A s \in subs' : s.status = "active" => s \in Active
<1> DEFINE Over == {[s EXCEPT !.status = "expired"] : s \in Due}
<1>1. subs' = (subs \ Due) \cup Over /\ Due \subseteq subs
  BY DEF ExpireDue, Due, Active
<1>2. ASSUME NEW s \in subs
      PROVE  /\ [s EXCEPT !.status = "expired"].created = s.created
             /\ [s EXCEPT !.status = "expired"].source = s.source
             /\ [s EXCEPT !.status = "expired"].ends = s.ends
             /\ [s EXCEPT !.status = "expired"].status = "expired"
  BY DEF TypeOK, Rows
<1>3. Renewed(subs')
  <2>1. ASSUME NEW r \in subs'
        PROVE  \E s \in subs :
                   /\ r = IF s \in Due THEN [s EXCEPT !.status = "expired"] ELSE s
                   /\ r.created = s.created /\ r.source = s.source /\ r.ends = s.ends
    BY <1>1, <1>2
  <2>2. \A r1, r2 \in subs' : r1.created = r2.created => r1 = r2
    BY <2>1 DEF StampInv
  <2>3. \A s \in subs : \E r \in subs' : r.created = s.created /\ r.source = s.source
    BY <1>1, <1>2
  <2>4. \A r \in subs' : \E s \in subs :
           /\ r = s \/ r = [s EXCEPT !.status = "expired"]
           /\ r.created = s.created /\ r.source = s.source /\ r.ends = s.ends
    BY <2>1
  <2> QED BY <2>2, <2>3, <2>4 DEF Renewed
<1>4. \A s \in subs' : s.status = "active" => s \in Active
  BY <1>1, <1>2 DEF Active
<1> QED BY <1>3, <1>4

-----------------------------------------------------------------------------
\* A step that leaves the rows alone and begins nothing.
LEMMA StampKept ==
    ASSUME TypeOK, StampInv, NEW t \in Transactions, Moves(t), clock' = clock, subs' = subs,
           Running(t)' => Running(t) /\ tx'[t].ts = tx[t].ts
    PROVE  StampInv'
<1>1. \A u \in Transactions : Running(u)' => Running(u) /\ tx'[u].ts = tx[u].ts
  BY DEF Moves, Running
<1> QED BY <1>1 DEF StampInv

\* A transaction that begins is younger than every row.
LEMMA StampBegins ==
    ASSUME TypeOK, StampInv, NEW t \in Transactions, Moves(t), clock' = clock + 1, subs' = subs,
           tx'[t].ts = clock + 1
    PROVE  StampInv'
<1>1. \A u \in Transactions \ {t} : Running(u)' => Running(u) /\ tx'[u].ts = tx[u].ts
  BY DEF Moves, Running
<1>2. clock \in Nat /\ \A s \in subs : s.created \in Nat
  BY DEF TypeOK, Rows
<1>3. \A u \in Transactions : tx[u].ts \in Nat
  BY DEF TypeOK, States
<1> QED BY <1>1, <1>2, <1>3 DEF StampInv

\* Renewed rows keep their moments.
LEMMA StampRenewed ==
    ASSUME TypeOK, StampInv, clock' = clock, tx' = tx, Renewed(subs')
    PROVE  StampInv'
BY DEF StampInv, Renewed, Running

\* A new row takes the moment of its transaction, which then is over.
LEMMA StampReplaced ==
    ASSUME TypeOK, StampInv, NEW t \in Transactions, Moves(t), clock' = clock, Running(t), ~ Running(t)',
           NEW source \in Sources, subs' = Replace(subs, t, source)
    PROVE  StampInv'
<1>1. \A u \in Transactions : Running(u)' => u # t /\ Running(u) /\ tx'[u].ts = tx[u].ts
  BY DEF Moves, Running
<1>2. PICK rows, row :
          /\ subs' = rows \cup {row}
          /\ Renewed(rows)
          /\ row = [created |-> tx[t].ts, ends |-> tx[t].ends, status |-> "active", source |-> source]
  BY ReplaceRows
<1>3. row.created = tx[t].ts
  BY <1>2
<1>4. \A s \in rows : \E old \in subs : s.created = old.created
  BY <1>2 DEF Renewed
<1>5. \A s \in rows : s.created <= clock /\ s.created # tx[t].ts
  BY <1>4 DEF StampInv
<1>6. \A s \in subs' : s.created <= clock
  BY <1>2, <1>3, <1>5 DEF StampInv
<1>7. \A s, other \in subs' : s.created = other.created => s = other
  BY <1>2, <1>3, <1>5 DEF Renewed
<1>8. ASSUME NEW u \in Transactions, Running(u)'
      PROVE  /\ tx'[u].ts <= clock
             /\ \A s \in subs' : s.created # tx'[u].ts
             /\ \A v \in Transactions \ {u} : Running(v)' => tx'[v].ts # tx'[u].ts
  <2>1. \A s \in rows : s.created # tx[u].ts
    BY <1>1, <1>4, <1>8 DEF StampInv
  <2> QED BY <1>1, <1>2, <1>3, <1>8, <2>1 DEF StampInv
<1> QED BY <1>6, <1>7, <1>8 DEF StampInv

\* Every step keeps the moments apart.
LEMMA StampStep ==
    ASSUME TypeOK, OrderInv, StampInv, [Next]_vars
    PROVE  StampInv'
<1>1. CASE UNCHANGED <<tx, subs, clock>>
  BY <1>1 DEF StampInv, Running
<1>3. ASSUME NEW h \in Handlers, Receive(h) PROVE StampInv'
  BY <1>3, StampBegins, ReceiveMoves, Constants DEF Receive
<1>4. ASSUME NEW h \in Handlers, LockOrder(h) PROVE StampInv'
  <2>1. Running(h)' => Running(h) /\ tx'[h].ts = tx[h].ts
    BY <1>4, LockOrderMoves DEF Running
  <2> QED BY <1>4, <2>1, StampKept, LockOrderMoves, Constants DEF LockOrder
<1>5. ASSUME NEW h \in Handlers, ReadSubscription(h) PROVE StampInv'
  BY <1>5, StampKept, ReadMoves, Constants DEF ReadSubscription, Running
<1>6. ASSUME NEW t \in Transactions, MatchActive(t) PROVE StampInv'
  BY <1>6, StampKept, MatchMoves DEF MatchActive, Running
<1>7. ASSUME NEW t \in Transactions, ExpireActive(t) PROVE StampInv'
  BY <1>7, StampKept, ExpireMoves DEF ExpireActive, Running
<1>8. ASSUME NEW h \in Handlers, CommitPlan(h) PROVE StampInv'
  <2>1. Moves(h) /\ ~Running(h)' /\ Running(h) /\ clock' = clock
    BY <1>8, FinishMoves DEF CommitPlan, Running, At
  <2>2. tx[h].order \in Sources /\ subs' = Replace(subs, h, tx[h].order)
    BY <1>8 DEF CommitPlan, At, OrderInv, HoldsOrder, Sources
  <2> QED BY <2>1, <2>2, StampReplaced, Constants
<1>9. ASSUME NEW h \in Handlers, CommitRecharge(h) PROVE StampInv'
  BY <1>9, StampKept, FinishMoves, Constants DEF CommitRecharge, Running
<1>10. ASSUME NEW c \in Claimers, BeginClaim(c) PROVE StampInv'
  BY <1>10, StampBegins, BeginClaimMoves, Constants DEF BeginClaim
<1>11. ASSUME NEW c \in Claimers, LockCode(c) PROVE StampInv'
  <2>1. Running(c)' => Running(c) /\ tx'[c].ts = tx[c].ts
    BY <1>11, LockCodeMoves DEF Running
  <2> QED BY <1>11, <2>1, StampKept, LockCodeMoves, Constants DEF LockCode
<1>12. ASSUME NEW c \in Claimers, CommitClaim(c) PROVE StampInv'
  <2>1. Moves(c) /\ ~Running(c)' /\ Running(c) /\ clock' = clock
    BY <1>12, CommitClaimMoves DEF CommitClaim, Running
  <2>2. CASE c = User
    BY <1>12, <2>1, <2>2, StampReplaced, Constants DEF CommitClaim, Sources
  <2>3. CASE c # User
    BY <1>12, <2>1, <2>3, StampKept, Constants DEF CommitClaim
  <2> QED BY <2>2, <2>3
<1>13. ASSUME NEW t \in Transactions, Rollback(t) PROVE StampInv'
  <2>1. Moves(t) /\ tx'[t].pc = (IF t \in Handlers THEN "idle" ELSE "done")
    BY <1>13, RollbackMoves
  <2>2. ~ Running(t)' /\ subs' = subs /\ clock' = clock
    BY <1>13, <2>1 DEF Rollback, Running
  <2> QED BY <2>1, <2>2, StampKept
<1>14. CASE ExpireDue
  BY <1>14, DueRows, StampRenewed DEF ExpireDue
<1> QED
  BY <1>1, <1>3, <1>4, <1>5, <1>6, <1>7, <1>8, <1>9, <1>10, <1>11, <1>12, <1>13, <1>14, StepCases
  DEF CreateOrder, UpdateOrder, ExpireCode, Tick, vars

-----------------------------------------------------------------------------
Stamps(rows, o) == {s.created : s \in {row \in rows : row.source = o}}

\* The rows of an order are counted by their moments.
LEMMA StampsCount ==
    ASSUME NEW rows \in SUBSET Rows, IsFiniteSet(rows), NEW o,
           \A s, other \in rows : s.created = other.created => s = other
    PROVE  /\ Cardinality({row \in rows : row.source = o}) = Cardinality(Stamps(rows, o))
           /\ IsFiniteSet(Stamps(rows, o))
           /\ Cardinality(Stamps(rows, o)) \in Nat
<1> DEFINE Of == {row \in rows : row.source = o}
           f == [s \in Of |-> s.created]
<1>1. IsFiniteSet(Of)
  BY FS_Subset
<1>2. f \in Surjection(Of, Stamps(rows, o)) /\ f \in Injection(Of, Stamps(rows, o))
  <2>1. f \in [Of -> Stamps(rows, o)]
    BY DEF Stamps
  <2>2. \A stamp \in Stamps(rows, o) : \E s \in Of : f[s] = stamp
    BY DEF Stamps
  <2>3. \A s, other \in Of : f[s] = f[other] => s = other
    OBVIOUS
  <2> HIDE DEF f, Of
  <2>4. f \in Surjection(Of, Stamps(rows, o))
    BY <2>1, <2>2, Zenon DEF Surjection
  <2>5. f \in Injection(Of, Stamps(rows, o))
    BY <2>1, <2>3 DEF Injection, IsInjective
  <2> QED BY <2>4, <2>5
<1> HIDE DEF Of, f
<1>3. IsFiniteSet(Stamps(rows, o)) /\ Cardinality(Stamps(rows, o)) = Cardinality(Of)
  BY <1>1, <1>2, FS_Surjection
<1> QED BY <1>3, FS_CardinalityType DEF Of

\* Renewed rows are as many.
LEMMA StampsKept ==
    ASSUME NEW rows, Renewed(rows), NEW o
    PROVE  Stamps(rows, o) = Stamps(subs, o)
BY DEF Renewed, Stamps

\* A change of subscriptions that adds no row of the order.
LEMMA FulfilmentsKept ==
    ASSUME TypeOK, TypeOK', StampInv, StampInv', NEW o \in Orders, recharges'[o] = recharges[o],
           Stamps(subs', o) = Stamps(subs, o)
    PROVE  Fulfilments(o)' = Fulfilments(o)
<1>1. Cardinality({s \in subs : s.source = o}) = Cardinality(Stamps(subs, o))
  BY StampsCount DEF TypeOK, StampInv
<1>2. Cardinality({s \in subs' : s.source = o}) = Cardinality(Stamps(subs', o))
  BY StampsCount DEF TypeOK, StampInv
<1> QED BY <1>1, <1>2 DEF Fulfilments

\* One that adds a row of it.
LEMMA FulfilmentsAdded ==
    ASSUME TypeOK, TypeOK', StampInv, StampInv', NEW o \in Orders, recharges'[o] = recharges[o],
           NEW ts, Stamps(subs', o) = Stamps(subs, o) \cup {ts}, \A s \in subs : s.created # ts
    PROVE  Fulfilments(o)' = Fulfilments(o) + 1
<1>1. /\ Cardinality({s \in subs : s.source = o}) = Cardinality(Stamps(subs, o))
      /\ IsFiniteSet(Stamps(subs, o)) /\ Cardinality(Stamps(subs, o)) \in Nat
  BY StampsCount DEF TypeOK, StampInv
<1>2. Cardinality({s \in subs' : s.source = o}) = Cardinality(Stamps(subs', o))
  BY StampsCount DEF TypeOK, StampInv
<1>3. ts \notin Stamps(subs, o)
  BY DEF Stamps
<1>4. Cardinality(Stamps(subs', o)) = Cardinality(Stamps(subs, o)) + 1
  BY <1>1, <1>3, FS_AddElement
<1>5. recharges[o] \in Nat
  BY DEF TypeOK
<1> QED BY <1>1, <1>2, <1>4, <1>5 DEF Fulfilments

\* Replace adds a row of its own order only.
LEMMA StampsReplaced ==
    ASSUME TypeOK, StampInv, NEW t \in Transactions, NEW source \in Sources, NEW o \in Orders,
           subs' = Replace(subs, t, source)
    PROVE  Stamps(subs', o) = IF source = o THEN Stamps(subs, o) \cup {tx[t].ts} ELSE Stamps(subs, o)
<1>1. PICK rows, row :
          /\ subs' = rows \cup {row}
          /\ Renewed(rows)
          /\ row = [created |-> tx[t].ts, ends |-> tx[t].ends, status |-> "active", source |-> source]
  BY ReplaceRows
<1>2. Stamps(rows, o) = Stamps(subs, o)
  BY <1>1, StampsKept
<1>3. row.created = tx[t].ts /\ row.source = source
  BY <1>1
<1> QED BY <1>1, <1>2, <1>3 DEF Stamps

\* Deliveries are counted.
LEMMA FulfilmentsTyped ==
    ASSUME TypeOK, StampInv, NEW o \in Orders
    PROVE  Fulfilments(o) \in Nat
<1>1. /\ Cardinality({s \in subs : s.source = o}) = Cardinality(Stamps(subs, o))
      /\ Cardinality(Stamps(subs, o)) \in Nat
  BY StampsCount DEF TypeOK, StampInv
<1> QED BY <1>1 DEF TypeOK, Fulfilments

\* Every step keeps the deliveries: an order is delivered in the step that
\* makes it succeeded, and was not before; only a callback that says something
\* else takes it back.
LEMMA DeliveredStep ==
    ASSUME TypeOK, OrderInv, StampInv, CodeInv, DeliveredInv, [Next]_vars, TypeOK', StampInv'
    PROVE  DeliveredInv'
<1> DEFINE Paid(p) == IF orders[p].status = "succeeded" THEN 1 ELSE 0
<1>0. SUFFICES ASSUME NEW p \in Orders
               PROVE  Fulfilments(p)' = regressed'[p] + Paid(p)'
  BY DEF DeliveredInv
<1>a. Fulfilments(p) = regressed[p] + Paid(p) /\ Fulfilments(p) \in Nat /\ regressed[p] \in Nat
  BY FulfilmentsTyped DEF DeliveredInv, TypeOK
<1>b. ASSUME Fulfilments(p)' = Fulfilments(p), regressed'[p] = regressed[p],
             orders'[p].status = "succeeded" <=> orders[p].status = "succeeded"
      PROVE  Fulfilments(p)' = regressed'[p] + Paid(p)'
  BY <1>a, <1>b
<1>1. CASE UNCHANGED <<subs, recharges, regressed, orders>>
  BY <1>1, <1>b DEF Fulfilments
<1>2. ASSUME NEW o \in Orders, CreateOrder(o) PROVE Fulfilments(p)' = regressed'[p] + Paid(p)'
  <2>1. orders'[p].status = "succeeded" <=> orders[p].status = "succeeded"
    BY <1>2 DEF CreateOrder, TypeOK
  <2>2. Fulfilments(p)' = Fulfilments(p) /\ regressed'[p] = regressed[p]
    BY <1>2 DEF CreateOrder, Fulfilments
  <2> QED BY <2>1, <2>2, <1>b
<1>3. ASSUME NEW o \in Orders, UpdateOrder(o) PROVE Fulfilments(p)' = regressed'[p] + Paid(p)'
  <2>1. Fulfilments(p)' = Fulfilments(p)
    BY <1>3 DEF UpdateOrder, Fulfilments
  <2>2. CASE p # o
    <3>1. orders'[p] = orders[p] /\ regressed'[p] = regressed[p]
      BY <1>3, <2>2 DEF UpdateOrder, TypeOK
    <3> QED BY <2>1, <3>1, <1>b
  <2>3. CASE p = o
    <3>1. orders'[p].status = "open"
      BY <1>3, <2>3 DEF UpdateOrder, TypeOK, OrderRows
    <3>2. regressed'[p] = regressed[p] + Paid(p)
      BY <1>3, <2>3 DEF UpdateOrder, TypeOK
    <3>3. Paid(p)' = 0
      BY <3>1
    <3> QED BY <2>1, <3>2, <3>3, <1>a
  <2> QED BY <2>2, <2>3
<1>c. ASSUME NEW h \in Handlers, FinishOrder(h), tx[h].pc \in HoldsOrder
      PROVE  /\ tx[h].order \in Orders
             /\ Paid(p)' = IF p = tx[h].order THEN 1 ELSE Paid(p)
             /\ p = tx[h].order => Paid(p) = 0
  <2>1. tx[h].order \in Orders /\ orders[tx[h].order].status = "open"
    BY <1>c DEF OrderInv
  <2>2. orders'[p].status = IF p = tx[h].order THEN "succeeded" ELSE orders[p].status
    BY <1>c, <2>1 DEF FinishOrder, TypeOK, OrderRows
  <2> QED BY <2>1, <2>2
<1>4. ASSUME NEW h \in Handlers, CommitPlan(h) PROVE Fulfilments(p)' = regressed'[p] + Paid(p)'
  <2>1. /\ FinishOrder(h) /\ tx[h].pc \in HoldsOrder /\ Running(h) /\ h \in Transactions
        /\ subs' = Replace(subs, h, tx[h].order) /\ recharges' = recharges /\ regressed' = regressed
    BY <1>4, Constants DEF CommitPlan, At, HoldsOrder, Running
  <2>2. tx[h].order \in Orders /\ tx[h].order \in Sources
    BY <2>1, <1>c DEF Sources
  <2>3. \A s \in subs : s.created # tx[h].ts
    BY <2>1 DEF StampInv
  <2>4. CASE p = tx[h].order
    <3>1. Stamps(subs', p) = Stamps(subs, p) \cup {tx[h].ts}
      BY <2>1, <2>2, <2>4, StampsReplaced
    <3>2. Fulfilments(p)' = Fulfilments(p) + 1
      BY <2>1, <2>3, <3>1, FulfilmentsAdded
    <3>3. Paid(p)' = 1 /\ Paid(p) = 0
      BY <2>1, <2>4, <1>c
    <3> HIDE DEF Paid
    <3> QED BY <2>1, <3>2, <3>3, <1>a
  <2>5. CASE p # tx[h].order
    <3>1. Stamps(subs', p) = Stamps(subs, p)
      BY <2>1, <2>2, <2>5, StampsReplaced
    <3>2. Fulfilments(p)' = Fulfilments(p)
      BY <2>1, <3>1, FulfilmentsKept
    <3>3. Paid(p)' = Paid(p)
      BY <2>1, <2>5, <1>c
    <3> HIDE DEF Paid
    <3> QED BY <2>1, <3>2, <3>3, <1>a
  <2> QED BY <2>4, <2>5
<1>5. ASSUME NEW h \in Handlers, CommitRecharge(h) PROVE Fulfilments(p)' = regressed'[p] + Paid(p)'
  <2>1. /\ FinishOrder(h) /\ tx[h].pc \in HoldsOrder
        /\ subs' = subs /\ recharges' = [recharges EXCEPT ![tx[h].order] = @ + 1] /\ regressed' = regressed
    BY <1>5 DEF CommitRecharge, At, HoldsOrder
  <2>2. recharges'[p] = IF p = tx[h].order THEN recharges[p] + 1 ELSE recharges[p]
    BY <2>1, <1>c DEF TypeOK
  <2>3. Fulfilments(p)' = IF p = tx[h].order THEN Fulfilments(p) + 1 ELSE Fulfilments(p)
    <3>1. Cardinality({s \in subs : s.source = p}) = Cardinality(Stamps(subs, p))
          /\ Cardinality(Stamps(subs, p)) \in Nat /\ recharges[p] \in Nat
      BY StampsCount DEF TypeOK, StampInv
    <3> DEFINE n == Cardinality({s \in subs : s.source = p})
    <3>2. n \in Nat /\ Fulfilments(p) = n + recharges[p] /\ Fulfilments(p)' = n + recharges'[p]
      BY <3>1, <2>1 DEF Fulfilments
    <3> HIDE DEF n
    <3> QED BY <3>1, <3>2, <2>2
  <2>4. Paid(p)' = (IF p = tx[h].order THEN 1 ELSE Paid(p)) /\ (p = tx[h].order => Paid(p) = 0)
    BY <2>1, <1>c
  <2> HIDE DEF Paid
  <2> QED BY <2>1, <2>3, <2>4, <1>a
<1>6. ASSUME NEW c \in Claimers, CommitClaim(c) PROVE Fulfilments(p)' = regressed'[p] + Paid(p)'
  <2>1. UNCHANGED <<orders, regressed, recharges>>
    BY <1>6 DEF CommitClaim, orderVars
  <2>2. Stamps(subs', p) = Stamps(subs, p)
    <3>1. CASE c = User
      BY <1>6, <3>1, StampsReplaced, Constants DEF CommitClaim, Sources
    <3>2. CASE c # User
      BY <1>6, <3>2 DEF CommitClaim
    <3> QED BY <3>1, <3>2
  <2>3. Fulfilments(p)' = Fulfilments(p)
    BY <2>1, <2>2, FulfilmentsKept
  <2> QED BY <2>1, <2>3, <1>b
<1>7. CASE ExpireDue
  <2>1. UNCHANGED <<orders, regressed, recharges>>
    BY <1>7 DEF ExpireDue, orderVars
  <2>2. Fulfilments(p)' = Fulfilments(p)
    BY <1>7, <2>1, FulfilmentsKept, StampsKept, DueRows
  <2> QED BY <2>1, <2>2, <1>b
<1> QED
  BY <1>1, <1>2, <1>3, <1>4, <1>5, <1>6, <1>7, StepCases
  DEF Receive, LockOrder, ReadSubscription, MatchActive, ExpireActive, BeginClaim, LockCode,
      Rollback, ExpireCode, Tick, vars, orderVars

-----------------------------------------------------------------------------
\* While nothing raced, the latest active subscription is the only one, and a
\* payment counts from its end.
LEMMA BaseKeeps ==
    ASSUME TypeOK, StampInv, UndisturbedInv, ~raced, NEW s \in Active, s.ends # Never
    PROVE  Base >= s.ends
<1>1. Active \in SUBSET Rows /\ \A r \in Active : r.created <= clock
  BY DEF Active, StampInv, TypeOK
<1>2. Latest(Active) \in Active /\ s.created <= Latest(Active).created
  BY <1>1, LatestExists DEF TypeOK
<1>3. Latest(Active).created <= s.created
  BY <1>2 DEF UndisturbedInv, Active
<1>4. s.created \in Nat /\ Latest(Active).created \in Nat /\ s.ends \in Nat
  BY <1>1, <1>2 DEF Rows
<1>5. Latest(Active) = s
  <2>1. Latest(Active).created = s.created
    BY <1>2, <1>3, <1>4
  <2> QED BY <1>2, <2>1 DEF StampInv, Active
<1>6. Base = IF s.ends < now THEN now ELSE s.ends
  BY <1>5 DEF Base
<1> QED BY <1>4, <1>6 DEF TypeOK

\* A step that leaves the subscriptions alone.
LEMMA UndisturbedKept ==
    ASSUME UndisturbedInv, UNCHANGED <<subs, raced>>, NEW t \in Transactions, Moves(t),
           ~raced => StillHolds(t)'
    PROVE  UndisturbedInv'
<1>1. Active' = Active
  BY DEF Active
<1>2. ASSUME NEW u \in Transactions, u # t, StillHolds(u) PROVE StillHolds(u)'
  BY <1>1, <1>2 DEF Moves, StillHolds, Running, At
<1> QED BY <1>1, <1>2 DEF UndisturbedInv

\* A step that changes them while no other transaction is running.
LEMMA UndisturbedAlone ==
    ASSUME NEW t \in Transactions, Moves(t), ~ Running(t)', \A u \in Transactions \ {t} : ~ Running(u),
           \A s \in Active', other \in subs' : other.created <= s.created
    PROVE  UndisturbedInv'
<1>1. ASSUME NEW u \in Transactions PROVE ~ Running(u)'
  BY DEF Moves, Running
<1>2. \A u \in Transactions : StillHolds(u)'
  BY <1>1 DEF StillHolds, Running, At, HoldsCode
<1> QED BY <1>2 DEF UndisturbedInv

\* Alone, a transaction expires every active row, and its own is the latest.
LEMMA ReplacedLatest ==
    ASSUME TypeOK, StampInv, UndisturbedInv, ~raced, NEW t \in Replacers, t \in Transactions,
           At(t, "insert"), NEW source \in Sources, subs' = Replace(subs, t, source)
    PROVE  \A s \in Active', other \in subs' : other.created <= s.created
<1>1. PICK rows, row :
          /\ subs' = rows \cup {row}
          /\ Renewed(rows)
          /\ \A s \in rows : s.status = "active" => s \in Active /\ s.created \notin tx[t].expiring
          /\ row = [created |-> tx[t].ts, ends |-> tx[t].ends, status |-> "active", source |-> source]
  BY ReplaceRows
<1>2. row.created = tx[t].ts /\ tx[t].ts \in Nat
  BY <1>1 DEF TypeOK, States
<1>3. StillHolds(t) /\ Running(t)
  BY DEF UndisturbedInv, At, Running
<1>4. \A s \in rows : s.status # "active"
  BY <1>1, <1>3 DEF StillHolds
<1>5. \A s \in rows : s.created <= tx[t].ts
  <2>1. \A s \in rows : \E old \in subs : s.created = old.created
    BY <1>1 DEF Renewed
  <2>2. \A old \in subs : old.created < tx[t].ts /\ old.created \in Nat
    BY <1>3 DEF StillHolds, TypeOK, Rows
  <2> QED BY <2>1, <2>2, <1>2
<1>6. \A s \in Active' : s = row
  BY <1>1, <1>4 DEF Active
<1> QED BY <1>1, <1>2, <1>5, <1>6

\* Every step keeps what running transactions have read, or raced.
LEMMA UndisturbedStep ==
    ASSUME TypeOK, OrderInv, StampInv, UndisturbedInv, [Next]_vars
    PROVE  UndisturbedInv'
<1>a. ASSUME NEW t \in Transactions, subs' = subs, ~raced PROVE Active' = Active /\ StillHolds(t)
  BY <1>a DEF Active, UndisturbedInv
<1>1. CASE UNCHANGED <<tx, subs, raced>>
  BY <1>1 DEF UndisturbedInv, StillHolds, Active, Running, At
<1>b. ASSUME TypeOK, StampInv, NEW t \in Transactions, subs' = subs, tx'[t].ts = clock + 1 
      PROVE  \A s \in subs' : s.created < tx'[t].ts
  <2>1. \A s \in subs : s.created \in Nat /\ s.created <= clock /\ clock \in Nat
    BY DEF TypeOK, Rows, StampInv
  <2> QED BY <1>b, <2>1
<1>3. ASSUME NEW h \in Handlers, Receive(h) PROVE UndisturbedInv'
  <2>1. h \in Transactions /\ Moves(h) /\ tx'[h].pc = "begin" /\ UNCHANGED <<subs, raced>>
    BY <1>3, ReceiveMoves, Constants DEF Receive
  <2>2. \A s \in subs' : s.created < tx'[h].ts
    BY <1>3, <1>b, <2>1, ReceiveMoves
  <2>3. StillHolds(h)'
    BY <2>1, <2>2 DEF StillHolds, At, HoldsCode
  <2> QED BY <2>1, <2>3, UndisturbedKept
<1>4. ASSUME NEW h \in Handlers, LockOrder(h) PROVE UndisturbedInv'
  <2>1. h \in Transactions /\ Moves(h) /\ tx[h].pc = "begin" /\ UNCHANGED <<subs, raced>>
    BY <1>4, LockOrderMoves, Constants DEF LockOrder
  <2>2. tx'[h].pc = "idle" \/ (tx'[h].pc \in Kinds /\ tx'[h].ts = tx[h].ts)
    BY <1>4, LockOrderMoves
  <2>3. ~raced => StillHolds(h)'
    BY <2>1, <2>2, <1>a DEF StillHolds, At, HoldsCode, Kinds, Running
  <2> QED BY <2>1, <2>3, UndisturbedKept
<1>5. ASSUME NEW h \in Handlers, ReadSubscription(h) PROVE UndisturbedInv'
  <2>1. h \in Transactions /\ Moves(h) /\ tx[h].pc = "plan" /\ UNCHANGED <<subs, raced>>
        /\ tx'[h].pc = "match" /\ tx'[h].ts = tx[h].ts /\ tx'[h].ends = Base + Period
    BY <1>5, ReadMoves, Constants DEF ReadSubscription
  <2>2. Base \in Nat /\ Period \in Nat
    BY BaseTyped, Constants DEF TypeOK
  <2>3. ASSUME ~raced PROVE StillHolds(h)'
    <3>1. Active' = Active /\ StillHolds(h) /\ Running(h)
      BY <2>1, <2>3, <1>a DEF Running
    <3>2. \A s \in Active : s.ends # Never => s.ends \in Nat /\ Base >= s.ends
      BY <2>3, BaseKeeps DEF Active, TypeOK, Rows
    <3>3. tx'[h].ends \in Nat /\ \A s \in Active' : s.ends # Never => tx'[h].ends >= s.ends + Period
      <4> HIDE DEF Base
      <4> QED BY <2>1, <2>2, <3>1, <3>2
    <3> QED BY <2>1, <3>1, <3>3 DEF StillHolds, At
  <2> QED BY <2>1, <2>3, UndisturbedKept
<1>6. ASSUME NEW t \in Transactions, MatchActive(t) PROVE UndisturbedInv'
  <2>1. Moves(t) /\ tx[t].pc = "match" /\ UNCHANGED <<subs, raced>>
        /\ tx'[t].pc = "expire" /\ tx'[t].ts = tx[t].ts /\ tx'[t].ends = tx[t].ends
        /\ tx'[t].matched = {s.created : s \in Active}
    BY <1>6, MatchMoves DEF MatchActive
  <2>2. ~raced => StillHolds(t)'
    BY <2>1, <1>a DEF StillHolds, At, HoldsCode, Running
  <2> QED BY <2>1, <2>2, UndisturbedKept
<1>7. ASSUME NEW t \in Transactions, ExpireActive(t) PROVE UndisturbedInv'
  <2>1. Moves(t) /\ tx[t].pc = "expire" /\ UNCHANGED <<subs, raced>>
        /\ tx'[t].pc = "insert" /\ tx'[t].ts = tx[t].ts /\ tx'[t].ends = tx[t].ends
        /\ tx'[t].expiring = {s.created : s \in Active} \cap tx[t].matched
    BY <1>7, ExpireMoves DEF ExpireActive
  <2>2. ~raced => StillHolds(t)'
    BY <2>1, <1>a DEF StillHolds, At, HoldsCode, Running
  <2> QED BY <2>1, <2>2, UndisturbedKept
<1>c. ASSUME NEW t \in Replacers, t \in Transactions, At(t, "insert"), NEW source \in Sources,
             Moves(t), ~Running(t)', subs' = Replace(subs, t, source), raced' = Raced(t)
      PROVE  UndisturbedInv'
  <2>1. CASE raced'
    BY <2>1 DEF UndisturbedInv
  <2>2. CASE ~raced'
    <3>1. ~raced /\ \A u \in Transactions \ {t} : ~ Running(u)
      BY <1>c, <2>2 DEF Raced, TypeOK
    <3>2. \A s \in Active', other \in subs' : other.created <= s.created
      BY <1>c, <3>1, ReplacedLatest
    <3> QED BY <1>c, <3>1, <3>2, UndisturbedAlone
  <2> QED BY <2>1, <2>2
<1>8. ASSUME NEW h \in Handlers, CommitPlan(h) PROVE UndisturbedInv'
  <2>1. Moves(h) /\ ~Running(h)' /\ At(h, "insert") /\ raced' = Raced(h)
    BY <1>8, FinishMoves DEF CommitPlan, Running
  <2>2. tx[h].order \in Sources /\ subs' = Replace(subs, h, tx[h].order)
    BY <1>8 DEF CommitPlan, At, OrderInv, HoldsOrder, Sources
  <2>3. h \in Replacers /\ h \in Transactions
    BY Constants DEF Replacers
  <2> QED BY <2>1, <2>2, <2>3, <1>c
<1>9. ASSUME NEW t \in Transactions, Moves(t), ~Running(t)', UNCHANGED <<subs, raced>> PROVE UndisturbedInv'
  <2>1. StillHolds(t)'
    BY <1>9 DEF StillHolds, At, HoldsCode, Running
  <2> QED BY <1>9, <2>1, UndisturbedKept
<1>10. ASSUME NEW h \in Handlers, CommitRecharge(h) PROVE UndisturbedInv'
  BY <1>10, <1>9, FinishMoves, Constants DEF CommitRecharge, Running
<1>11. ASSUME NEW c \in Claimers, BeginClaim(c) PROVE UndisturbedInv'
  <2>1. c \in Transactions /\ Moves(c) /\ tx'[c].pc = "claim" /\ UNCHANGED <<subs, raced>>
    BY <1>11, BeginClaimMoves, Constants DEF BeginClaim
  <2>2. \A s \in subs' : s.created < tx'[c].ts
    BY <1>11, <1>b, <2>1, BeginClaimMoves
  <2>3. StillHolds(c)'
    BY <2>1, <2>2 DEF StillHolds, At, HoldsCode
  <2> QED BY <2>1, <2>3, UndisturbedKept
<1>12. ASSUME NEW c \in Claimers, LockCode(c) PROVE UndisturbedInv'
  <2>1. c \in Transactions /\ c \notin Handlers /\ Moves(c) /\ tx[c].pc = "claim" /\ UNCHANGED <<subs, raced>>
    BY <1>12, LockCodeMoves, Constants DEF LockCode
  <2>2. \/ tx'[c].pc = "done"
        \/ tx'[c].pc = (IF c = User THEN "match" ELSE "insert") /\ tx'[c].ts = tx[c].ts
    BY <1>12, LockCodeMoves
  <2>3. ~raced => StillHolds(c)'
    BY <2>1, <2>2, <1>a DEF StillHolds, At, HoldsCode, Running, Replacers
  <2> QED BY <2>1, <2>3, UndisturbedKept
<1>13. ASSUME NEW c \in Claimers, CommitClaim(c) PROVE UndisturbedInv'
  <2>1. Moves(c) /\ ~Running(c)' /\ At(c, "insert") /\ c \in Transactions
    BY <1>13, CommitClaimMoves, Constants DEF CommitClaim, Running
  <2>2. CASE c = User
    BY <1>13, <2>1, <2>2, <1>c DEF CommitClaim, Sources, Replacers
  <2>3. CASE c # User
    BY <1>13, <2>1, <2>3, <1>9 DEF CommitClaim
  <2> QED BY <2>2, <2>3
<1>14. ASSUME NEW t \in Transactions, Rollback(t) PROVE UndisturbedInv'
  <2>1. Moves(t) /\ tx'[t].pc = (IF t \in Handlers THEN "idle" ELSE "done")
    BY <1>14, RollbackMoves
  <2>2. ~ Running(t)' /\ UNCHANGED <<subs, raced>>
    BY <1>14, <2>1 DEF Rollback, Running
  <2> QED BY <2>1, <2>2, <1>9
<1>15. CASE ExpireDue
  <2>1. CASE raced'
    BY <2>1 DEF UndisturbedInv
  <2>2. CASE ~raced'
    <3>1. ~raced /\ tx' = tx /\ \A u \in Transactions : ~ Running(u)
      BY <1>15, <2>2 DEF ExpireDue, TypeOK
    <3>2. Renewed(subs') /\ \A s \in subs' : s.status = "active" => s \in Active
      BY <1>15, DueRows
    <3>3. \A s \in Active', other \in subs' : other.created <= s.created
      BY <3>1, <3>2 DEF Renewed, Active, UndisturbedInv
    <3>4. \A u \in Transactions : StillHolds(u)'
      BY <3>1 DEF StillHolds, Running, At, HoldsCode
    <3> QED BY <3>3, <3>4 DEF UndisturbedInv
  <2> QED BY <2>1, <2>2
<1> QED
  BY <1>1, <1>3, <1>4, <1>5, <1>6, <1>7, <1>8, <1>10, <1>11, <1>12, <1>13, <1>14, <1>15, StepCases
  DEF CreateOrder, UpdateOrder, ExpireCode, Tick, vars

-----------------------------------------------------------------------------
\* The invariant holds initially.
LEMMA InvInit == Init => IInv
<1> SUFFICES ASSUME Init PROVE IInv
  OBVIOUS
<1>1. Signup \in Rows
  BY DEF Signup, Rows, Sources
<1>2. \A t \in Transactions : tx[t] = Idle /\ tx[t].pc = "idle" /\ ~Running(t)
  BY IdleTyped DEF Init, Running
<1>3. TypeOK
  <2>1. [kind |-> "plan", status |-> "none"] \in OrderRows
    BY DEF OrderRows, Kinds
  <2>2. IsFiniteSet(subs) /\ IsFiniteSet(claimed)
    BY FS_Singleton, FS_EmptySet DEF Init
  <2>3. tx \in [Transactions -> States]
    BY IdleTyped DEF Init
  <2>4. /\ \A h \in Handlers : tx[h].pc \in HandlerLabels
        /\ \A c \in Claimers : tx[c].pc \in ClaimLabels
    BY <1>2, Constants DEF HandlerLabels, ClaimLabels
  <2>5. subs \in SUBSET Rows /\ claimed \in SUBSET Claimers
    BY <1>1 DEF Init
  <2>6. /\ orders \in [Orders -> OrderRows] /\ orderLock \in [Orders -> Handlers \cup {Free}]
        /\ recharges \in [Orders -> Nat] /\ regressed \in [Orders -> Nat]
    BY <2>1 DEF Init
  <2>7. /\ now \in Nat /\ clock \in Nat /\ remaining \in Nat
        /\ codeLock \in Claimers \cup {Free} /\ codeActive \in BOOLEAN
        /\ deliveries \in Nat /\ faults \in Nat /\ raced \in BOOLEAN
    BY Constants DEF Init
  <2> QED BY <2>2, <2>3, <2>4, <2>5, <2>6, <2>7 DEF TypeOK
<1>4. OrderInv
  BY <1>2, Constants DEF Init, OrderInv, HoldsOrder
<1>5. CodeInv
  BY <1>2, Constants DEF Init, CodeInv, HoldsCode
<1>6. StampInv
  BY <1>2 DEF Init, StampInv, Signup
<1>7. DeliveredInv
  <2>1. ASSUME NEW o \in Orders
        PROVE  {s \in subs : s.source = o} = {} /\ recharges[o] = 0 /\ regressed[o] = 0
               /\ orders[o].status = "none"
    BY Constants DEF Init, Signup
  <2>2. ASSUME NEW o \in Orders PROVE Fulfilments(o) = 0
    BY <2>1, FS_EmptySet DEF Fulfilments
  <2> QED BY <2>1, <2>2 DEF DeliveredInv
<1>8. RedeemNotOversold
  BY FS_EmptySet, Constants DEF Init, RedeemNotOversold
<1>9. UndisturbedInv
  <2>1. \A s, other \in subs : other.created <= s.created
    BY DEF Init, Signup
  <2>2. \A t \in Transactions : StillHolds(t)
    BY <1>2 DEF StillHolds, At, HoldsCode
  <2> QED BY <2>1, <2>2 DEF UndisturbedInv, Active
<1> QED BY <1>3, <1>4, <1>5, <1>6, <1>7, <1>8, <1>9 DEF IInv

\* Every step keeps the invariant.
LEMMA InvStep == IInv /\ [Next]_vars => IInv'
BY TypeStep, OrderStep, CodeStep, StampStep, DeliveredStep, RedeemStep, UndisturbedStep DEF IInv

\* IInv is an invariant, for any orders, callbacks, claimers, uses and bounds.
THEOREM BillingInvariant == Spec => []IInv
<1> QED BY InvInit, InvStep, PTL DEF Spec

\* Every variable keeps its type; remaining_uses never falls below zero.
THEOREM TypeCorrect == Spec => []TypeOK
<1>1. IInv => TypeOK
  BY DEF IInv
<1> QED BY <1>1, BillingInvariant, PTL

\* The count of deliveries bounds them on both sides.
LEMMA InvDelivers == IInv => FulfilledOnce
<1> SUFFICES ASSUME IInv, NEW o \in Orders
             PROVE  /\ Fulfilments(o) <= 1 + regressed[o]
                    /\ orders[o].status = "succeeded" => Fulfilments(o) >= 1
  BY DEF FulfilledOnce
<1>1. Fulfilments(o) \in Nat /\ regressed[o] \in Nat
  BY FulfilmentsTyped DEF IInv, TypeOK
<1> QED BY <1>1 DEF IInv, DeliveredInv

\* Callbacks deliver an order once, but for those that took it out of
\* "succeeded", and an order that says so was delivered.
THEOREM OrderDeliveredOnce == Spec => []FulfilledOnce
<1> QED BY InvDelivers, BillingInvariant, PTL

\* The code is claimed by exactly as many users as uses are gone.
THEOREM CodeNotOversold == Spec => []RedeemNotOversold
<1>1. IInv => RedeemNotOversold
  BY DEF IInv
<1> QED BY <1>1, BillingInvariant, PTL

\* An active row that nothing is younger than is the latest.
LEMMA InvLatest == IInv => OnlyLatestActive
<1> SUFFICES ASSUME IInv, ~raced, NEW s \in Active PROVE s = Latest(subs)
  BY DEF OnlyLatestActive
<1>1. s \in subs /\ \A other \in subs : other.created <= s.created
  BY DEF IInv, UndisturbedInv, Active
<1>2. /\ subs \in SUBSET Rows /\ clock \in Nat /\ \A other \in subs : other.created <= clock
      /\ \A r, other \in subs : r.created = other.created => r = other
  BY DEF IInv, TypeOK, StampInv
<1>3. Latest(subs) \in subs /\ s.created <= Latest(subs).created
  BY <1>1, <1>2, LatestExists
<1>4. s.created = Latest(subs).created
  BY <1>1, <1>2, <1>3 DEF Rows
<1> QED BY <1>1, <1>2, <1>3, <1>4

\* Unless a change of subscriptions fell into another transaction, only the
\* latest subscription is active.
THEOREM LatestIsActive == Spec => []OnlyLatestActive
<1> QED BY InvLatest, BillingInvariant, PTL

\* A row that refers to an order is new only when its callback commits, and
\* that callback still knows what was left.
LEMMA PaidTimeStep ==
    ASSUME IInv, IInv', [Next]_vars, ~raced'
    PROVE  \A s \in subs' :
               s.source \in Orders /\ s.created \notin {old.created : old \in subs} =>
                   \A old \in Active : old.ends # Never => s.ends >= old.ends + Period
<1> SUFFICES ASSUME NEW s \in subs', s.source \in Orders, \A old \in subs : s.created # old.created
             PROVE  \A old \in Active : old.ends # Never => s.ends >= old.ends + Period
  OBVIOUS
<1>0. TypeOK /\ OrderInv /\ StampInv /\ UndisturbedInv
  BY DEF IInv
<1>1. CASE subs' = subs
  BY <1>1
<1>2. ASSUME NEW t \in Transactions, NEW source \in Sources, subs' = Replace(subs, t, source)
      PROVE  s.source = source /\ s.ends = tx[t].ends
  <2>1. PICK rows, row :
            /\ subs' = rows \cup {row}
            /\ Renewed(rows)
            /\ row = [created |-> tx[t].ts, ends |-> tx[t].ends, status |-> "active", source |-> source]
    BY <1>0, <1>2, ReplaceRows
  <2>2. s \notin rows
    BY <2>1 DEF Renewed
  <2> QED BY <2>1, <2>2
<1>3. ASSUME NEW h \in Handlers, CommitPlan(h)
      PROVE  \A old \in Active : old.ends # Never => s.ends >= old.ends + Period
  <2>1. tx[h].pc = "insert" /\ h \in Transactions /\ ~raced
    BY <1>0, <1>3, Constants DEF CommitPlan, At, Raced, TypeOK
  <2>2. tx[h].order \in Sources /\ subs' = Replace(subs, h, tx[h].order)
    BY <1>0, <1>3 DEF CommitPlan, At, OrderInv, HoldsOrder, Sources
  <2>3. s.ends = tx[h].ends
    BY <1>2, <2>1, <2>2
  <2>4. StillHolds(h)
    BY <1>0, <2>1 DEF UndisturbedInv
  <2> QED BY <2>1, <2>3, <2>4 DEF StillHolds, HoldsCode
<1>4. ASSUME NEW c \in Claimers, CommitClaim(c) PROVE FALSE
  <2>1. subs' = subs \/ subs' = Replace(subs, c, "redeem")
    BY <1>4 DEF CommitClaim
  <2>2. subs' # subs
    OBVIOUS
  <2>3. s.source = "redeem"
    BY <1>2, <2>1, <2>2, Constants DEF Sources
  <2> QED BY <2>3, Constants
<1>5. CASE ExpireDue
  BY <1>0, <1>5, DueRows DEF Renewed
<1> QED
  BY <1>1, <1>3, <1>4, <1>5, StepCases
  DEF CreateOrder, UpdateOrder, Receive, LockOrder, ReadSubscription, MatchActive, ExpireActive,
      CommitRecharge, BeginClaim, LockCode, Rollback, ExpireCode, Tick, vars

\* Unless so, a payment adds a full period to the time that was left.
THEOREM PaidTimeIsKept == Spec => PaidTimeKept
<1>1. IInv /\ IInv' /\ [Next]_vars =>
          [~raced' =>
              \A s \in subs' :
                  s.source \in Orders /\ s.created \notin {old.created : old \in subs} =>
                      \A old \in Active : old.ends # Never => s.ends >= old.ends + Period]_vars
  BY PaidTimeStep
<1> QED BY <1>1, BillingInvariant, PTL DEF Spec, PaidTimeKept

===============================================================================
