------------------------- MODULE QuotaLedger_proofs -------------------------
(***************************************************************************)
(* WindowQuota, ModelLimitExceededOnlyByRace, OutcomeIsCharged and         *)
(* BalanceIsSum for any requests, payments, plans, limits and bounds.      *)
(*   - A request has at most one usage and one refund (LedgerInv), so rows *)
(*     can be counted by their references, and "spent and not given back"  *)
(*     and "given back outside the window" differ by exactly as much as    *)
(*     all usages of the window and all refunds do (Differences).          *)
(*     WindowQuota then says what WindowInv says, which is inductive:      *)
(*     whoever charges holds the lock, and what it has read is still so.   *)
(*   - The limit on the model is not: it is kept for every set of charges  *)
(*     of which each two know of each other (ModelInv).                    *)
(* A step is seen by the invariants through what it does to one request or *)
(* payment (Program, PaymentProgram) and to the rows (StepCommits,         *)
(* CountsStep).                                                            *)
(***************************************************************************)
EXTENDS QuotaLedger, FiniteSetTheorems, TLAPS

RequestLabels == InTransaction \cup Ended
    \cup {"new", "admitted", "resolved", "allowed", "upstream", "streaming", "failed"}
RequestStates ==
    [pc : RequestLabels, ways : SUBSET Ways, metered : BOOLEAN, name : Names,
     since : Nat, seen : SUBSET Requests, ts : Nat, used : Nat, current : Int]
PaymentStates == [pc : {"new", "begun", "read", "done"}, ts : Nat, current : Int]
LedgerRows ==
    [created : Nat, type : {"usage", "refund", "recharge"},
     ref : Requests \cup Payments, model : Names \cup {"none"}, balance : Int]

\* Every variable holds a value the code can store in it.
TypeOK ==
    /\ clock \in Nat
    /\ credits \in Nat
    /\ windowStart \in Nat
    /\ ledger \in Seq(LedgerRows)
    /\ lock \in Requests \cup {Free}
    /\ req \in [Requests -> RequestStates]
    /\ pay \in [Payments -> PaymentStates]
    /\ resets \in Nat
    /\ faults \in Nat
    /\ raced \in BOOLEAN

\* The rows of a request: one usage at most, one refund at most, which has a
\* usage, under the name the request gave; the query for the latest row
\* finds one.
LedgerInv ==
    /\ \A row, other \in Committed :
          row.type = other.type /\ row.ref = other.ref => row = other
    /\ \A row \in Committed :
          /\ row.type = "recharge" => row.ref \in Payments /\ pay[row.ref].pc = "done"
          /\ row.type # "recharge" =>
                row.ref \in Requests /\ row.model = req[row.ref].name
          /\ row.type = "refund" => Charged(row.ref)
    /\ ledger # <<>> =>
          \E row \in Committed : \A other \in Committed : other.created <= row.created

TimeInv ==
    /\ windowStart <= clock
    /\ \A r \in Requests : req[r].since <= windowStart /\ req[r].ts <= clock
    /\ \A p \in Payments : pay[p].ts <= clock
    /\ \A row \in Committed : row.created <= clock

BeforeCharge ==
    {"new", "admitted", "resolved", "allowed", "charging", "charge", "denied"}
OfSession ==
    {"admitted", "resolved", "allowed", "charging", "charge", "failed",
     "refunding", "refund"}

Refunded(r) == r \in Refs(Of("refund", 0))

\* Whoever holds the lock has read what is still there.
ControlInv ==
    \A r \in Requests :
        /\ req[r].pc \in {"charge", "refund"} =>
              /\ lock = r
              /\ req[r].used = UsageSince(req[r].since)
              /\ req[r].current = CurrentBalance
        /\ req[r].pc \in BeforeCharge => ~Charged(r)
        /\ req[r].pc \in OfSession => req[r].metered
        /\ Charged(r) => req[r].metered

OutcomeInv ==
    faults = 0 =>
        \A r \in Requests :
            /\ req[r].pc \in {"upstream", "streaming", "answered", "cut"} =>
                  (Charged(r) <=> req[r].metered) /\ ~Refunded(r)
            /\ req[r].pc \in {"failed", "refunding", "refund"} =>
                  Charged(r) /\ ~Refunded(r)
            /\ req[r].pc = "refunded" => Refunded(r)
            /\ req[r].pc = "error" => ~Charged(r)
            /\ req[r].pc \notin {"unrefunded", "crashed"}

WindowInv ==
    Cardinality(Of("usage", windowStart)) <= credits + Cardinality(Of("refund", 0))

UsedRefs == Refs(Of("usage", windowStart))
RefundedRefs == Refs(Of("refund", 0))
SlugSpent ==
    Refs({row \in Of("usage", windowStart) : row.model = "slug"}) \ RefundedRefs
Older == RefundedRefs \ UsedRefs

ModelInv ==
    /\ \A r \in Requests :
          /\ \A s \in req[r].seen : Charged(s)
          /\ req[r].pc \in {"allowed", "charging", "charge"} =>
                Cardinality(SlugSpent \cap req[r].seen) < ModelLimit + Cardinality(Older)
    /\ \A refs \in SUBSET SlugSpent :
          Cardinality(refs) > ModelLimit + Cardinality(Older) =>
              \E r, s \in refs :
                  r # s /\ r \notin req[s].seen /\ s \notin req[r].seen

BalanceInv ==
    ~raced =>
        /\ CommittedInOrder => CurrentBalance = Recharged - Sum
        /\ \A p \in Payments : pay[p].pc = "read" => pay[p].current = CurrentBalance

IInv ==
    /\ TypeOK
    /\ LedgerInv
    /\ TimeInv
    /\ ControlInv
    /\ OutcomeInv
    /\ WindowInv
    /\ ModelInv
    /\ BalanceInv
-----------------------------------------------------------------------------
(* Sets of rows.                                                           *)

\* The committed rows, and what a commit adds to them.
LEMMA CommittedRows ==
    ASSUME NEW S, ledger \in Seq(S)
    PROVE  Committed \subseteq S /\ IsFiniteSet(Committed)
<1>1. Len(ledger) \in Nat /\ ledger \in [1..Len(ledger) -> S] /\ DOMAIN ledger = 1..Len(ledger)
  OBVIOUS
<1>2. IsFiniteSet(1..Len(ledger))
  BY <1>1, FS_Interval
<1>3. ledger \in Surjection(1..Len(ledger), Committed)
  BY <1>1 DEF Surjection, Committed, ToSet
<1> QED BY <1>1, <1>2, <1>3, FS_Surjection DEF Committed, ToSet

\* A commit adds its row and nothing else.
LEMMA CommitAdds ==
    ASSUME NEW S, ledger \in Seq(S), NEW row \in S, ledger' = Append(ledger, row)
    PROVE  /\ ledger' \in Seq(S) /\ ledger' # <<>>
           /\ Committed' = Committed \cup {row}
<1>1. /\ ledger' \in Seq(S) /\ Len(ledger) \in Nat /\ Len(ledger') = Len(ledger) + 1
      /\ DOMAIN ledger = 1..Len(ledger) /\ DOMAIN ledger' = 1..Len(ledger')
      /\ ledger'[Len(ledger) + 1] = row
      /\ \A i \in 1..Len(ledger) : ledger'[i] = ledger[i]
  OBVIOUS
<1>2. ledger' # <<>>
  BY <1>1
<1>3. Committed' = {ledger'[i] : i \in 1..Len(ledger')}
  BY <1>1 DEF Committed, ToSet
<1>4. Committed = {ledger[i] : i \in 1..Len(ledger)}
  BY <1>1 DEF Committed, ToSet
<1>5. 1..Len(ledger') = 1..Len(ledger) \cup {Len(ledger) + 1}
  BY <1>1
<1> QED BY <1>1, <1>2, <1>3, <1>4, <1>5

\* A sequence that has grown is another one.
LEMMA AppendDiffers ==
    ASSUME NEW S, NEW s \in Seq(S), NEW x \in S
    PROVE  Append(s, x) # s
<1>1. Len(Append(s, x)) = Len(s) + 1 /\ Len(s) \in Nat
  OBVIOUS
<1>2. \A n \in Nat : n + 1 # n
  OBVIOUS
<1> QED BY <1>1, <1>2

\* Rows that differ in their reference are as many as their references.
LEMMA RefsCount ==
    ASSUME NEW X, IsFiniteSet(X), \A row, other \in X : row.ref = other.ref => row = other
    PROVE  IsFiniteSet(Refs(X)) /\ Cardinality(Refs(X)) = Cardinality(X)
<1> DEFINE f == [row \in X |-> row.ref]
<1>1. f \in [X -> Refs(X)]
  BY DEF Refs
<1>2. \A ref \in Refs(X) : \E row \in X : f[row] = ref
  BY DEF Refs
<1>3. \A row, other \in X : f[row] = f[other] => row = other
  OBVIOUS
<1> HIDE DEF f
<1>4. f \in Injection(X, Refs(X))
  BY <1>1, <1>3 DEF Injection, IsInjective
<1>5. f \in Surjection(X, Refs(X))
  BY <1>1, <1>2 DEF Surjection
<1>6. f \in Bijection(X, Refs(X))
  BY <1>4, <1>5 DEF Bijection
<1> QED BY <1>6, FS_Bijection DEF ExistsBijection

\* Of two sets, what only one has and what only the other has differ by as
\* much as the sets.
LEMMA Differences ==
    ASSUME NEW A, NEW B, IsFiniteSet(A), IsFiniteSet(B)
    PROVE  /\ IsFiniteSet(A \ B) /\ IsFiniteSet(B \ A)
           /\ {Cardinality(A), Cardinality(B), Cardinality(A \ B), Cardinality(B \ A)}
                  \subseteq Nat
           /\ Cardinality(A \ B) + Cardinality(B) = Cardinality(B \ A) + Cardinality(A)
<1>1. A \cap B = B \cap A
  OBVIOUS
<1>2. /\ Cardinality(A) \in Nat /\ Cardinality(B) \in Nat
      /\ Cardinality(A \cap B) \in Nat
  BY FS_CardinalityType, FS_Intersection
<1>3. /\ IsFiniteSet(A \ B) /\ IsFiniteSet(B \ A)
      /\ Cardinality(A \ B) = Cardinality(A) - Cardinality(A \cap B)
      /\ Cardinality(B \ A) = Cardinality(B) - Cardinality(A \cap B)
  BY <1>1, FS_Difference
<1>4. Cardinality(A \ B) \in Nat /\ Cardinality(B \ A) \in Nat
  BY <1>3, FS_CardinalityType
<1> QED BY <1>2, <1>3, <1>4

\* A part of a finite set is finite and no larger.
LEMMA SubsetCount ==
    ASSUME NEW S, IsFiniteSet(S), NEW T \in SUBSET S
    PROVE  /\ IsFiniteSet(T)
           /\ Cardinality(T) \in Nat /\ Cardinality(S) \in Nat
           /\ Cardinality(T) <= Cardinality(S)
BY FS_Subset, FS_CardinalityType

\* The sets of rows the queries count are finite.
LEMMA CountedRows ==
    ASSUME TypeOK, NEW type, NEW since
    PROVE  IsFiniteSet(Of(type, since)) /\ Cardinality(Of(type, since)) \in Nat
<1>1. IsFiniteSet(Committed)
  BY CommittedRows DEF TypeOK
<1> QED BY <1>1, SubsetCount DEF Of

\* What the reservation reads: usage of the window less its refunds.
LEMMA UsageCount ==
    ASSUME TypeOK, NEW since
    PROVE  UsageSince(since) =
               AtLeastZero(Cardinality(Of("usage", since)) - Cardinality(Of("refund", since)))
<1>1. {row \in Of("usage", since) \cup Of("refund", since) : row.type = "usage"}
          = Of("usage", since)
  BY DEF Of
<1>2. {row \in Of("usage", since) \cup Of("refund", since) : row.type = "refund"}
          = Of("refund", since)
  BY DEF Of
<1> QED BY <1>1, <1>2 DEF UsageSince, Net

\* What a transaction reads is a number.
LEMMA QueriesTyped ==
    ASSUME TypeOK, LedgerInv
    PROVE  /\ CurrentBalance \in Int
           /\ \A since : UsageSince(since) \in Nat
<1>1. Committed \subseteq LedgerRows
  BY CommittedRows DEF TypeOK
<1>2. CurrentBalance \in Int
  BY <1>1 DEF CurrentBalance, LedgerInv, LedgerRows
<1>3. ASSUME NEW since PROVE UsageSince(since) \in Nat
  <2>1. /\ Cardinality(Of("usage", since)) \in Nat
        /\ Cardinality(Of("refund", since)) \in Nat
    BY CountedRows
  <2> QED BY <2>1, UsageCount DEF AtLeastZero
<1> QED BY <1>2, <1>3

-----------------------------------------------------------------------------
(* Types.                                                                  *)

\* A request moves itself only.
Moves(r) == \E state \in RequestStates : req' = [req EXCEPT ![r] = state]

\* A step of a request moves itself, and keeps it one of the states a
\* request can be in.
LEMMA RequestMoves ==
    ASSUME TypeOK, LedgerInv, NEW r \in Requests, RequestStep(r)
    PROVE  Moves(r)
<1>1. /\ req \in [Requests -> RequestStates] /\ req[r] \in RequestStates
      /\ windowStart \in Nat /\ clock \in Nat
  BY DEF TypeOK
<1>2. CurrentBalance \in Int /\ UsageSince(req[r].since) \in Nat
  BY QueriesTyped
<1>3. ASSUME NEW label \in RequestLabels, Goto(r, label) PROVE Moves(r)
  <2>1. [req[r] EXCEPT !.pc = label] \in RequestStates
    BY <1>1 DEF RequestStates
  <2> QED BY <1>3, <2>1 DEF Goto, Moves
<1>4. ASSUME NEW label \in RequestLabels, EndTransaction(r, label) PROVE Moves(r)
  <2>1. [req[r] EXCEPT !.pc = label, !.since = 0, !.ts = 0, !.used = 0, !.current = 0]
            \in RequestStates
    <3>1. req[r] \in RequestStates /\ 0 \in Nat /\ 0 \in Int
      BY <1>1
    <3>2. [req[r] EXCEPT !.pc = label, !.since = 0, !.ts = 0] \in RequestStates
      BY <3>1 DEF RequestStates
    <3> DEFINE half == [req[r] EXCEPT !.pc = label, !.since = 0, !.ts = 0]
    <3>3. [half EXCEPT !.used = 0, !.current = 0] \in RequestStates
      <4> HIDE DEF half
      <4> QED BY <3>1, <3>2 DEF RequestStates, half
    <3> QED BY <3>1, <3>3 DEF RequestStates
  <2> QED BY <1>4, <2>1 DEF EndTransaction, Moves
<1>5. ASSUME NEW label \in RequestLabels, Answered(r, label) PROVE Moves(r)
  <2>1. [req[r] EXCEPT !.pc = label, !.ways = {}] \in RequestStates
    BY <1>1 DEF RequestStates
  <2> QED BY <1>5, <2>1 DEF Answered, Moves
<1>6. ASSUME NEW required, NEW ways \in SUBSET Ways, Admit(r, required, ways) PROVE Moves(r)
  <2>1. PICK principal \in Principals :
            req' = [req EXCEPT ![r] = [@ EXCEPT
                       !.pc = IF principal.metered THEN "admitted" ELSE "upstream",
                       !.metered = principal.metered,
                       !.ways = ways]]
    BY <1>6 DEF Admit
  <2>2. principal.metered \in BOOLEAN
    <3>1. \/ principal = [metered |-> TRUE, scopes |-> {"*"}]
          \/ \E scopes \in SUBSET Scopes : principal = [metered |-> FALSE, scopes |-> scopes]
      BY DEF Principals
    <3>2. principal.metered = TRUE \/ principal.metered = FALSE
      BY <3>1
    <3> QED BY <3>2
  <2>3. [req[r] EXCEPT !.pc = IF principal.metered THEN "admitted" ELSE "upstream",
                       !.metered = principal.metered,
                       !.ways = ways] \in RequestStates
    BY <1>1, <2>2 DEF RequestStates, RequestLabels
  <2> QED BY <2>1, <2>3 DEF Moves
<1>7. ASSUME NEW from, NEW to \in RequestLabels, Begin(r, from, to) PROVE Moves(r)
  <2>1. [req[r] EXCEPT !.pc = to, !.ts = clock + 1] \in RequestStates
    <3>1. clock + 1 \in Nat
      BY <1>1
    <3>2. req[r] \in RequestStates
      BY <1>1
    <3> DEFINE time == clock + 1
    <3> HIDE DEF time
    <3>3. time \in Nat => [req[r] EXCEPT !.pc = to, !.ts = time] \in RequestStates
      BY <3>2 DEF RequestStates
    <3> QED BY <3>1, <3>3 DEF time
  <2>2. req' = [req EXCEPT ![r] = [req[r] EXCEPT !.pc = to, !.ts = clock + 1]]
    BY <1>7, <1>1 DEF Begin
  <2> QED BY <2>1, <2>2 DEF Moves
<1>8. ASSUME NEW from, NEW to \in RequestLabels, LockAndRead(r, from, to) PROVE Moves(r)
  <2>1. [req[r] EXCEPT !.pc = to, !.used = UsageSince(req[r].since),
                       !.current = CurrentBalance] \in RequestStates
    BY <1>1, <1>2 DEF RequestStates
  <2> QED BY <1>8, <2>1 DEF LockAndRead, Moves
<1>9. CASE Resolve(r)
  <2>1. PICK name \in Names :
            req' = [req EXCEPT ![r] = [@ EXCEPT !.pc = "resolved", !.name = name,
                                               !.since = windowStart]]
    BY <1>9 DEF Resolve
  <2>2. [req[r] EXCEPT !.pc = "resolved", !.name = name, !.since = windowStart]
            \in RequestStates
    BY <1>1 DEF RequestStates, RequestLabels
  <2> QED BY <2>1, <2>2 DEF Moves
<1>10. CASE CheckModel(r)
  <2>1. PICK label \in {"allowed", "denied"}, rows \in {ModelRows("slug", req[r].since)} :
            req' = [req EXCEPT ![r] = [@ EXCEPT !.pc = label, !.seen = Refs(rows)]]
    BY <1>10 DEF CheckModel
  <2>2. Refs(rows) \subseteq Requests
    BY DEF Refs, ModelRows, Of, LedgerInv
  <2>3. label \in RequestLabels
    BY DEF RequestLabels, Ended
  <2>4. [req[r] EXCEPT !.pc = label, !.seen = Refs(rows)] \in RequestStates
    BY <1>1, <2>2, <2>3 DEF RequestStates
  <2> QED BY <2>1, <2>4 DEF Moves
<1>11. {"denied", "charging", "charge", "upstream", "error", "answered", "cut", "failed",
        "streaming", "refunding", "refund", "refunded", "unrefunded"} \subseteq RequestLabels
  BY DEF RequestLabels, InTransaction, Ended
<1>12. Ways \in SUBSET Ways /\ {"whole"} \in SUBSET Ways
  BY DEF Ways
<1>13. CASE \/ HandleDeveloperChatCompletion(r) \/ HandleDeveloperResponses(r)
            \/ HandleDeveloperAnthropicMessage(r)
            \/ HandleDeveloperImageGeneration(r) \/ HandleDeveloperImageEdit(r)
  BY <1>6, <1>12, <1>13
     DEF HandleDeveloperChatCompletion, HandleDeveloperResponses,
         HandleDeveloperAnthropicMessage, HandleDeveloperImageGeneration,
         HandleDeveloperImageEdit
<1>14. CASE Reject(r) \/ SendDelta(r)
  BY <1>3, <1>11, <1>14 DEF Reject, SendDelta
<1>15. CASE BeginCharge(r) \/ BeginRefund(r)
  BY <1>7, <1>11, <1>15 DEF BeginCharge, BeginRefund
<1>16. CASE LockCharge(r) \/ LockRefund(r)
  BY <1>8, <1>11, <1>16 DEF LockCharge, LockRefund
<1>17. CASE Refuse(r) \/ Charge(r) \/ Refund(r) \/ Fail(r)
  BY <1>4, <1>11, <1>17 DEF Refuse, Charge, Refund, Fail
<1>18. CASE Generate(r) \/ Relay(r) \/ EndStream(r)
  BY <1>5, <1>11, <1>18 DEF Generate, Relay, EndStream, Failed
<1> QED BY <1>9, <1>10, <1>13, <1>14, <1>15, <1>16, <1>17, <1>18 DEF RequestStep

\* The three commits, and the rows they add.
LEMMA Commits ==
    ASSUME TypeOK, LedgerInv
    PROVE  /\ \A r \in Requests : RequestStep(r) =>
                  \/ UNCHANGED <<ledger, raced>>
                  \/ Charge(r) /\ CommitRow(Row(r, "usage", req[r].current - 1))
                  \/ /\ Refund(r) /\ Refundable(r)
                     /\ CommitRow(Row(r, "refund", req[r].current + 1))
           /\ \A r \in Requests :
                  /\ Row(r, "usage", req[r].current - 1) \in LedgerRows
                  /\ Row(r, "refund", req[r].current + 1) \in LedgerRows
           /\ \A p \in Payments :
                  [created |-> pay[p].ts, type |-> "recharge", ref |-> p,
                   model |-> "none", balance |-> pay[p].current + Amount] \in LedgerRows
<1>1. ASSUME NEW r \in Requests, RequestStep(r), ~Charge(r), ~(Refund(r) /\ Refundable(r))
      PROVE  UNCHANGED <<ledger, raced>>
  BY <1>1 DEF RequestStep, HandleDeveloperChatCompletion, HandleDeveloperResponses,
         HandleDeveloperAnthropicMessage, HandleDeveloperImageGeneration,
         HandleDeveloperImageEdit, Admit, Reject, Resolve, CheckModel, BeginCharge,
         BeginRefund, Begin, LockCharge, LockRefund, LockAndRead, Refuse, Generate,
         Relay, SendDelta, EndStream, Answered, Refund, Fail
<1>2. ASSUME NEW r \in Requests
      PROVE  /\ Row(r, "usage", req[r].current - 1) \in LedgerRows
             /\ Row(r, "refund", req[r].current + 1) \in LedgerRows
  <2>1. req[r] \in RequestStates
    BY DEF TypeOK
  <2> QED BY <2>1 DEF Row, LedgerRows, RequestStates
<1>3. ASSUME NEW p \in Payments
      PROVE  [created |-> pay[p].ts, type |-> "recharge", ref |-> p,
              model |-> "none", balance |-> pay[p].current + Amount] \in LedgerRows
  <2>1. pay[p] \in PaymentStates /\ Amount \in Int
    BY QuotaLedgerAssumption DEF TypeOK
  <2> QED BY <2>1 DEF LedgerRows, PaymentStates
<1> QED BY <1>1, <1>2, <1>3 DEF Charge, Refund

\* A commit keeps the ledger one of rows.
LEMMA CommitTyped ==
    ASSUME TypeOK, NEW row \in LedgerRows, CommitRow(row)
    PROVE  /\ ledger' \in Seq(LedgerRows) /\ ledger' # <<>> /\ ledger' # ledger
           /\ raced' \in BOOLEAN
           /\ Committed' = Committed \cup {row}
BY CommitAdds, AppendDiffers DEF CommitRow, TypeOK

\* The clock and the faults only grow, the plan is the same, the window
\* begins only when one ends.
LEMMA Scalars ==
    ASSUME TypeOK, [Next]_vars
    PROVE  /\ clock' \in Nat /\ clock <= clock'
           /\ credits' = credits
           /\ windowStart' = windowStart \/ (ResetWindow /\ windowStart' = clock + 1)
           /\ resets' \in Nat
           /\ faults' \in Nat /\ faults <= faults'
<1> USE DEF TypeOK
<1>1. ASSUME NEW r \in Requests, RequestStep(r)
      PROVE  /\ clock' \in {clock, clock + 1} /\ UNCHANGED <<credits, windowStart, resets>>
             /\ faults' \in {faults, faults + 1}
  BY <1>1 DEF RequestStep, HandleDeveloperChatCompletion, HandleDeveloperResponses,
         HandleDeveloperAnthropicMessage, HandleDeveloperImageGeneration,
         HandleDeveloperImageEdit, Admit, Reject, Resolve, CheckModel, BeginCharge,
         BeginRefund, Begin, LockCharge, LockRefund, LockAndRead, Refuse, Charge,
         Generate, Relay, SendDelta, EndStream, Answered, Refund, Fail
<1>2. ASSUME NEW p \in Payments, PaymentStep(p)
      PROVE  /\ clock' \in {clock, clock + 1} /\ UNCHANGED <<credits, windowStart, resets>>
             /\ faults' \in {faults, faults + 1}
  BY <1>2 DEF PaymentStep, BeginPayment, ReadPayment, CommitPayment
<1>3. CASE ResetWindow
  <2>1. clock' = clock + 1 /\ windowStart' = clock + 1 /\ resets' = resets + 1
    BY <1>3 DEF ResetWindow
  <2>2. UNCHANGED <<credits, faults>>
    BY <1>3 DEF ResetWindow
  <2>3. clock' \in Nat /\ clock <= clock' /\ resets' \in Nat
    BY <2>1
  <2>4. faults' \in Nat /\ faults <= faults'
    BY <2>2
  <2> QED BY <1>3, <2>1, <2>2, <2>3, <2>4
<1>4. \/ /\ clock' \in {clock, clock + 1} /\ UNCHANGED <<credits, windowStart, resets>>
         /\ faults' \in {faults, faults + 1}
      \/ ResetWindow
  BY <1>1, <1>2 DEF Next, Done, Crash, vars
<1>5. CASE ~ResetWindow
  <2>1. clock' \in {clock, clock + 1} /\ faults' \in {faults, faults + 1}
    BY <1>4, <1>5
  <2>2. UNCHANGED <<credits, windowStart, resets>>
    BY <1>4, <1>5
  <2>3. clock' \in Nat /\ clock <= clock' /\ faults' \in Nat /\ faults <= faults'
    BY <2>1
  <2>4. resets' \in Nat
    BY <2>2
  <2> QED BY <2>2, <2>3, <2>4
<1> QED BY <1>3, <1>5

-----------------------------------------------------------------------------
(* The program of a request, as the invariants see it.                     *)

Pc(r) == req[r].pc
SameBooks == UNCHANGED <<ledger, raced>>

\* What a request keeps once its model has been checked.
Stays(r) ==
    /\ req'[r].name = req[r].name
    /\ req'[r].metered = req[r].metered
    /\ req'[r].seen = req[r].seen

Enters(r) ==
    /\ Pc(r) = "new"
    /\ \/ Pc(r)' = "admitted" /\ req'[r].metered
       \/ Pc(r)' = "upstream" /\ ~req'[r].metered
       \/ Pc(r)' = "denied"
    /\ req'[r].seen = req[r].seen
    /\ SameBooks /\ UNCHANGED <<lock, faults>>

Resolves(r) ==
    /\ Pc(r) = "admitted" /\ Pc(r)' = "resolved"
    /\ req'[r].metered = req[r].metered
    /\ req'[r].seen = req[r].seen
    /\ SameBooks /\ UNCHANGED <<lock, faults>>

Checks(r) ==
    /\ Pc(r) = "resolved" /\ Pc(r)' \in {"allowed", "denied"}
    /\ req'[r].metered = req[r].metered
    /\ req'[r].seen = Refs(ModelRows("slug", req[r].since))
    /\ Pc(r)' = "allowed" =>
          AtLeastZero(Net(ModelRows("slug", req[r].since))) < ModelLimit
    /\ SameBooks /\ UNCHANGED <<lock, faults>>

Begins(r) ==
    /\ \/ Pc(r) = "allowed" /\ Pc(r)' = "charging"
       \/ Pc(r) = "failed" /\ Pc(r)' = "refunding"
    /\ Stays(r) /\ SameBooks /\ UNCHANGED <<lock, faults>>

Locks(r) ==
    /\ \/ Pc(r) = "charging" /\ Pc(r)' = "charge"
       \/ Pc(r) = "refunding" /\ Pc(r)' = "refund"
    /\ lock = Free /\ lock' = r
    /\ req'[r].since = req[r].since
    /\ req'[r].used = UsageSince(req[r].since)
    /\ req'[r].current = CurrentBalance
    /\ Stays(r) /\ SameBooks /\ UNCHANGED faults

Leaves(r) ==
    /\ \/ Pc(r) = "charge" /\ Pc(r)' = "denied"
       \/ Pc(r) = "refund" /\ Pc(r)' = "refunded" /\ ~Refundable(r)
    /\ lock' = Free
    /\ Stays(r) /\ SameBooks /\ UNCHANGED faults

Answers(r) ==
    /\ Pc(r) \in {"upstream", "streaming"}
    /\ Pc(r)' \in {"streaming", "answered", "cut", Failed(r)}
    /\ Stays(r) /\ SameBooks /\ UNCHANGED <<lock, faults>>

Fails(r) ==
    /\ \/ /\ Pc(r) \in {"admitted", "resolved", "charging", "charge"}
          /\ Pc(r)' = "error"
       \/ Pc(r) \in {"refunding", "refund"} /\ Pc(r)' = "unrefunded"
    /\ lock' = IF lock = r THEN Free ELSE lock
    /\ faults' = faults + 1
    /\ Stays(r) /\ SameBooks

Charges(r) ==
    /\ Pc(r) = "charge"
    /\ \/ Pc(r)' = "upstream" /\ UNCHANGED faults
       \/ Pc(r)' = "error" /\ faults' = faults + 1
    /\ req[r].used < credits
    /\ CommitRow(Row(r, "usage", req[r].current - 1))
    /\ lock' = Free
    /\ Stays(r)

GivesBack(r) ==
    /\ Pc(r) = "refund" /\ Pc(r)' = "refunded"
    /\ Refundable(r)
    /\ CommitRow(Row(r, "refund", req[r].current + 1))
    /\ lock' = Free
    /\ Stays(r) /\ UNCHANGED faults

Program(r) ==
    \/ Enters(r) \/ Resolves(r) \/ Checks(r) \/ Begins(r) \/ Locks(r) \/ Leaves(r)
    \/ Answers(r) \/ Fails(r) \/ Charges(r) \/ GivesBack(r)

\* Times are copied from the clock and from the window.
Dated(r) ==
    /\ req'[r].since \in {req[r].since, windowStart, 0}
    /\ req'[r].ts \in {req[r].ts, clock', 0}

\* Every step of a request is one of its program.
LEMMA RequestProgram ==
    ASSUME TypeOK, NEW r \in Requests, RequestStep(r)
    PROVE  /\ Program(r) /\ Dated(r)
           /\ clock' \in {clock, clock + 1}
           /\ UNCHANGED <<credits, windowStart, pay>>
<1>0. req \in [Requests -> RequestStates] /\ req[r] \in RequestStates
  BY DEF TypeOK
<1>1. /\ clock' \in {clock, clock + 1}
      /\ UNCHANGED <<credits, windowStart, pay>>
  BY DEF RequestStep, HandleDeveloperChatCompletion, HandleDeveloperResponses,
         HandleDeveloperAnthropicMessage, HandleDeveloperImageGeneration,
         HandleDeveloperImageEdit, Admit, Reject, Resolve, CheckModel, BeginCharge,
         BeginRefund, Begin, LockCharge, LockRefund, LockAndRead, Refuse, Charge,
         Generate, Relay, SendDelta, EndStream, Answered, Refund, Fail
<1> SUFFICES Program(r) /\ Dated(r)
  BY <1>1
<1>2. ASSUME NEW required, NEW ways, Admit(r, required, ways) PROVE Enters(r) /\ Dated(r)
  <2>1. PICK principal \in Principals :
            req' = [req EXCEPT ![r] = [@ EXCEPT
                       !.pc = IF principal.metered THEN "admitted" ELSE "upstream",
                       !.metered = principal.metered,
                       !.ways = ways]]
    BY <1>2 DEF Admit
  <2>2. /\ req'[r].pc = IF principal.metered THEN "admitted" ELSE "upstream"
        /\ req'[r].metered = principal.metered
        /\ req'[r].seen = req[r].seen
        /\ req'[r].since = req[r].since
        /\ req'[r].ts = req[r].ts
    BY <1>0, <2>1 DEF RequestStates
  <2>3. req[r].pc = "new" /\ UNCHANGED <<ledger, raced, lock, faults>>
    BY <1>2 DEF Admit, At
  <2> QED BY <2>2, <2>3 DEF Enters, Dated, Pc, SameBooks
<1>3. CASE Reject(r)
  <2>1. req'[r] = [req[r] EXCEPT !.pc = "denied"]
    BY <1>0, <1>3 DEF Reject, Goto
  <2>2. /\ req'[r].pc = "denied" /\ req'[r].seen = req[r].seen
        /\ req'[r].since = req[r].since /\ req'[r].ts = req[r].ts
    BY <1>0, <2>1 DEF RequestStates
  <2> QED BY <1>3, <2>2 DEF Reject, At, Program, Enters, Dated, Pc, SameBooks
<1>4. CASE Resolve(r)
  <2>1. PICK name \in Names : req'[r] = [req[r] EXCEPT !.pc = "resolved", !.name = name,
                                                     !.since = windowStart]
    BY <1>0, <1>4 DEF Resolve
  <2>2. /\ req'[r].pc = "resolved" /\ req'[r].seen = req[r].seen
        /\ req'[r].metered = req[r].metered
        /\ req'[r].since = windowStart /\ req'[r].ts = req[r].ts
    BY <1>0, <2>1 DEF RequestStates
  <2> QED BY <1>4, <2>2 DEF Resolve, At, Program, Resolves, Dated, Pc, SameBooks
<1>5. CASE CheckModel(r)
  <2> DEFINE rows == ModelRows("slug", req[r].since)
  <2>1. PICK label \in {"allowed", "denied"} :
            /\ req'[r] = [req[r] EXCEPT !.pc = label, !.seen = Refs(rows)]
            /\ label = "allowed" => AtLeastZero(Net(rows)) < ModelLimit
    BY <1>0, <1>5 DEF CheckModel
  <2>2. /\ req'[r].pc = label /\ req'[r].seen = Refs(rows)
        /\ req'[r].metered = req[r].metered
        /\ req'[r].since = req[r].since /\ req'[r].ts = req[r].ts
    BY <1>0, <2>1 DEF RequestStates
  <2>3. Checks(r)
    BY <1>5, <2>1, <2>2 DEF CheckModel, At, Checks, Pc, SameBooks
  <2> QED BY <2>2, <2>3 DEF Program, Dated
<1>6. ASSUME NEW from, NEW to, Begin(r, from, to)
      PROVE  /\ Pc(r) = from /\ Pc(r)' = to /\ Stays(r) /\ SameBooks
             /\ UNCHANGED <<lock, faults>> /\ Dated(r)
  <2>1. req'[r] = [req[r] EXCEPT !.pc = to, !.ts = clock']
    BY <1>0, <1>6 DEF Begin
  <2>2. /\ req'[r].pc = to /\ req'[r].seen = req[r].seen
        /\ req'[r].metered = req[r].metered /\ req'[r].name = req[r].name
        /\ req'[r].since = req[r].since /\ req'[r].ts = clock'
    BY <1>0, <2>1 DEF RequestStates
  <2> QED BY <1>6, <2>2 DEF Begin, At, Stays, Dated, Pc, SameBooks
<1>7. ASSUME NEW from, NEW to, LockAndRead(r, from, to)
      PROVE  /\ Pc(r) = from /\ Pc(r)' = to /\ Stays(r) /\ SameBooks
             /\ lock = Free /\ lock' = r /\ UNCHANGED faults /\ Dated(r)
             /\ req'[r].since = req[r].since
             /\ req'[r].used = UsageSince(req[r].since)
             /\ req'[r].current = CurrentBalance
  <2> DEFINE used == UsageSince(req[r].since)
             current == CurrentBalance
  <2>1. req'[r] = [req[r] EXCEPT !.pc = to, !.used = used, !.current = current]
    BY <1>0, <1>7 DEF LockAndRead
  <2> HIDE DEF used, current
  <2>2. /\ req'[r].pc = to /\ req'[r].seen = req[r].seen
        /\ req'[r].metered = req[r].metered /\ req'[r].name = req[r].name
        /\ req'[r].since = req[r].since /\ req'[r].ts = req[r].ts
        /\ req'[r].used = used /\ req'[r].current = current
    BY <1>0, <2>1 DEF RequestStates
  <2>3. /\ Pc(r) = from /\ lock = Free /\ lock' = r
        /\ UNCHANGED <<ledger, raced, faults>>
    BY <1>7 DEF LockAndRead, At, Pc
  <2> QED BY <2>2, <2>3 DEF Stays, Dated, Pc, SameBooks, used, current
<1>8. ASSUME NEW label, EndTransaction(r, label)
      PROVE  Pc(r)' = label /\ Stays(r) /\ Dated(r)
  <2>1. req'[r] = [req[r] EXCEPT !.pc = label, !.since = 0, !.ts = 0, !.used = 0,
                                !.current = 0]
    BY <1>0, <1>8 DEF EndTransaction
  <2>2. /\ req'[r].pc = label /\ req'[r].seen = req[r].seen
        /\ req'[r].metered = req[r].metered /\ req'[r].name = req[r].name
        /\ req'[r].since = 0 /\ req'[r].ts = 0
    BY <1>0, <2>1 DEF RequestStates
  <2> QED BY <2>2 DEF Stays, Dated, Pc
<1>9. ASSUME NEW label,
             \/ Answered(r, label)
             \/ Goto(r, label) /\ SendDelta(r)
      PROVE  /\ Pc(r)' = label /\ Stays(r) /\ Dated(r)
             /\ SameBooks /\ UNCHANGED <<lock, faults>>
  <2>1. \/ req'[r] = [req[r] EXCEPT !.pc = label, !.ways = {}]
        \/ req'[r] = [req[r] EXCEPT !.pc = label]
    BY <1>0, <1>9 DEF Answered, Goto
  <2>2. /\ req'[r].pc = label /\ req'[r].seen = req[r].seen
        /\ req'[r].metered = req[r].metered /\ req'[r].name = req[r].name
        /\ req'[r].since = req[r].since /\ req'[r].ts = req[r].ts
    BY <1>0, <2>1 DEF RequestStates
  <2> QED BY <1>9, <2>2 DEF Answered, SendDelta, Stays, Dated, Pc, SameBooks
<1>10. CASE BeginCharge(r) \/ BeginRefund(r)
  BY <1>6, <1>10 DEF BeginCharge, BeginRefund, Program, Begins
<1>11. CASE LockCharge(r) \/ LockRefund(r)
  BY <1>7, <1>11 DEF LockCharge, LockRefund, Program, Locks
<1>12. CASE Refuse(r)
  BY <1>8, <1>12 DEF Refuse, At, Pc, Program, Leaves, SameBooks
<1>13. CASE Charge(r)
  BY <1>8, <1>13 DEF Charge, At, Pc, Program, Charges
<1>14. CASE Refund(r)
  BY <1>8, <1>14 DEF Refund, At, Pc, Program, Leaves, GivesBack, SameBooks
<1>15. CASE Fail(r)
  BY <1>8, <1>15 DEF Fail, InTransaction, Pc, Program, Fails, SameBooks
<1>16. CASE Generate(r) \/ Relay(r) \/ SendDelta(r) \/ EndStream(r)
  <2>1. PICK label \in {"streaming", "answered", "cut", Failed(r)} :
            Answered(r, label) \/ (Goto(r, label) /\ SendDelta(r))
    BY <1>16 DEF Generate, Relay, SendDelta, EndStream
  <2>2. Pc(r) \in {"upstream", "streaming"}
    BY <1>16 DEF Generate, Relay, SendDelta, EndStream, At, Pc
  <2> QED BY <1>9, <2>1, <2>2 DEF Program, Answers
<1>17. CASE \/ HandleDeveloperChatCompletion(r) \/ HandleDeveloperResponses(r)
            \/ HandleDeveloperAnthropicMessage(r)
            \/ HandleDeveloperImageGeneration(r) \/ HandleDeveloperImageEdit(r)
  BY <1>2, <1>17
     DEF HandleDeveloperChatCompletion, HandleDeveloperResponses,
         HandleDeveloperAnthropicMessage, HandleDeveloperImageGeneration,
         HandleDeveloperImageEdit, Program
<1> QED
  BY <1>3, <1>4, <1>5, <1>10, <1>11, <1>12, <1>13, <1>14, <1>15, <1>16, <1>17
     DEF RequestStep

\* The row a payment adds, and the program of a payment.
PaymentRow(p) ==
    [created |-> pay[p].ts, type |-> "recharge", ref |-> p,
     model |-> "none", balance |-> pay[p].current + Amount]

PaymentProgram(p) ==
    \/ /\ pay[p].pc # "done" /\ pay'[p].pc = "begun" /\ pay'[p].ts = clock'
       /\ SameBooks
    \/ /\ pay[p].pc # "done" /\ pay'[p].pc = "read" /\ pay'[p].ts = pay[p].ts
       /\ pay'[p].current = CurrentBalance
       /\ SameBooks
    \/ /\ pay[p].pc = "read" /\ pay'[p].pc = "done" /\ pay'[p].ts = pay[p].ts
       /\ lock = Free
       /\ CommitRow(PaymentRow(p))

\* A step of a payment moves that payment, along its program.
LEMMA PaymentMoves ==
    ASSUME TypeOK, LedgerInv, NEW p \in Payments, PaymentStep(p)
    PROVE  /\ \E state \in PaymentStates : pay' = [pay EXCEPT ![p] = state]
           /\ PaymentProgram(p)
           /\ clock' \in {clock, clock + 1}
           /\ UNCHANGED <<credits, windowStart, lock, req, faults>>
<1>0. /\ pay \in [Payments -> PaymentStates] /\ pay[p] \in PaymentStates
      /\ clock \in Nat /\ CurrentBalance \in Int
  BY QueriesTyped DEF TypeOK
<1>1. /\ clock' \in {clock, clock + 1}
      /\ UNCHANGED <<credits, windowStart, lock, req, faults>>
  BY DEF PaymentStep, BeginPayment, ReadPayment, CommitPayment
<1> SUFFICES /\ \E state \in PaymentStates : pay' = [pay EXCEPT ![p] = state]
             /\ PaymentProgram(p)
  BY <1>1
<1>2. CASE BeginPayment(p)
  <2> DEFINE time == clock + 1
  <2>1. pay' = [pay EXCEPT ![p] = [pay[p] EXCEPT !.pc = "begun", !.ts = time]]
    BY <1>0, <1>2 DEF BeginPayment
  <2>2. time \in Nat /\ clock' = time
    BY <1>0, <1>2 DEF BeginPayment
  <2> HIDE DEF time
  <2>3. [pay[p] EXCEPT !.pc = "begun", !.ts = time] \in PaymentStates
    BY <1>0, <2>2 DEF PaymentStates
  <2>4. pay'[p].pc = "begun" /\ pay'[p].ts = time
    BY <1>0, <2>1 DEF PaymentStates
  <2>5. pay[p].pc = "new" /\ SameBooks
    BY <1>2 DEF BeginPayment, SameBooks
  <2> QED BY <2>1, <2>2, <2>3, <2>4, <2>5 DEF PaymentProgram
<1>3. CASE ReadPayment(p)
  <2> DEFINE current == CurrentBalance
  <2>1. pay' = [pay EXCEPT ![p] = [pay[p] EXCEPT !.pc = "read", !.current = current]]
    BY <1>0, <1>3 DEF ReadPayment
  <2>2. current \in Int
    BY <1>0
  <2> HIDE DEF current
  <2>3. [pay[p] EXCEPT !.pc = "read", !.current = current] \in PaymentStates
    BY <1>0, <2>2 DEF PaymentStates
  <2>4. pay'[p].pc = "read" /\ pay'[p].ts = pay[p].ts /\ pay'[p].current = current
    BY <1>0, <2>1 DEF PaymentStates
  <2>5. pay[p].pc = "begun" /\ SameBooks
    BY <1>3 DEF ReadPayment, SameBooks
  <2> QED BY <2>1, <2>3, <2>4, <2>5 DEF PaymentProgram, current
<1>4. CASE CommitPayment(p)
  <2>1. pay' = [pay EXCEPT ![p] = [pay[p] EXCEPT !.pc = "done"]]
    BY <1>0, <1>4 DEF CommitPayment
  <2>2. [pay[p] EXCEPT !.pc = "done"] \in PaymentStates
    BY <1>0 DEF PaymentStates
  <2>3. pay'[p].pc = "done" /\ pay'[p].ts = pay[p].ts
    BY <1>0, <2>1 DEF PaymentStates
  <2>4. pay[p].pc = "read" /\ lock = Free /\ CommitRow(PaymentRow(p))
    BY <1>4 DEF CommitPayment, PaymentRow
  <2> QED BY <2>1, <2>2, <2>3, <2>4 DEF PaymentProgram
<1> QED BY <1>2, <1>3, <1>4 DEF PaymentStep

\* The loss of the process: requests under way stop, payments start again.
Stops ==
    /\ \A r \in Requests :
          /\ \/ Pc(r) \in Ended \cup {"new"} /\ req'[r] = req[r]
             \/ Pc(r) \notin Ended \cup {"new"} /\ Pc(r)' = "crashed"
          /\ Stays(r)
          /\ Dated(r)
    /\ \A p \in Payments :
          \/ pay[p].pc = "done" /\ pay'[p] = pay[p]
          \/ pay[p].pc # "done" /\ pay'[p] = NewPayment
    /\ lock' = Free
    /\ faults' = faults + 1
    /\ SameBooks
    /\ UNCHANGED <<clock, credits, windowStart>>

\* The loss of the process is what Stops says.
LEMMA CrashStops ==
    ASSUME TypeOK, Crash
    PROVE  /\ req' \in [Requests -> RequestStates]
           /\ pay' \in [Payments -> PaymentStates]
           /\ Stops
<1>1. ASSUME NEW r \in Requests
      PROVE  /\ req'[r] \in RequestStates
             /\ \/ Pc(r) \in Ended \cup {"new"} /\ req'[r] = req[r]
                \/ Pc(r) \notin Ended \cup {"new"} /\ Pc(r)' = "crashed"
             /\ Stays(r)
             /\ Dated(r)
  <2>1. req[r] \in RequestStates /\ 0 \in Nat /\ 0 \in Int /\ "crashed" \in RequestLabels
    BY DEF TypeOK, RequestLabels, Ended
  <2>2. CASE Pc(r) \in Ended \cup {"new"}
    <3>1. req'[r] = req[r]
      BY <2>2 DEF Crash, Pc
    <3> QED BY <2>1, <2>2, <3>1 DEF Stays, Dated
  <2>3. CASE Pc(r) \notin Ended \cup {"new"}
    <3>1. req'[r] = [req[r] EXCEPT !.pc = "crashed", !.ts = 0, !.used = 0, !.current = 0]
      BY <2>3 DEF Crash, Pc
    <3>2. req'[r] \in RequestStates
      <4> DEFINE half == [req[r] EXCEPT !.pc = "crashed", !.ts = 0]
      <4>1. half \in RequestStates
        BY <2>1 DEF RequestStates
      <4>2. [half EXCEPT !.used = 0, !.current = 0] \in RequestStates
        <5> HIDE DEF half
        <5> QED BY <2>1, <4>1 DEF RequestStates
      <4>3. req'[r] = [half EXCEPT !.used = 0, !.current = 0]
        BY <2>1, <3>1 DEF RequestStates
      <4> QED BY <4>2, <4>3
    <3>3. /\ req'[r].pc = "crashed" /\ req'[r].seen = req[r].seen
          /\ req'[r].metered = req[r].metered /\ req'[r].name = req[r].name
          /\ req'[r].since = req[r].since /\ req'[r].ts = 0
      BY <2>1, <3>1 DEF RequestStates
    <3> QED BY <2>3, <3>2, <3>3 DEF Stays, Dated, Pc
  <2> QED BY <2>2, <2>3
<1>2. req' \in [Requests -> RequestStates]
  <2>1. req' = [r \in Requests |-> req'[r]]
    BY DEF Crash
  <2> QED BY <1>1, <2>1
<1>3. pay' \in [Payments -> PaymentStates]
  <2>1. NewPayment \in PaymentStates
    BY DEF NewPayment, PaymentStates
  <2> QED BY <2>1 DEF Crash, TypeOK
<1>4. \A p \in Payments :
         \/ pay[p].pc = "done" /\ pay'[p] = pay[p]
         \/ pay[p].pc # "done" /\ pay'[p] = NewPayment
  BY DEF Crash
<1>5. /\ lock' = Free /\ faults' = faults + 1 /\ SameBooks
      /\ UNCHANGED <<clock, credits, windowStart>>
  BY DEF Crash, SameBooks
<1> QED BY <1>1, <1>2, <1>3, <1>4, <1>5 DEF Stops

\* The steps, by what they do to the books.
Untouched ==
    /\ SameBooks
    /\ UNCHANGED <<lock, req, pay, faults, credits>>
    /\ clock <= clock'
    /\ \/ windowStart' = windowStart
       \/ windowStart' = clock + 1 /\ clock' = clock + 1

\* Every step is one of a request, one of a payment, the begin of a window
\* or nothing, or the loss of the process.
LEMMA StepCases ==
    ASSUME TypeOK, LedgerInv, [Next]_vars
    PROVE  \/ \E r \in Requests :
                 /\ Moves(r) /\ Program(r) /\ Dated(r)
                 /\ clock' \in {clock, clock + 1}
                 /\ UNCHANGED <<credits, windowStart, pay>>
           \/ \E p \in Payments :
                 /\ \E state \in PaymentStates : pay' = [pay EXCEPT ![p] = state]
                 /\ PaymentProgram(p)
                 /\ clock' \in {clock, clock + 1}
                 /\ UNCHANGED <<credits, windowStart, lock, req, faults>>
           \/ Untouched
           \/ Stops
<1>1. ASSUME ResetWindow PROVE Untouched
  <2>1. clock \in Nat /\ clock' = clock + 1
    BY <1>1 DEF ResetWindow, TypeOK
  <2>2. clock <= clock'
    BY <2>1
  <2> QED BY <1>1, <2>1, <2>2 DEF ResetWindow, Untouched, SameBooks
<1>2. ASSUME UNCHANGED vars PROVE Untouched
  <2>1. clock \in Nat /\ clock' = clock
    BY <1>2 DEF vars, TypeOK
  <2>2. clock <= clock'
    BY <2>1
  <2>3. SameBooks
    BY <1>2 DEF vars, SameBooks
  <2>4. UNCHANGED <<lock, req, pay, faults, credits, windowStart>>
    BY <1>2 DEF vars
  <2> QED BY <2>2, <2>3, <2>4 DEF Untouched
<1>3. ASSUME Crash PROVE Stops
  BY <1>3, CrashStops
<1> QED BY <1>1, <1>2, <1>3, RequestMoves, RequestProgram, PaymentMoves DEF Next, Done

\* Every variable keeps its type.
LEMMA TypeStep ==
    ASSUME TypeOK, LedgerInv, [Next]_vars
    PROVE  TypeOK'
<1>1. /\ clock' \in Nat /\ credits' \in Nat /\ windowStart' \in Nat
      /\ resets' \in Nat /\ faults' \in Nat
  BY Scalars DEF TypeOK
<1>2. req' \in [Requests -> RequestStates]
  <2>1. ASSUME NEW r \in Requests, Moves(r) PROVE req' \in [Requests -> RequestStates]
    BY <2>1 DEF Moves, TypeOK
  <2>2. CASE UNCHANGED req
    BY <2>2 DEF TypeOK
  <2>3. CASE Crash
    BY <2>3, CrashStops
  <2> QED BY <2>1, <2>2, <2>3, RequestMoves, PaymentMoves
          DEF Next, ResetWindow, Done, vars
<1>3. pay' \in [Payments -> PaymentStates]
  <2>1. CASE UNCHANGED pay
    BY <2>1 DEF TypeOK
  <2>2. ASSUME NEW p \in Payments, PaymentStep(p) PROVE pay' \in [Payments -> PaymentStates]
    BY <2>2, PaymentMoves DEF TypeOK
  <2>3. CASE Crash
    BY <2>3, CrashStops
  <2> QED BY <2>1, <2>2, <2>3, RequestProgram DEF Next, ResetWindow, Done, vars
<1>4. ledger' \in Seq(LedgerRows) /\ raced' \in BOOLEAN
  <2>1. CASE SameBooks
    BY <2>1 DEF SameBooks, TypeOK
  <2>2. ASSUME NEW r \in Requests, Program(r), ~SameBooks
        PROVE  ledger' \in Seq(LedgerRows) /\ raced' \in BOOLEAN
    BY <2>2, Commits, CommitTyped
       DEF Program, Enters, Resolves, Checks, Begins, Locks, Leaves, Answers, Fails,
           Charges, GivesBack
  <2>3. ASSUME NEW p \in Payments, PaymentProgram(p), ~SameBooks
        PROVE  ledger' \in Seq(LedgerRows) /\ raced' \in BOOLEAN
    BY <2>3, Commits, CommitTyped DEF PaymentProgram, PaymentRow
  <2> QED BY <2>1, <2>2, <2>3, StepCases DEF Untouched, Stops
<1>5. lock' \in Requests \cup {Free}
  <2>1. ASSUME NEW r \in Requests, Program(r) PROVE lock' \in {lock, r, Free}
    BY <2>1
       DEF Program, Enters, Resolves, Checks, Begins, Locks, Leaves, Answers, Fails,
           Charges, GivesBack
  <2> QED BY <2>1, StepCases DEF Untouched, Stops, TypeOK
<1> QED BY <1>1, <1>2, <1>3, <1>4, <1>5 DEF TypeOK

-----------------------------------------------------------------------------
(* What the queries return after a commit.                                 *)

\* A commit shows in the query of its own type, from its own time on.
LEMMA CommitSeen ==
    ASSUME TypeOK, NEW row \in LedgerRows, CommitRow(row)
    PROVE  /\ \A type, since :
                 Of(type, since)' = Of(type, since)
                     \cup {x \in {row} : x.type = type /\ x.created >= since}
           /\ \A ref :
                 /\ Charged(ref)' <=> Charged(ref) \/ (row.type = "usage" /\ row.ref = ref)
                 /\ Refunded(ref)' <=> Refunded(ref) \/ (row.type = "refund" /\ row.ref = ref)
<1>1. Committed' = Committed \cup {row}
  BY CommitTyped
<1>2. ASSUME NEW type, NEW since
      PROVE  Of(type, since)' = Of(type, since)
                 \cup {x \in {row} : x.type = type /\ x.created >= since}
  BY <1>1 DEF Of
<1>3. row.created >= 0
  BY DEF LedgerRows
<1>4. ASSUME NEW ref
      PROVE  /\ Charged(ref)' <=> Charged(ref) \/ (row.type = "usage" /\ row.ref = ref)
             /\ Refunded(ref)' <=> Refunded(ref) \/ (row.type = "refund" /\ row.ref = ref)
  <2>1. \A type : ref \in Refs(Of(type, 0))' <=>
                    ref \in Refs(Of(type, 0)) \/ (row.type = type /\ row.ref = ref)
    BY <1>2, <1>3 DEF Refs
  <2> QED BY <2>1 DEF Charged, Refunded
<1> QED BY <1>2, <1>4

\* The queries depend on the committed rows alone.
LEMMA SameQueries ==
    ASSUME UNCHANGED ledger
    PROVE  /\ Committed' = Committed
           /\ CurrentBalance' = CurrentBalance
           /\ \A type, since : Of(type, since)' = Of(type, since)
           /\ \A since : UsageSince(since)' = UsageSince(since)
           /\ \A ref : (Charged(ref)' <=> Charged(ref)) /\ (Refunded(ref)' <=> Refunded(ref))
<1>1. Committed' = Committed
  BY DEF Committed
<1>2. CurrentBalance' = CurrentBalance
  BY <1>1 DEF CurrentBalance
<1>3. ASSUME NEW type, NEW since PROVE Of(type, since)' = Of(type, since)
  BY <1>1 DEF Of
<1>4. ASSUME NEW since PROVE UsageSince(since)' = UsageSince(since)
  BY <1>3 DEF UsageSince
<1>5. ASSUME NEW ref
      PROVE  (Charged(ref)' <=> Charged(ref)) /\ (Refunded(ref)' <=> Refunded(ref))
  BY <1>3 DEF Charged, Refunded
<1> QED BY <1>1, <1>2, <1>3, <1>4, <1>5

\* A row of the ledger shows in the queries.
LEMMA RowsShow ==
    ASSUME TypeOK, NEW row \in Committed
    PROVE  /\ row \in LedgerRows
           /\ row \in Of(row.type, 0)
           /\ row.type = "usage" => Charged(row.ref)
           /\ row.type = "refund" => Refunded(row.ref)
<1>1. row \in LedgerRows
  BY CommittedRows DEF TypeOK
<1>2. row.created \in Nat
  BY <1>1 DEF LedgerRows
<1>3. row \in Of(row.type, 0)
  BY <1>2 DEF Of
<1> QED BY <1>1, <1>3 DEF Charged, Refunded, Refs

-----------------------------------------------------------------------------
(* The parts of the invariant, one by one.                                 *)

\* What was charged keeps its name, its session and what it has seen.
LEMMA Identity ==
    ASSUME TypeOK, LedgerInv, ControlInv, [Next]_vars
    PROVE  /\ \A r \in Requests : Charged(r) => Stays(r)
           /\ \A p \in Payments : pay[p].pc = "done" => pay'[p].pc = "done"
<1>1. ASSUME NEW x \in Requests, Program(x), Moves(x), UNCHANGED pay,
             NEW r \in Requests, Charged(r)
      PROVE  Stays(r)
  <2>1. CASE r = x
    <3>1. Pc(x) \notin {"new", "admitted", "resolved"}
      BY <1>1, <2>1 DEF ControlInv, BeforeCharge, Pc
    <3> QED BY <1>1, <2>1, <3>1
            DEF Program, Enters, Resolves, Checks, Begins, Locks, Leaves, Answers,
                Fails, Charges, GivesBack
  <2>2. CASE r # x
    <3>1. req'[r] = req[r]
      BY <1>1, <2>2 DEF Moves, TypeOK
    <3> QED BY <3>1 DEF Stays
  <2> QED BY <2>1, <2>2
<1>2. ASSUME NEW x \in Payments, NEW p \in Payments, PaymentProgram(x),
             \E state \in PaymentStates : pay' = [pay EXCEPT ![x] = state],
             pay[p].pc = "done"
      PROVE  pay'[p].pc = "done"
  <2>1. p # x
    BY <1>2 DEF PaymentProgram
  <2> QED BY <1>2, <2>1 DEF TypeOK
<1>3. ASSUME UNCHANGED req, NEW r \in Requests PROVE Stays(r)
  BY <1>3 DEF Stays
<1> QED BY <1>1, <1>2, <1>3, StepCases DEF Untouched, Stops

\* A commit is one of three.
LEMMA StepCommits ==
    ASSUME TypeOK, LedgerInv, [Next]_vars
    PROVE  \/ SameBooks
           \/ \E r \in Requests :
                 /\ Charges(r) /\ Row(r, "usage", req[r].current - 1) \in LedgerRows
                 /\ Moves(r) /\ UNCHANGED <<credits, windowStart, pay>>
           \/ \E r \in Requests :
                 /\ GivesBack(r) /\ Row(r, "refund", req[r].current + 1) \in LedgerRows
                 /\ Moves(r) /\ UNCHANGED <<credits, windowStart, pay>>
           \/ \E p \in Payments :
                 /\ pay[p].pc = "read" /\ pay'[p].pc = "done" /\ lock = Free
                 /\ CommitRow(PaymentRow(p)) /\ PaymentRow(p) \in LedgerRows
                 /\ \A x \in Payments \ {p} : pay'[x] = pay[x]
                 /\ UNCHANGED <<credits, windowStart, req>>
<1>1. ASSUME NEW r \in Requests, Program(r)
      PROVE  SameBooks \/ Charges(r) \/ GivesBack(r)
  BY <1>1 DEF Program, Enters, Resolves, Checks, Begins, Locks, Leaves, Answers, Fails
<1>2. ASSUME NEW p \in Payments, PaymentProgram(p)
      PROVE  \/ SameBooks
             \/ /\ pay[p].pc = "read" /\ pay'[p].pc = "done" /\ lock = Free
                /\ CommitRow(PaymentRow(p))
  BY <1>2 DEF PaymentProgram
<1>3. \A p \in Payments : PaymentRow(p) \in LedgerRows
  BY Commits DEF PaymentRow
<1>4. ASSUME NEW p \in Payments,
             \E state \in PaymentStates : pay' = [pay EXCEPT ![p] = state]
      PROVE  \A x \in Payments \ {p} : pay'[x] = pay[x]
  BY <1>4 DEF TypeOK
<1> QED BY <1>1, <1>2, <1>3, <1>4, StepCases, Commits DEF Untouched, Stops

\* Charging, refunding and recharging each happen once per reference.
LEMMA LedgerStep ==
    ASSUME TypeOK, LedgerInv, ControlInv, [Next]_vars
    PROVE  LedgerInv'
<1>0. /\ \A r \in Requests : Charged(r) => Stays(r)
      /\ \A p \in Payments : pay[p].pc = "done" => pay'[p].pc = "done"
  BY Identity
<1>1. ASSUME NEW row \in Committed, row.type # "recharge"
      PROVE  row.ref \in Requests /\ Charged(row.ref) /\ row.model = req'[row.ref].name
  <2>1. row.ref \in Requests /\ row.model = req[row.ref].name
    BY <1>1 DEF LedgerInv
  <2>2. row.type = "usage" \/ row.type = "refund"
    BY <1>1, RowsShow DEF LedgerRows
  <2>3. Charged(row.ref)
    BY <2>2, RowsShow DEF LedgerInv
  <2> QED BY <1>0, <2>1, <2>3 DEF Stays
<1>2. CASE SameBooks
  <2>1. Committed' = Committed /\ ledger' = ledger /\ \A ref : Charged(ref)' <=> Charged(ref)
    BY <1>2, SameQueries DEF SameBooks
  <2>2. \A row, other \in Committed' :
            row.type = other.type /\ row.ref = other.ref => row = other
    BY <2>1 DEF LedgerInv
  <2>3. ASSUME NEW row \in Committed'
        PROVE  /\ row.type = "recharge" => row.ref \in Payments /\ pay'[row.ref].pc = "done"
               /\ row.type # "recharge" =>
                     row.ref \in Requests /\ row.model = req'[row.ref].name
               /\ row.type = "refund" => Charged(row.ref)'
    BY <1>0, <1>1, <2>1 DEF LedgerInv
  <2>4. ledger' # <<>> =>
            \E row \in Committed' : \A other \in Committed' : other.created <= row.created
    BY <2>1 DEF LedgerInv
  <2> QED BY <2>2, <2>3, <2>4 DEF LedgerInv
<1>3. ASSUME NEW new \in LedgerRows, CommitRow(new),
             \A other \in Committed : ~(other.type = new.type /\ other.ref = new.ref),
             new.type = "recharge" => new.ref \in Payments /\ pay'[new.ref].pc = "done",
             new.type # "recharge" => new.ref \in Requests /\ new.model = req'[new.ref].name,
             new.type = "refund" => Charged(new.ref)
      PROVE  LedgerInv'
  <2>1. Committed' = Committed \cup {new} /\ ledger' # <<>>
    BY <1>3, CommitTyped
  <2>2. \A row, other \in Committed' :
            row.type = other.type /\ row.ref = other.ref => row = other
    BY <1>3, <2>1 DEF LedgerInv
  <2>3. ASSUME NEW ref, Charged(ref) PROVE Charged(ref)'
    BY <1>3, <2>3, CommitSeen
  <2>4. ASSUME NEW row \in Committed'
        PROVE  /\ row.type = "recharge" => row.ref \in Payments /\ pay'[row.ref].pc = "done"
               /\ row.type # "recharge" =>
                     row.ref \in Requests /\ row.model = req'[row.ref].name
               /\ row.type = "refund" => Charged(row.ref)'
    <3>1. CASE row = new
      BY <1>3, <2>3, <3>1
    <3>2. CASE row \in Committed
      BY <1>0, <1>1, <2>3, <3>2 DEF LedgerInv
    <3> QED BY <2>1, <3>1, <3>2
  <2>5. \E row \in Committed' : \A other \in Committed' : other.created <= row.created
    <3>0. \A row \in Committed' : row.created \in Nat
      BY <1>3, <2>1, RowsShow DEF LedgerRows
    <3>1. CASE \A other \in Committed : other.created <= new.created
      BY <2>1, <3>0, <3>1
    <3>2. CASE \E other \in Committed : ~(other.created <= new.created)
      <4>1. ledger # <<>>
        BY <3>2 DEF Committed, ToSet
      <4>2. PICK row \in Committed : \A other \in Committed : other.created <= row.created
        BY <4>1 DEF LedgerInv
      <4>3. new.created <= row.created
        BY <2>1, <3>0, <3>2, <4>2
      <4> QED BY <2>1, <4>2, <4>3
    <3> QED BY <3>1, <3>2
  <2> QED BY <2>2, <2>4, <2>5 DEF LedgerInv
<1>4. ASSUME NEW r \in Requests, Charges(r), Row(r, "usage", req[r].current - 1) \in LedgerRows
      PROVE  LedgerInv'
  <2> DEFINE new == Row(r, "usage", req[r].current - 1)
  <2>1. new.type = "usage" /\ new.ref = r /\ new.model = req'[r].name
    BY <1>4 DEF Row, Charges, Stays
  <2>2. ~Charged(r)
    BY <1>4 DEF Charges, ControlInv, BeforeCharge, Pc
  <2>3. \A other \in Committed : ~(other.type = "usage" /\ other.ref = r)
    BY <2>2, RowsShow
  <2>4. new \in LedgerRows /\ CommitRow(new)
    BY <1>4 DEF Charges
  <2> HIDE DEF new
  <2> QED BY <1>3, <2>1, <2>3, <2>4
<1>5. ASSUME NEW r \in Requests, GivesBack(r), Row(r, "refund", req[r].current + 1) \in LedgerRows
      PROVE  LedgerInv'
  <2> DEFINE new == Row(r, "refund", req[r].current + 1)
  <2>1. new.type = "refund" /\ new.ref = r /\ new.model = req'[r].name
    BY <1>5 DEF Row, GivesBack, Stays
  <2>2. ~Refunded(r) /\ Charged(r)
    BY <1>5 DEF GivesBack, Refundable, Refunded, Charged
  <2>3. \A other \in Committed : ~(other.type = "refund" /\ other.ref = r)
    BY <2>2, RowsShow
  <2>4. new \in LedgerRows /\ CommitRow(new)
    BY <1>5 DEF GivesBack
  <2> HIDE DEF new
  <2> QED BY <1>3, <2>1, <2>2, <2>3, <2>4
<1>6. ASSUME NEW p \in Payments, pay[p].pc = "read", pay'[p].pc = "done",
             CommitRow(PaymentRow(p)), PaymentRow(p) \in LedgerRows
      PROVE  LedgerInv'
  <2>1. PaymentRow(p).type = "recharge" /\ PaymentRow(p).ref = p
    BY DEF PaymentRow
  <2>2. \A other \in Committed : ~(other.type = "recharge" /\ other.ref = p)
    BY <1>6 DEF LedgerInv
  <2> QED BY <1>3, <1>6, <2>1, <2>2
<1> QED BY <1>2, <1>4, <1>5, <1>6, StepCommits

\* Nothing is dated after the clock, no window that was read after the one
\* that runs.
LEMMA TimeStep ==
    ASSUME TypeOK, TypeOK', LedgerInv, TimeInv, [Next]_vars
    PROVE  TimeInv'
<1>0. /\ {clock, clock', windowStart, windowStart'} \subseteq Nat
      /\ windowStart <= clock
      /\ \A r \in Requests : {req[r].since, req[r].ts} \subseteq Nat
      /\ \A p \in Payments : pay[p].ts \in Nat
  <2>1. {clock, clock', windowStart, windowStart'} \subseteq Nat /\ windowStart <= clock
    BY DEF TypeOK, TimeInv
  <2>2. ASSUME NEW r \in Requests PROVE {req[r].since, req[r].ts} \subseteq Nat
    <3>1. req[r] \in RequestStates
      BY DEF TypeOK
    <3> QED BY <3>1 DEF RequestStates
  <2>3. ASSUME NEW p \in Payments PROVE pay[p].ts \in Nat
    <3>1. pay[p] \in PaymentStates
      BY DEF TypeOK
    <3> QED BY <3>1 DEF PaymentStates
  <2> QED BY <2>1, <2>2, <2>3
<1>1. clock <= clock' /\ windowStart <= windowStart' /\ windowStart' <= clock'
  <2>1. ASSUME clock' \in {clock, clock + 1}, windowStart' = windowStart
        PROVE  clock <= clock' /\ windowStart <= windowStart' /\ windowStart' <= clock'
    BY <1>0, <2>1
  <2>2. CASE Untouched
    BY <1>0, <2>2 DEF Untouched
  <2>3. CASE Stops
    BY <2>1, <2>3 DEF Stops
  <2>4. ASSUME NEW p \in Payments, PaymentProgram(p), clock' \in {clock, clock + 1},
               UNCHANGED <<credits, windowStart, lock, req, faults>>
        PROVE  clock <= clock' /\ windowStart <= windowStart' /\ windowStart' <= clock'
    BY <2>1, <2>4
  <2>5. ASSUME NEW r \in Requests, clock' \in {clock, clock + 1},
               UNCHANGED <<credits, windowStart, pay>>
        PROVE  clock <= clock' /\ windowStart <= windowStart' /\ windowStart' <= clock'
    BY <2>1, <2>5
  <2> QED BY <2>2, <2>3, <2>4, <2>5, StepCases
<1>2. ASSUME NEW r \in Requests PROVE req'[r] = req[r] \/ Dated(r)
  BY StepCases DEF Moves, TypeOK, Untouched, Stops
<1>3. ASSUME NEW r \in Requests PROVE req'[r].since <= windowStart' /\ req'[r].ts <= clock'
  <2>1. req[r].since <= windowStart' /\ req[r].ts <= clock'
    BY <1>0, <1>1 DEF TimeInv
  <2> QED BY <1>0, <1>1, <1>2, <2>1 DEF Dated
<1>4. ASSUME NEW p \in Payments PROVE pay'[p].ts \in {pay[p].ts, clock', 0}
  BY StepCases DEF PaymentProgram, TypeOK, Untouched, Stops, NewPayment
<1>5. ASSUME NEW p \in Payments PROVE pay'[p].ts <= clock'
  <2>1. pay[p].ts <= clock'
    BY <1>0, <1>1 DEF TimeInv
  <2> QED BY <1>0, <1>4, <2>1
<1>6. ASSUME NEW row \in Committed' PROVE row.created <= clock'
  <2>1. ASSUME row \in Committed PROVE row.created <= clock'
    <3>1. row.created \in Nat /\ row.created <= clock
      BY <2>1, RowsShow DEF LedgerRows, TimeInv
    <3> QED BY <1>0, <1>1, <3>1
  <2>2. CASE SameBooks
    BY <2>1, <2>2, SameQueries DEF SameBooks
  <2>3. ASSUME NEW new \in LedgerRows, CommitRow(new), new.created <= clock
        PROVE  row.created <= clock'
    <3>1. row \in Committed \/ row = new
      BY <2>3, CommitTyped
    <3>2. new.created \in Nat
      BY DEF LedgerRows
    <3>3. new.created <= clock'
      BY <1>0, <1>1, <2>3, <3>2
    <3> QED BY <2>1, <3>1, <3>3
  <2>4. \A r \in Requests : \A type, balance : Row(r, type, balance).created <= clock
    BY DEF Row, TimeInv
  <2>5. \A p \in Payments : PaymentRow(p).created <= clock
    BY DEF PaymentRow, TimeInv
  <2> QED BY <2>2, <2>3, <2>4, <2>5, StepCommits DEF Charges, GivesBack
<1> QED BY <1>1, <1>3, <1>5, <1>6 DEF TimeInv

\* What the holder of the lock has read does not change under it.
LEMMA LockProtects ==
    ASSUME TypeOK, LedgerInv, ControlInv, [Next]_vars,
           NEW r \in Requests, Pc(r) \in {"charge", "refund"}, Pc(r)' \in {"charge", "refund"}
    PROVE  req'[r] = req[r] /\ lock' = r /\ SameBooks
<1>1. lock = r /\ lock # Free
  BY QuotaLedgerAssumption DEF ControlInv, Pc
<1>2. ASSUME NEW x \in Requests, Program(x), Moves(x)
      PROVE  req'[r] = req[r] /\ lock' = r /\ SameBooks
  <2>1. x # r
    BY <1>1, <1>2
       DEF Program, Enters, Resolves, Checks, Begins, Locks, Leaves, Answers,
           Fails, Charges, GivesBack
  <2>2. req'[r] = req[r]
    BY <1>2, <2>1 DEF Moves, TypeOK
  <2>3. Pc(x) \notin {"charge", "refund"}
    BY <1>1, <2>1 DEF ControlInv, Pc
  <2>4. lock' = r /\ SameBooks
    BY <1>1, <1>2, <2>1, <2>3
       DEF Program, Enters, Resolves, Checks, Begins, Locks, Leaves, Answers,
           Fails, Charges, GivesBack
  <2> QED BY <2>2, <2>4
<1>3. ASSUME NEW p \in Payments, PaymentProgram(p), UNCHANGED <<lock, req>>
      PROVE  req'[r] = req[r] /\ lock' = r /\ SameBooks
  BY <1>1, <1>3 DEF PaymentProgram
<1>4. CASE Untouched
  BY <1>1, <1>4 DEF Untouched
<1>5. ~Stops
  BY DEF Stops, Ended
<1> QED BY <1>2, <1>3, <1>4, <1>5, StepCases

\* Only a request itself adds rows for it, and none is taken away.
LEMMA OnlyOwnRows ==
    ASSUME TypeOK, LedgerInv, [Next]_vars, NEW r \in Requests
    PROVE  /\ Charged(r)' => Charged(r) \/ (Charges(r) /\ Moves(r))
           /\ Refunded(r)' => Refunded(r) \/ (GivesBack(r) /\ Moves(r))
           /\ Charged(r) \/ Charges(r) => Charged(r)'
           /\ Refunded(r) \/ GivesBack(r) => Refunded(r)'
<1> DEFINE usage(x) == Row(x, "usage", req[x].current - 1)
           refund(x) == Row(x, "refund", req[x].current + 1)
<1>0. /\ \A x \in Requests : usage(x).type = "usage" /\ usage(x).ref = x
      /\ \A x \in Requests : refund(x).type = "refund" /\ refund(x).ref = x
      /\ \A p \in Payments : PaymentRow(p).type = "recharge"
      /\ \A x \in Requests : usage(x) \in LedgerRows /\ refund(x) \in LedgerRows
  BY Commits DEF Row, PaymentRow
<1>1. CASE SameBooks
  <2>1. (Charged(r)' <=> Charged(r)) /\ (Refunded(r)' <=> Refunded(r))
    BY <1>1, SameQueries DEF SameBooks
  <2>2. Charges(r) => FALSE
    <3> SUFFICES ASSUME Charges(r) PROVE FALSE
      OBVIOUS
    <3>1. CommitRow(usage(r)) /\ usage(r) \in LedgerRows
      BY <1>0 DEF Charges
    <3> HIDE DEF usage
    <3> QED BY <1>1, <3>1, CommitTyped DEF SameBooks
  <2>3. GivesBack(r) => FALSE
    <3> SUFFICES ASSUME GivesBack(r) PROVE FALSE
      OBVIOUS
    <3>1. CommitRow(refund(r)) /\ refund(r) \in LedgerRows
      BY <1>0 DEF GivesBack
    <3> HIDE DEF refund
    <3> QED BY <1>1, <3>1, CommitTyped DEF SameBooks
  <2> QED BY <2>1, <2>2, <2>3
<1>2. ASSUME NEW x \in Requests, Charges(x), Moves(x)
      PROVE  /\ Charged(r)' <=> Charged(r) \/ r = x
             /\ Refunded(r)' <=> Refunded(r)
  <2>1. CommitRow(usage(x))
    BY <1>2 DEF Charges
  <2> HIDE DEF usage
  <2> QED BY <1>0, <2>1, CommitSeen
<1>3. ASSUME NEW x \in Requests, GivesBack(x), Moves(x)
      PROVE  /\ Charged(r)' <=> Charged(r)
             /\ Refunded(r)' <=> Refunded(r) \/ r = x
  <2>1. CommitRow(refund(x))
    BY <1>3 DEF GivesBack
  <2> HIDE DEF refund
  <2> QED BY <1>0, <2>1, CommitSeen
<1>4. ASSUME NEW p \in Payments, CommitRow(PaymentRow(p)), PaymentRow(p) \in LedgerRows
      PROVE  (Charged(r)' <=> Charged(r)) /\ (Refunded(r)' <=> Refunded(r))
  BY <1>0, <1>4, CommitSeen
<1>5. ASSUME Charges(r) PROVE Charged(r)'
  <2>1. CommitRow(usage(r))
    BY <1>5 DEF Charges
  <2> HIDE DEF usage
  <2> QED BY <1>0, <2>1, CommitSeen
<1>6. ASSUME GivesBack(r) PROVE Refunded(r)'
  <2>1. CommitRow(refund(r))
    BY <1>6 DEF GivesBack
  <2> HIDE DEF refund
  <2> QED BY <1>0, <2>1, CommitSeen
<1> HIDE DEF usage, refund
<1> QED BY <1>1, <1>2, <1>3, <1>4, <1>5, <1>6, StepCommits

\* The lock keeps what its holder has read true; nothing is charged before
\* the charge, nor without a session.
LEMMA ControlStep ==
    ASSUME TypeOK, TypeOK', LedgerInv, ControlInv, [Next]_vars
    PROVE  ControlInv'
<1>1. ASSUME NEW r \in Requests, Pc(r)' \in {"charge", "refund"}
      PROVE  /\ lock' = r
             /\ req'[r].used = UsageSince(req[r].since)'
             /\ req'[r].current = CurrentBalance'
  <2>1. CASE Pc(r) \in {"charge", "refund"}
    <3>1. req'[r] = req[r] /\ lock' = r /\ SameBooks
      BY <1>1, <2>1, LockProtects
    <3>2. CurrentBalance' = CurrentBalance /\ \A since : UsageSince(since)' = UsageSince(since)
      BY <3>1, SameQueries DEF SameBooks
    <3>3. UsageSince(req[r].since)' = UsageSince(req[r].since)
      BY <3>1, SameQueries DEF SameBooks, UsageSince, Net, Of, Committed
    <3> QED BY <2>1, <3>1, <3>2, <3>3 DEF ControlInv, Pc
  <2>2. CASE Pc(r) \notin {"charge", "refund"}
    <3>1. Locks(r)
      <4>1. ASSUME NEW x \in Requests, Program(x), Moves(x) PROVE Locks(r)
        <5>1. CASE x = r
          BY <1>1, <2>2, <4>1, <5>1
             DEF Program, Enters, Resolves, Checks, Begins, Leaves, Answers,
                 Fails, Charges, GivesBack, Failed
        <5>2. CASE x # r
          <6>1. req'[r] = req[r]
            BY <4>1, <5>2 DEF Moves, TypeOK
          <6> QED BY <1>1, <2>2, <6>1 DEF Pc
        <5> QED BY <5>1, <5>2
      <4>2. ASSUME UNCHANGED req PROVE FALSE
        BY <1>1, <2>2, <4>2 DEF Pc
      <4>3. ~Stops
        BY <1>1, <2>2 DEF Stops, Pc
      <4> QED BY <4>1, <4>2, <4>3, StepCases DEF Untouched
    <3>2. CurrentBalance' = CurrentBalance
      BY <3>1, SameQueries DEF Locks, SameBooks
    <3>3. UsageSince(req[r].since)' = UsageSince(req[r].since)
      BY <3>1 DEF Locks, SameBooks, UsageSince, Net, Of, Committed
    <3> QED BY <3>1, <3>2, <3>3 DEF Locks
  <2> QED BY <2>1, <2>2
<1>2. \A r \in Requests : Charged(r)' => Charged(r) \/ (Charges(r) /\ Moves(r))
  BY OnlyOwnRows
<1>3. ASSUME NEW r \in Requests
      PROVE  /\ Pc(r)' \in BeforeCharge =>
                   Pc(r) \in BeforeCharge /\ ~(Charges(r) /\ Moves(r))
             /\ Pc(r)' \in OfSession => req'[r].metered
  <2>1. CASE req'[r] = req[r]
    BY <2>1 DEF ControlInv, Pc, Charges
  <2>2. CASE Program(r)
    <3>1. CASE Answers(r)
      <4>1. Pc(r)' \in {"streaming", "answered", "cut", "failed", "error"}
        BY <3>1 DEF Answers, Failed
      <4>2. Pc(r)' = "failed" => req[r].metered
        BY <3>1 DEF Answers, Failed
      <4> QED BY <3>1, <4>1, <4>2 DEF Answers, Stays, BeforeCharge, OfSession
    <3>2. CASE \/ Enters(r) \/ Resolves(r) \/ Checks(r) \/ Begins(r) \/ Locks(r)
               \/ Leaves(r) \/ Fails(r) \/ Charges(r) \/ GivesBack(r)
      <4>1. Pc(r) \in OfSession => req[r].metered
        BY DEF ControlInv, Pc
      <4> QED BY <3>2, <4>1
              DEF Enters, Resolves, Checks, Begins, Locks, Leaves, Fails, Charges,
                  GivesBack, Stays, BeforeCharge, OfSession
    <3> QED BY <2>2, <3>1, <3>2 DEF Program
  <2>3. CASE Stops
    <3>1. req'[r] = req[r] \/ Pc(r)' = "crashed"
      BY <2>3 DEF Stops
    <3> QED BY <2>1, <3>1 DEF BeforeCharge, OfSession
  <2> QED BY <2>1, <2>2, <2>3, StepCases DEF Untouched, Moves, TypeOK
<1>4. ASSUME NEW r \in Requests, Charged(r)' PROVE req'[r].metered
  <2>1. CASE Charged(r)
    <3>1. Stays(r)
      BY <2>1, Identity
    <3> QED BY <2>1, <3>1 DEF Stays, ControlInv
  <2>2. CASE Charges(r)
    BY <2>2 DEF Charges, Stays, ControlInv, OfSession, Pc
  <2> QED BY <1>2, <1>4, <2>1, <2>2
<1>5. ASSUME NEW r \in Requests, Pc(r)' \in BeforeCharge PROVE ~Charged(r)'
  BY <1>2, <1>3, <1>5 DEF ControlInv, Pc
<1> QED BY <1>1, <1>3, <1>4, <1>5 DEF ControlInv, Pc

\* A request that ended without a fault is charged when it was answered.
LEMMA OutcomeStep ==
    ASSUME TypeOK, TypeOK', LedgerInv, ControlInv, OutcomeInv, [Next]_vars
    PROVE  OutcomeInv'
<1> SUFFICES ASSUME faults' = 0, NEW r \in Requests
             PROVE  /\ Pc(r)' \in {"upstream", "streaming", "answered", "cut"} =>
                          (Charged(r)' <=> req'[r].metered) /\ ~Refunded(r)'
                    /\ Pc(r)' \in {"failed", "refunding", "refund"} =>
                          Charged(r)' /\ ~Refunded(r)'
                    /\ Pc(r)' = "refunded" => Refunded(r)'
                    /\ Pc(r)' = "error" => ~Charged(r)'
                    /\ Pc(r)' \notin {"unrefunded", "crashed"}
  BY DEF OutcomeInv, Pc
<1>1. faults = 0 /\ ~Stops
  BY Scalars DEF Stops, TypeOK
<1>2. /\ Pc(r) \in {"upstream", "streaming", "answered", "cut"} =>
             (Charged(r) <=> req[r].metered) /\ ~Refunded(r)
      /\ Pc(r) \in {"failed", "refunding", "refund"} => Charged(r) /\ ~Refunded(r)
      /\ Pc(r) = "refunded" => Refunded(r)
      /\ Pc(r) = "error" => ~Charged(r)
      /\ Pc(r) \notin {"unrefunded", "crashed"}
  BY <1>1 DEF OutcomeInv, Pc
<1>3. /\ Pc(r) \in BeforeCharge => ~Charged(r)
      /\ Pc(r) \in OfSession => req[r].metered
  BY DEF ControlInv, Pc
<1>4. Refunded(r) => Charged(r)
  BY DEF Refunded, Refs, Of, LedgerInv
<1>5. /\ Charged(r)' => Charged(r) \/ Charges(r)
      /\ Refunded(r)' => Refunded(r) \/ GivesBack(r)
      /\ Charged(r) \/ Charges(r) => Charged(r)'
      /\ Refunded(r) \/ GivesBack(r) => Refunded(r)'
  BY OnlyOwnRows
<1>6. CASE req'[r] = req[r]
  <2>1. ~Charges(r) /\ ~GivesBack(r)
    BY <1>6 DEF Charges, GivesBack, Pc
  <2> QED BY <1>2, <1>5, <1>6, <2>1 DEF Pc
<1>7. CASE Program(r)
  <2>1. CASE Enters(r)
    BY <2>1, <1>3, <1>4, <1>5 DEF Enters, Charges, GivesBack, BeforeCharge
  <2>2. CASE Resolves(r) \/ Checks(r)
    BY <2>2 DEF Resolves, Checks
  <2>3. CASE Begins(r) \/ Locks(r)
    BY <2>3, <1>2, <1>5 DEF Begins, Locks, Charges, GivesBack
  <2>4. CASE Leaves(r)
    BY <2>4, <1>2, <1>5 DEF Leaves, Refundable, Charged, Refunded
  <2>5. CASE Answers(r)
    <3>1. Pc(r)' \in {"streaming", "answered", "cut"} \cup
                        (IF req[r].metered THEN {"failed"} ELSE {"error"})
      BY <2>5 DEF Answers, Failed
    <3>2. ~Charges(r) /\ ~GivesBack(r)
      BY <2>5 DEF Answers, Charges, GivesBack
    <3> QED BY <2>5, <1>2, <1>5, <3>1, <3>2 DEF Answers, Stays
  <2>6. ~Fails(r)
    BY <1>1 DEF Fails
  <2>7. CASE Charges(r)
    <3>1. Pc(r)' = "upstream" /\ req[r].metered /\ req'[r].metered = req[r].metered
      BY <2>7, <1>1, <1>3 DEF Charges, Stays, OfSession
    <3>2. ~Charged(r) /\ ~GivesBack(r)
      BY <2>7, <1>3 DEF Charges, GivesBack, BeforeCharge
    <3> QED BY <2>7, <1>4, <1>5, <3>1, <3>2
  <2>8. CASE GivesBack(r)
    BY <2>8, <1>5 DEF GivesBack
  <2> QED BY <1>7, <2>1, <2>2, <2>3, <2>4, <2>5, <2>6, <2>7, <2>8 DEF Program
<1>8. req'[r] = req[r] \/ Program(r)
  BY <1>1, StepCases DEF Moves, TypeOK, Untouched
<1> QED BY <1>6, <1>7, <1>8

\* What a commit and the begin of a window do to the rows that are counted.
LEMMA CountsStep ==
    ASSUME TypeOK, LedgerInv, TimeInv, [Next]_vars
    PROVE  \/ /\ \A type \in {"usage", "refund"} : \A since : Of(type, since)' = Of(type, since)
              /\ windowStart' = windowStart
           \/ /\ \A type \in {"usage", "refund"} : \A since : Of(type, since)' = Of(type, since)
              /\ Of("usage", windowStart)' = {}
              /\ UNCHANGED req
           \/ \E r \in Requests :
                 LET new == Row(r, "usage", req[r].current - 1) IN
                    /\ Charges(r) /\ Moves(r)
                    /\ windowStart' = windowStart
                    /\ \A since : /\ Of("refund", since)' = Of("refund", since)
                                  /\ Of("usage", since)' =
                                        Of("usage", since)
                                           \cup {x \in {new} : x.created >= since}
           \/ \E r \in Requests :
                 LET new == Row(r, "refund", req[r].current + 1) IN
                    /\ GivesBack(r) /\ Moves(r)
                    /\ windowStart' = windowStart
                    /\ \A since : /\ Of("usage", since)' = Of("usage", since)
                                  /\ Of("refund", since)' =
                                        Of("refund", since)
                                           \cup {x \in {new} : x.created >= since}
<1>1. CASE SameBooks
  <2>1. \A type, since : Of(type, since)' = Of(type, since)
    BY <1>1, SameQueries DEF SameBooks
  <2>2. CASE windowStart' = windowStart
    BY <2>1, <2>2
  <2>3. CASE windowStart' # windowStart
    <3>1. windowStart' = clock + 1 /\ UNCHANGED req
      BY <2>3, StepCases DEF Untouched, Stops
    <3>2. Of("usage", windowStart)' = {row \in Committed : row.type = "usage" /\ row.created >= clock + 1}
      BY <1>1, <3>1, SameQueries DEF Of, SameBooks
    <3>3. \A row \in Committed : ~(row.created >= clock + 1)
      <4> SUFFICES ASSUME NEW row \in Committed PROVE ~(row.created >= clock + 1)
        OBVIOUS
      <4>1. row.created \in Nat /\ clock \in Nat /\ row.created <= clock
        BY RowsShow DEF LedgerRows, TimeInv, TypeOK
      <4> QED BY <4>1
    <3> QED BY <2>1, <3>1, <3>2, <3>3
  <2> QED BY <2>2, <2>3
<1>2. ASSUME NEW r \in Requests, Charges(r), Row(r, "usage", req[r].current - 1) \in LedgerRows
      PROVE  \A since :
                 /\ Of("refund", since)' = Of("refund", since)
                 /\ Of("usage", since)' = Of("usage", since)
                        \cup {x \in {Row(r, "usage", req[r].current - 1)} : x.created >= since}
  <2>1. PICK new \in LedgerRows : new = Row(r, "usage", req[r].current - 1)
    BY <1>2
  <2>2. new.type = "usage"
    BY <2>1 DEF Row
  <2>3. CommitRow(new)
    BY <1>2, <2>1 DEF Charges
  <2>4. ASSUME NEW since
        PROVE  /\ {x \in {new} : x.type = "refund" /\ x.created >= since} = {}
               /\ {x \in {new} : x.type = "usage" /\ x.created >= since}
                     = {x \in {new} : x.created >= since}
    BY <2>2
  <2>5. \A type, since :
            Of(type, since)' = Of(type, since)
                \cup {x \in {new} : x.type = type /\ x.created >= since}
    BY <2>3, CommitSeen
  <2> QED BY <2>1, <2>4, <2>5
<1>3. ASSUME NEW r \in Requests, GivesBack(r), Row(r, "refund", req[r].current + 1) \in LedgerRows
      PROVE  \A since :
                 /\ Of("usage", since)' = Of("usage", since)
                 /\ Of("refund", since)' = Of("refund", since)
                        \cup {x \in {Row(r, "refund", req[r].current + 1)} : x.created >= since}
  <2>1. PICK new \in LedgerRows : new = Row(r, "refund", req[r].current + 1)
    BY <1>3
  <2>2. new.type = "refund"
    BY <2>1 DEF Row
  <2>3. CommitRow(new)
    BY <1>3, <2>1 DEF GivesBack
  <2>4. ASSUME NEW since
        PROVE  /\ {x \in {new} : x.type = "usage" /\ x.created >= since} = {}
               /\ {x \in {new} : x.type = "refund" /\ x.created >= since}
                     = {x \in {new} : x.created >= since}
    BY <2>2
  <2>5. \A type, since :
            Of(type, since)' = Of(type, since)
                \cup {x \in {new} : x.type = type /\ x.created >= since}
    BY <2>3, CommitSeen
  <2> QED BY <2>1, <2>4, <2>5
<1>4. ASSUME NEW p \in Payments, CommitRow(PaymentRow(p)), PaymentRow(p) \in LedgerRows
      PROVE  \A type \in {"usage", "refund"} : \A since : Of(type, since)' = Of(type, since)
  <2>1. PaymentRow(p).type = "recharge"
    BY DEF PaymentRow
  <2> QED BY <1>4, <2>1, CommitSeen
<1> QED BY <1>1, <1>2, <1>3, <1>4, StepCommits

\* What a request has read when it charges: fewer usages than the plan has
\* credits and the ledger has refunds.
LEMMA RoomLeft ==
    ASSUME TypeOK, LedgerInv, TimeInv, ControlInv, NEW r \in Requests, Charges(r)
    PROVE  Cardinality(Of("usage", windowStart)) < credits + Cardinality(Of("refund", 0))
<1> DEFINE since == req[r].since
<1>1. /\ since \in Nat /\ windowStart \in Nat /\ credits \in Nat /\ since <= windowStart
      /\ req[r].used \in Nat
  <2>1. req[r] \in RequestStates
    BY DEF TypeOK
  <2> QED BY <2>1 DEF RequestStates, TypeOK, TimeInv
<1>2. UsageSince(since) < credits
  BY DEF Charges, ControlInv, Pc
<1> HIDE DEF since
<1>3. Of("usage", windowStart) \subseteq Of("usage", since)
  <2>1. \A row \in Committed : row.created \in Nat
    BY RowsShow DEF LedgerRows
  <2> QED BY <1>1, <2>1 DEF Of
<1>4. Of("refund", since) \subseteq Of("refund", 0)
  <2>1. \A row \in Committed : row.created \in Nat
    BY RowsShow DEF LedgerRows
  <2> QED BY <2>1 DEF Of
<1> DEFINE used == Cardinality(Of("usage", since))
           given == Cardinality(Of("refund", since))
           inWindow == Cardinality(Of("usage", windowStart))
           all == Cardinality(Of("refund", 0))
<1>5. /\ used \in Nat /\ given \in Nat /\ inWindow \in Nat /\ all \in Nat
      /\ inWindow <= used /\ given <= all
  BY <1>3, <1>4, CountedRows, SubsetCount
<1>6. AtLeastZero(used - given) < credits
  BY <1>2, UsageCount
<1> HIDE DEF used, given, inWindow, all
<1>7. used - given < credits
  BY <1>1, <1>5, <1>6 DEF AtLeastZero
<1>8. inWindow < credits + all
  BY <1>1, <1>5, <1>7
<1> QED BY <1>8 DEF inWindow, all

\* The usages of the window are no more than the credits of the plan and the
\* refunds ever made.
LEMMA WindowStep ==
    ASSUME TypeOK, LedgerInv, TimeInv, ControlInv, WindowInv, [Next]_vars
    PROVE  WindowInv'
<1> DEFINE inWindow == Cardinality(Of("usage", windowStart))
           all == Cardinality(Of("refund", 0))
<1>0. /\ inWindow \in Nat /\ all \in Nat /\ credits \in Nat /\ inWindow <= credits + all
      /\ IsFiniteSet(Of("usage", windowStart)) /\ IsFiniteSet(Of("refund", 0))
      /\ credits' = credits
  BY CountedRows, Scalars DEF TypeOK, WindowInv
<1>1. CASE /\ \A type \in {"usage", "refund"} : \A since : Of(type, since)' = Of(type, since)
           /\ windowStart' = windowStart
  <2>1. inWindow' = inWindow /\ all' = all
    BY <1>1 DEF Of
  <2> QED BY <1>0, <2>1 DEF WindowInv
<1>2. CASE /\ \A type \in {"usage", "refund"} : \A since : Of(type, since)' = Of(type, since)
           /\ Of("usage", windowStart)' = {}
  <2>1. inWindow' = 0 /\ all' = all
    BY <1>2, FS_EmptySet
  <2>2. 0 <= credits + all
    BY <1>0
  <2> QED BY <1>0, <2>1, <2>2 DEF WindowInv
<1>3. ASSUME NEW r \in Requests, NEW new, Charges(r), windowStart' = windowStart,
             \A since : /\ Of("refund", since)' = Of("refund", since)
                       /\ Of("usage", since)' =
                             Of("usage", since) \cup {x \in {new} : x.created >= since}
      PROVE  WindowInv'
  <2>1. all' = all
    BY <1>3
  <2>2. Of("usage", windowStart)' \in {Of("usage", windowStart), Of("usage", windowStart) \cup {new}}
    <3>1. Of("usage", windowStart)' =
              Of("usage", windowStart) \cup {x \in {new} : x.created >= windowStart}
      BY <1>3 DEF Of
    <3> QED BY <3>1
  <2>3. inWindow' = inWindow \/ inWindow' = inWindow + 1
    <3>1. Cardinality(Of("usage", windowStart) \cup {new}) \in {inWindow, inWindow + 1}
      BY <1>0, FS_AddElement
    <3> QED BY <2>2, <3>1
  <2>4. inWindow < credits + all
    BY <1>3, RoomLeft
  <2> HIDE DEF inWindow, all
  <2>5. inWindow' <= credits + all
    BY <1>0, <2>3, <2>4
  <2> QED BY <1>0, <2>1, <2>5 DEF WindowInv, inWindow, all
<1>4. ASSUME NEW r \in Requests, NEW new, windowStart' = windowStart,
             \A since : /\ Of("usage", since)' = Of("usage", since)
                       /\ Of("refund", since)' =
                             Of("refund", since) \cup {x \in {new} : x.created >= since}
      PROVE  WindowInv'
  <2>1. inWindow' = inWindow
    BY <1>4 DEF Of
  <2>2. all' = all \/ all' = all + 1
    <3>1. Of("refund", 0)' \in {Of("refund", 0), Of("refund", 0) \cup {new}}
      BY <1>4
    <3>2. Cardinality(Of("refund", 0) \cup {new}) \in {all, all + 1}
      BY <1>0, FS_AddElement
    <3> QED BY <3>1, <3>2
  <2> HIDE DEF inWindow, all
  <2>3. inWindow' <= credits + all'
    BY <1>0, <2>1, <2>2
  <2> QED BY <1>0, <2>3 DEF WindowInv, inWindow, all
<1> HIDE DEF inWindow, all
<1> QED BY <1>1, <1>2, <1>3, <1>4, CountsStep

\* The credits spent and not given back, and the refunds of charges outside
\* the window, are what the rows counted differ by.
LEMMA WindowBound ==
    ASSUME TypeOK, LedgerInv, WindowInv
    PROVE  WindowQuota
<1> DEFINE usage == Of("usage", windowStart)
           refund == Of("refund", 0)
           spent == {row \in usage : Standing(row.ref)}
           older == {row \in refund : row.ref \notin Refs(usage)}
<1>1. /\ IsFiniteSet(usage) /\ IsFiniteSet(refund)
      /\ Cardinality(usage) \in Nat /\ Cardinality(refund) \in Nat
      /\ credits \in Nat
      /\ Cardinality(usage) <= credits + Cardinality(refund)
  BY CountedRows DEF TypeOK, WindowInv
<1>2. /\ \A row, other \in usage : row.ref = other.ref => row = other
      /\ \A row, other \in refund : row.ref = other.ref => row = other
  BY DEF Of, LedgerInv
<1>3. \A row \in usage : Standing(row.ref) <=> row.ref \notin Refs(refund)
  <2>1. \A row \in usage : Charged(row.ref)
    BY RowsShow DEF Of
  <2> QED BY <2>1 DEF Standing
<1>4. Refs(spent) = Refs(usage) \ Refs(refund) /\ Refs(older) = Refs(refund) \ Refs(usage)
  <2>1. spent = {row \in usage : row.ref \notin Refs(refund)}
    BY <1>3
  <2> HIDE DEF usage, refund
  <2> QED BY <2>1 DEF Refs, older
<1>5. IsFiniteSet(spent) /\ IsFiniteSet(older)
  <2>1. spent \in SUBSET usage /\ older \in SUBSET refund
    OBVIOUS
  <2> HIDE DEF usage, refund, spent, older
  <2> QED BY <1>1, <2>1, FS_Subset
<1>6. /\ \A row, other \in spent : row.ref = other.ref => row = other
      /\ \A row, other \in older : row.ref = other.ref => row = other
  BY <1>2
<1>7. WindowQuota <=> Cardinality(spent) <= credits + Cardinality(older)
  BY DEF WindowQuota
<1> HIDE DEF usage, refund, spent, older
<1>8. /\ IsFiniteSet(Refs(usage)) /\ Cardinality(Refs(usage)) = Cardinality(usage)
      /\ IsFiniteSet(Refs(refund)) /\ Cardinality(Refs(refund)) = Cardinality(refund)
      /\ Cardinality(Refs(spent)) = Cardinality(spent)
      /\ Cardinality(Refs(older)) = Cardinality(older)
  BY <1>1, <1>2, <1>5, <1>6, RefsCount
<1>9. /\ Cardinality(spent) \in Nat /\ Cardinality(older) \in Nat
      /\ Cardinality(spent) + Cardinality(refund) = Cardinality(older) + Cardinality(usage)
  BY <1>4, <1>8, Differences
<1> QED BY <1>1, <1>7, <1>9

-----------------------------------------------------------------------------
(* The limit on the model.                                                 *)

Slug(since) == {row \in Of("usage", since) : row.model = "slug"}

\* The references that are counted are finitely many.
LEMMA RefsFinite ==
    ASSUME TypeOK, LedgerInv
    PROVE  /\ IsFiniteSet(UsedRefs) /\ IsFiniteSet(RefundedRefs)
           /\ IsFiniteSet(SlugSpent) /\ IsFiniteSet(Older)
<1>1. ASSUME NEW type, NEW since PROVE IsFiniteSet(Refs(Of(type, since)))
  <2>1. \A row, other \in Of(type, since) : row.ref = other.ref => row = other
    BY DEF Of, LedgerInv
  <2> QED BY <2>1, CountedRows, RefsCount
<1>2. IsFiniteSet(UsedRefs) /\ IsFiniteSet(RefundedRefs)
  BY <1>1 DEF UsedRefs, RefundedRefs
<1>3. SlugSpent \subseteq UsedRefs /\ Older \subseteq RefundedRefs
  BY DEF SlugSpent, Older, UsedRefs, Refs
<1> QED BY <1>2, <1>3, FS_Subset

\* What the check has counted: the charges it saw and that still stand are
\* fewer than the limit and the refunds of other windows.
LEMMA CheckCounts ==
    ASSUME TypeOK, LedgerInv, TimeInv, NEW r \in Requests,
           AtLeastZero(Net(ModelRows("slug", req[r].since))) < ModelLimit
    PROVE  Cardinality(SlugSpent \cap Refs(ModelRows("slug", req[r].since)))
               < ModelLimit + Cardinality(Older)
<1> DEFINE since == req[r].since
           used == Slug(since)
           given == {row \in Of("refund", since) : row.model = "slug"}
<1>1. since \in Nat /\ windowStart \in Nat /\ since <= windowStart /\ ModelLimit \in Nat
  <2>1. req[r] \in RequestStates
    BY DEF TypeOK
  <2> QED BY <2>1, QuotaLedgerAssumption DEF RequestStates, TypeOK, TimeInv
<1>2. Of("usage", windowStart) \subseteq Of("usage", since)
  <2>1. \A row \in Committed : row.created \in Nat
    BY RowsShow DEF LedgerRows
  <2> QED BY <1>1, <2>1 DEF Of
<1>3. Net(ModelRows("slug", since)) = Cardinality(used) - Cardinality(given)
  <2>1. {row \in ModelRows("slug", since) : row.type = "usage"} = used
    BY DEF ModelRows, Of, Slug
  <2>2. {row \in ModelRows("slug", since) : row.type = "refund"} = given
    BY DEF ModelRows, Of
  <2> QED BY <2>1, <2>2 DEF Net
<1>4. /\ IsFiniteSet(used) /\ IsFiniteSet(given)
      /\ Cardinality(Refs(used)) = Cardinality(used)
      /\ Cardinality(Refs(given)) = Cardinality(given)
      /\ IsFiniteSet(Refs(used)) /\ IsFiniteSet(Refs(given))
  <2>1. used \in SUBSET Of("usage", since) /\ given \in SUBSET Of("refund", since)
    BY DEF Slug
  <2>2. IsFiniteSet(used) /\ IsFiniteSet(given)
    BY <2>1, CountedRows, FS_Subset
  <2>3. /\ \A row, other \in used : row.ref = other.ref => row = other
        /\ \A row, other \in given : row.ref = other.ref => row = other
    BY DEF Of, LedgerInv, Slug
  <2> HIDE DEF used, given
  <2> QED BY <2>2, <2>3, RefsCount
<1>5. Refs(given) \subseteq RefundedRefs
  <2>1. \A row \in given : row.ref \in RefundedRefs
    BY RowsShow DEF Of, RefundedRefs, Refunded
  <2> QED BY <2>1 DEF Refs
<1>6. SlugSpent \cap Refs(ModelRows("slug", since)) \subseteq Refs(used) \ Refs(given)
  BY <1>2, <1>5 DEF SlugSpent, Refs, Slug
<1>7. Refs(given) \ Refs(used) \subseteq Older
  <2> SUFFICES ASSUME NEW row \in given, row.ref \notin Refs(used), row.ref \in UsedRefs
               PROVE  FALSE
    BY <1>5 DEF Older, Refs
  <2>1. PICK use \in Of("usage", windowStart) : use.ref = row.ref
    BY DEF UsedRefs, Refs
  <2>2. use.model = req[row.ref].name /\ row.model = req[row.ref].name
    BY <2>1 DEF Of, LedgerInv
  <2>3. use \in used
    BY <1>2, <2>1, <2>2 DEF Slug
  <2> QED BY <2>1, <2>3 DEF Refs
<1> HIDE DEF used, given, since
<1> DEFINE seen == SlugSpent \cap Refs(ModelRows("slug", since))
           left == Refs(used) \ Refs(given)
           other == Refs(given) \ Refs(used)
<1>8. /\ IsFiniteSet(left) /\ IsFiniteSet(other)
      /\ Cardinality(left) \in Nat /\ Cardinality(other) \in Nat
      /\ Cardinality(used) \in Nat /\ Cardinality(given) \in Nat
      /\ Cardinality(left) + Cardinality(given) = Cardinality(other) + Cardinality(used)
  BY <1>4, Differences
<1>9. Cardinality(seen) \in Nat /\ Cardinality(seen) <= Cardinality(left)
  BY <1>6, <1>8, SubsetCount
<1>10. Cardinality(Older) \in Nat /\ Cardinality(other) <= Cardinality(Older)
  BY <1>7, RefsFinite, SubsetCount
<1>11. AtLeastZero(Cardinality(used) - Cardinality(given)) < ModelLimit
  BY <1>3 DEF since
<1>12. Cardinality(used) - Cardinality(given) < ModelLimit
  BY <1>1, <1>8, <1>11 DEF AtLeastZero
<1> HIDE DEF left, other, seen
<1>13. Cardinality(seen) < ModelLimit + Cardinality(Older)
  BY <1>1, <1>8, <1>9, <1>10, <1>12
<1> QED BY <1>13 DEF seen, since

\* A step that adds no charge of this window keeps the bound.
LEMMA Shrinks ==
    ASSUME TypeOK, LedgerInv, TypeOK', LedgerInv', ModelInv,
           SlugSpent' \subseteq SlugSpent, Older \subseteq Older', IsFiniteSet(Older'),
           \A r \in Requests : Charged(r) => Stays(r)
    PROVE  /\ \A r \in Requests :
                 /\ Pc(r) \in {"allowed", "charging", "charge"}
                 /\ req'[r].seen = req[r].seen
                 => Cardinality(SlugSpent' \cap req'[r].seen) < ModelLimit + Cardinality(Older')
           /\ \A refs \in SUBSET SlugSpent' :
                 Cardinality(refs) > ModelLimit + Cardinality(Older') =>
                     \E r, s \in refs :
                         r # s /\ r \notin req'[s].seen /\ s \notin req'[r].seen
<1>1. /\ Cardinality(Older) \in Nat /\ Cardinality(Older') \in Nat /\ ModelLimit \in Nat
      /\ Cardinality(Older) <= Cardinality(Older')
  BY SubsetCount, QuotaLedgerAssumption
<1>2. IsFiniteSet(SlugSpent)
  BY RefsFinite
<1>3. ASSUME NEW r \in Requests, Pc(r) \in {"allowed", "charging", "charge"},
             req'[r].seen = req[r].seen
      PROVE  Cardinality(SlugSpent' \cap req'[r].seen) < ModelLimit + Cardinality(Older')
  <2> DEFINE now == SlugSpent \cap req[r].seen
             then == SlugSpent' \cap req'[r].seen
  <2>1. Cardinality(now) < ModelLimit + Cardinality(Older)
    BY <1>3 DEF ModelInv, Pc
  <2>2. then \in SUBSET now /\ now \in SUBSET SlugSpent
    BY <1>3
  <2> HIDE DEF now, then
  <2>3. Cardinality(then) \in Nat /\ Cardinality(now) \in Nat
        /\ Cardinality(then) <= Cardinality(now)
    <3>1. IsFiniteSet(now)
      BY <1>2, <2>2, FS_Subset
    <3> QED BY <2>2, <3>1, SubsetCount
  <2>4. Cardinality(then) < ModelLimit + Cardinality(Older')
    BY <1>1, <2>1, <2>3
  <2> QED BY <2>4 DEF then
<1>4. ASSUME NEW refs \in SUBSET SlugSpent',
             Cardinality(refs) > ModelLimit + Cardinality(Older')
      PROVE  \E r, s \in refs :
                 r # s /\ r \notin req'[s].seen /\ s \notin req'[r].seen
  <2>1. refs \in SUBSET SlugSpent
    OBVIOUS
  <2>2. Cardinality(refs) > ModelLimit + Cardinality(Older)
    <3>1. Cardinality(refs) \in Nat
      BY <1>2, <2>1, SubsetCount
    <3> QED BY <1>1, <1>4, <3>1
  <2>3. PICK r, s \in refs : r # s /\ r \notin req[s].seen /\ s \notin req[r].seen
    BY <2>1, <2>2 DEF ModelInv
  <2>4. \A x \in refs : req'[x].seen = req[x].seen
    <3>1. \A x \in SlugSpent : Charged(x) /\ x \in Requests
      BY RowsShow DEF SlugSpent, Refs, Of, LedgerInv
    <3> QED BY <2>1, <3>1 DEF Stays
  <2> QED BY <2>3, <2>4
<1> QED BY <1>3, <1>4

\* A request whose model was allowed keeps what the check has seen.
LEMMA AllowedKeeps ==
    ASSUME TypeOK, LedgerInv, [Next]_vars, NEW r \in Requests,
           Pc(r)' \in {"allowed", "charging", "charge"}
    PROVE  \/ Checks(r) /\ UNCHANGED windowStart
           \/ /\ Pc(r) \in {"allowed", "charging", "charge"}
              /\ req'[r].seen = req[r].seen
<1>1. CASE req'[r] = req[r]
  BY <1>1 DEF Pc
<1>2. ASSUME Program(r), UNCHANGED windowStart
      PROVE  \/ Checks(r) /\ UNCHANGED windowStart
             \/ /\ Pc(r) \in {"allowed", "charging", "charge"}
                /\ req'[r].seen = req[r].seen
  <2>1. ~Answers(r)
    BY DEF Answers, Failed
  <2> QED BY <1>2, <2>1
          DEF Program, Enters, Resolves, Begins, Locks, Leaves, Fails, Charges,
              GivesBack, Stays
<1>3. CASE Stops
  <2>1. req'[r] = req[r] \/ Pc(r)' = "crashed"
    BY <1>3 DEF Stops
  <2> QED BY <1>1, <2>1
<1> QED BY <1>1, <1>2, <1>3, StepCases DEF Moves, TypeOK, Untouched

\* What a check has seen is charged, and stays so.
LEMMA SeenCharged ==
    ASSUME TypeOK, TypeOK', LedgerInv, ModelInv, [Next]_vars, NEW r \in Requests,
           NEW s \in req'[r].seen
    PROVE  Charged(s)'
<1>1. s \in Requests
  <2>1. req'[r] \in RequestStates
    BY DEF TypeOK
  <2> QED BY <2>1 DEF RequestStates
<1>2. s \in req[r].seen \/ Checks(r)
  BY StepCases
     DEF Moves, TypeOK, Untouched, Stops, Program, Enters, Resolves, Begins, Locks,
         Leaves, Answers, Fails, Charges, GivesBack, Stays
<1>3. CASE s \in req[r].seen
  BY <1>1, <1>3, OnlyOwnRows DEF ModelInv
<1>4. CASE Checks(r)
  <2>1. PICK row \in Committed : row.ref = s /\ row.type \in {"usage", "refund"}
    BY <1>4 DEF Checks, Refs, ModelRows, Of
  <2>2. Charged(s)
    BY <2>1, RowsShow DEF LedgerInv
  <2> QED BY <1>1, <2>2, OnlyOwnRows
<1> QED BY <1>2, <1>3, <1>4

\* A charge that goes beyond the limit is one of two that did not see each
\* other; the others only lower what counts.
LEMMA ModelStep ==
    ASSUME TypeOK, TypeOK', LedgerInv, LedgerInv', TimeInv, ControlInv, ModelInv, [Next]_vars
    PROVE  ModelInv'
<1>0. /\ \A r \in Requests : Charged(r) => Stays(r)
      /\ IsFiniteSet(SlugSpent) /\ IsFiniteSet(Older)
      /\ Cardinality(Older) \in Nat /\ ModelLimit \in Nat
  BY Identity, RefsFinite, FS_CardinalityType, QuotaLedgerAssumption
<1> SUFFICES /\ \A r \in Requests : Pc(r)' \in {"allowed", "charging", "charge"} =>
                   Cardinality(SlugSpent' \cap req'[r].seen) < ModelLimit + Cardinality(Older')
             /\ \A refs \in SUBSET SlugSpent' :
                   Cardinality(refs) > ModelLimit + Cardinality(Older') =>
                       \E r, s \in refs :
                           r # s /\ r \notin req'[s].seen /\ s \notin req'[r].seen
  BY SeenCharged DEF ModelInv, Pc
<1>1. CASE /\ \A type \in {"usage", "refund"} : \A since : Of(type, since)' = Of(type, since)
           /\ windowStart' = windowStart
  <2>1. UsedRefs' = UsedRefs /\ RefundedRefs' = RefundedRefs
    BY <1>1 DEF UsedRefs, RefundedRefs, Of
  <2>2. SlugSpent' = SlugSpent /\ Older' = Older
    <3>1. Of("usage", windowStart)' = Of("usage", windowStart)
      BY <1>1 DEF Of
    <3> QED BY <2>1, <3>1 DEF SlugSpent, Older
  <2>3. ASSUME NEW r \in Requests, Checks(r)
        PROVE  Pc(r)' = "allowed" =>
                   Cardinality(SlugSpent' \cap req'[r].seen) < ModelLimit + Cardinality(Older')
    BY <2>2, <2>3, CheckCounts DEF Checks
  <2>4. ASSUME NEW r \in Requests, Pc(r)' \in {"allowed", "charging", "charge"}
        PROVE  Cardinality(SlugSpent' \cap req'[r].seen) < ModelLimit + Cardinality(Older')
    <3>1. CASE Checks(r)
      BY <2>3, <2>4, <3>1 DEF Checks
    <3>2. CASE ~Checks(r)
      BY <1>0, <2>2, <2>4, <3>2, AllowedKeeps, Shrinks
    <3> QED BY <3>1, <3>2
  <2> QED BY <1>0, <2>2, <2>4, Shrinks
<1>2. CASE /\ \A type \in {"usage", "refund"} : \A since : Of(type, since)' = Of(type, since)
           /\ Of("usage", windowStart)' = {}
           /\ UNCHANGED req
  <2>1. UsedRefs' = {} /\ RefundedRefs' = RefundedRefs /\ SlugSpent' = {}
    BY <1>2 DEF UsedRefs, RefundedRefs, Refs, SlugSpent
  <2>2. Older' = RefundedRefs
    BY <2>1 DEF Older
  <2>3. SlugSpent' \subseteq SlugSpent /\ Older \subseteq Older' /\ IsFiniteSet(Older')
    BY <2>1, <2>2, RefsFinite DEF Older
  <2>4. \A r \in Requests : ~Checks(r)
    BY <1>2 DEF Checks, Pc
  <2> QED BY <1>0, <2>3, <2>4, AllowedKeeps, Shrinks
<1>3. ASSUME NEW r \in Requests, NEW new, GivesBack(r), Moves(r), windowStart' = windowStart,
             new.ref = r,
             \A since : /\ Of("usage", since)' = Of("usage", since)
                       /\ Of("refund", since)' =
                             Of("refund", since) \cup {x \in {new} : x.created >= since}
      PROVE  /\ SlugSpent' \subseteq SlugSpent /\ Older \subseteq Older' /\ IsFiniteSet(Older')
             /\ \A x \in Requests : ~Checks(x)
  <2>1. UsedRefs' = UsedRefs /\ Of("usage", windowStart)' = Of("usage", windowStart)
    BY <1>3 DEF UsedRefs, Of
  <2>2. RefundedRefs \subseteq RefundedRefs' /\ RefundedRefs' \subseteq RefundedRefs \cup {r}
    BY <1>3 DEF RefundedRefs, Refs
  <2>3. SlugSpent' \subseteq SlugSpent /\ Older \subseteq Older' /\ Older' \subseteq Older \cup {r}
    BY <2>1, <2>2 DEF SlugSpent, Older
  <2>4. IsFiniteSet(Older')
    <3>1. IsFiniteSet(Older \cup {r})
      BY <1>0, FS_AddElement
    <3> QED BY <2>3, <3>1, FS_Subset
  <2>5. ASSUME NEW x \in Requests PROVE ~Checks(x)
    <3>1. x = r \/ req'[x] = req[x]
      BY <1>3 DEF Moves, TypeOK
    <3> QED BY <1>3, <3>1 DEF Checks, GivesBack, Pc
  <2> QED BY <2>3, <2>4, <2>5
<1>4. ASSUME NEW r \in Requests, NEW new, Charges(r), Moves(r), windowStart' = windowStart,
             new.ref = r,
             \A since : /\ Of("refund", since)' = Of("refund", since)
                       /\ Of("usage", since)' =
                             Of("usage", since) \cup {x \in {new} : x.created >= since}
      PROVE  /\ \A x \in Requests : Pc(x)' \in {"allowed", "charging", "charge"} =>
                   Cardinality(SlugSpent' \cap req'[x].seen) < ModelLimit + Cardinality(Older')
             /\ \A refs \in SUBSET SlugSpent' :
                   Cardinality(refs) > ModelLimit + Cardinality(Older') =>
                       \E x, s \in refs :
                           x # s /\ x \notin req'[s].seen /\ s \notin req'[x].seen
  <2>1. RefundedRefs' = RefundedRefs
    BY <1>4 DEF RefundedRefs
  <2>2. UsedRefs \subseteq UsedRefs' /\ UsedRefs' \subseteq UsedRefs \cup {r}
    BY <1>4 DEF UsedRefs, Refs, Of
  <2>3. ~Charged(r) /\ r \notin RefundedRefs
    <3>1. ~Charged(r)
      BY <1>4 DEF Charges, ControlInv, BeforeCharge, Pc
    <3>2. Refunded(r) => Charged(r)
      BY DEF Refunded, Refs, Of, LedgerInv
    <3> QED BY <3>1, <3>2 DEF Refunded, RefundedRefs
  <2>4. Older' = Older
    BY <2>1, <2>2, <2>3 DEF Older
  <2>5. SlugSpent' \subseteq SlugSpent \cup {r}
    <3>1. Of("usage", windowStart)' \subseteq Of("usage", windowStart) \cup {new}
      BY <1>4 DEF Of
    <3> QED BY <1>4, <2>1, <3>1 DEF SlugSpent, Refs
  <2>6. \A x \in Requests : req'[x].seen = req[x].seen /\ r \notin req[x].seen
    <3>1. \A x \in Requests : req'[x].seen = req[x].seen
      BY <1>4 DEF Moves, TypeOK, Charges, Stays
    <3> QED BY <2>3, <3>1 DEF ModelInv
  <2>7. ASSUME NEW x \in Requests, Pc(x)' \in {"allowed", "charging", "charge"}
        PROVE  Cardinality(SlugSpent' \cap req'[x].seen) < ModelLimit + Cardinality(Older')
    <3>1. x # r /\ Pc(x) \in {"allowed", "charging", "charge"}
      BY <1>4, <2>7 DEF Charges, Moves, TypeOK, Pc
    <3> DEFINE then == SlugSpent' \cap req'[x].seen
               now == SlugSpent \cap req[x].seen
    <3>2. then \in SUBSET now
      BY <2>5, <2>6
    <3>3. Cardinality(now) < ModelLimit + Cardinality(Older)
      BY <3>1 DEF ModelInv, Pc
    <3>4. IsFiniteSet(now)
      BY <1>0, FS_Subset
    <3> HIDE DEF then, now
    <3>5. Cardinality(then) <= Cardinality(now) /\ Cardinality(then) \in Nat /\ Cardinality(now) \in Nat
      BY <3>2, <3>4, SubsetCount
    <3>6. Cardinality(then) < ModelLimit + Cardinality(Older)
      BY <1>0, <3>3, <3>5
    <3> QED BY <2>4, <3>6 DEF then
  <2>8. ASSUME NEW refs \in SUBSET SlugSpent',
               Cardinality(refs) > ModelLimit + Cardinality(Older')
        PROVE  \E x, s \in refs :
                   x # s /\ x \notin req'[s].seen /\ s \notin req'[x].seen
    <3>1. \A x \in SlugSpent : Charged(x) /\ x \in Requests
      BY RowsShow DEF SlugSpent, Refs, Of, LedgerInv
    <3>2. CASE r \notin refs
      <4>1. refs \in SUBSET SlugSpent
        BY <2>5, <3>2
      <4>2. PICK x, s \in refs : x # s /\ x \notin req[s].seen /\ s \notin req[x].seen
        BY <2>4, <2>8, <4>1 DEF ModelInv
      <4> QED BY <2>6, <3>1, <4>1, <4>2
    <3>3. CASE r \in refs
      <4> DEFINE others == refs \ {r}
                 seen == SlugSpent \cap req[r].seen
      <4>1. others \in SUBSET SlugSpent
        BY <2>5
      <4>2. IsFiniteSet(others) /\ IsFiniteSet(seen)
        BY <1>0, <4>1, FS_Subset
      <4>3. refs = others \cup {r} /\ r \notin others
        BY <3>3
      <4>4. Cardinality(refs) = Cardinality(others) + 1 /\ Cardinality(others) \in Nat
        <5> HIDE DEF others
        <5> QED BY <4>2, <4>3, FS_AddElement, FS_CardinalityType
      <4>5. Cardinality(seen) < ModelLimit + Cardinality(Older)
        BY <1>4 DEF ModelInv, Charges, Pc
      <4>6. ~(others \subseteq seen)
        <5> SUFFICES ASSUME others \in SUBSET seen PROVE FALSE
          OBVIOUS
        <5> HIDE DEF others, seen
        <5>1. Cardinality(others) <= Cardinality(seen) /\ Cardinality(seen) \in Nat
          BY <4>2, SubsetCount
        <5>2. Cardinality(others) + 1 > ModelLimit + Cardinality(Older)
          BY <2>4, <2>8, <4>4
        <5> QED BY <1>0, <4>4, <4>5, <5>1, <5>2
      <4>7. PICK s \in others : s \notin req[r].seen
        BY <4>1, <4>6
      <4>8. r # s /\ s \in refs /\ s \in Requests
        BY <3>1, <4>1
      <4> QED BY <2>6, <3>3, <4>7, <4>8
    <3> QED BY <3>2, <3>3
  <2> QED BY <2>7, <2>8
<1>5. \A r \in Requests : /\ Row(r, "usage", req[r].current - 1).ref = r
                          /\ Row(r, "refund", req[r].current + 1).ref = r
  BY DEF Row
<1>6. CASE \E r \in Requests :
               LET new == Row(r, "refund", req[r].current + 1) IN
                  /\ GivesBack(r) /\ Moves(r)
                  /\ windowStart' = windowStart
                  /\ \A since : /\ Of("usage", since)' = Of("usage", since)
                                /\ Of("refund", since)' =
                                      Of("refund", since)
                                         \cup {x \in {new} : x.created >= since}
  <2>1. /\ SlugSpent' \subseteq SlugSpent /\ Older \subseteq Older' /\ IsFiniteSet(Older')
        /\ \A x \in Requests : ~Checks(x)
    BY <1>3, <1>5, <1>6
  <2> QED BY <1>0, <2>1, AllowedKeeps, Shrinks
<1> QED BY <1>1, <1>2, <1>4, <1>5, <1>6, CountsStep

\* The bound, read off the state.
LEMMA ModelBound ==
    ASSUME TypeOK, LedgerInv, ModelInv
    PROVE  ModelLimitExceededOnlyByRace
<1> DEFINE spent == {row \in Of("usage", windowStart) :
                        row.model = "slug" /\ Standing(row.ref)}
           older == {row \in Of("refund", 0) :
                        row.ref \notin Refs(Of("usage", windowStart))}
<1>1. /\ \A row, other \in spent : row.ref = other.ref => row = other
      /\ \A row, other \in older : row.ref = other.ref => row = other
  BY DEF Of, LedgerInv
<1>2. IsFiniteSet(spent) /\ IsFiniteSet(older)
  <2>1. spent \in SUBSET Of("usage", windowStart) /\ older \in SUBSET Of("refund", 0)
    OBVIOUS
  <2> HIDE DEF spent, older
  <2> QED BY <2>1, CountedRows, FS_Subset
<1>3. Refs(older) = Older
  BY DEF Refs, Older, RefundedRefs, UsedRefs
<1>4. Refs(spent) = SlugSpent
  <2>1. \A row \in Of("usage", windowStart) : Standing(row.ref) <=> row.ref \notin RefundedRefs
    BY RowsShow DEF Of, Standing, RefundedRefs
  <2> QED BY <2>1 DEF Refs, SlugSpent
<1>5. ModelLimitExceededOnlyByRace <=>
          (Cardinality(spent) > ModelLimit + Cardinality(older) =>
              \E r, s \in Refs(spent) :
                  r # s /\ r \notin req[s].seen /\ s \notin req[r].seen)
  BY DEF ModelLimitExceededOnlyByRace
<1> HIDE DEF spent, older
<1>6. Cardinality(SlugSpent) = Cardinality(spent) /\ Cardinality(Older) = Cardinality(older)
  BY <1>1, <1>2, <1>3, <1>4, RefsCount
<1> QED BY <1>4, <1>5, <1>6 DEF ModelInv

-----------------------------------------------------------------------------
(* The running balance.                                                    *)

\* The sum of the ledger, as counts of its rows.
LEMMA BookedCount ==
    ASSUME TypeOK
    PROVE  /\ Sum = Cardinality(Of("usage", 0)) - Cardinality(Of("refund", 0))
           /\ Cardinality(Of("usage", 0)) \in Nat /\ Cardinality(Of("refund", 0)) \in Nat
           /\ Cardinality(Of("recharge", 0)) \in Nat
<1>1. \A row \in Committed : row.created >= 0
  BY RowsShow DEF LedgerRows
<1>2. /\ {row \in Committed : row.type = "usage"} = Of("usage", 0)
      /\ {row \in Committed : row.type = "refund"} = Of("refund", 0)
  BY <1>1 DEF Of
<1> QED BY <1>2, CountedRows DEF Sum, Net

\* When the rows commit in the order of their time, the latest is the last.
LEMMA LastIsLatest ==
    ASSUME TypeOK, NEW new \in LedgerRows, CommitRow(new), CommittedInOrder'
    PROVE  /\ CommittedInOrder
           /\ new \notin Committed
           /\ CurrentBalance' = new.balance
<1>1. /\ Len(ledger) \in Nat /\ Len(ledger') = Len(ledger) + 1
      /\ ledger'[Len(ledger) + 1] = new
      /\ \A i \in 1..Len(ledger) : ledger'[i] = ledger[i]
      /\ DOMAIN ledger = 1..Len(ledger)
  <2>1. ledger \in Seq(LedgerRows) /\ ledger' = Append(ledger, new)
    BY DEF TypeOK, CommitRow
  <2> QED BY <2>1
<1>2. CommittedInOrder
  BY <1>1 DEF CommittedInOrder
<1>3. ASSUME NEW row \in Committed PROVE row.created < new.created
  <2>1. PICK i \in 1..Len(ledger) : row = ledger[i]
    BY <1>1 DEF Committed, ToSet
  <2>2. i \in 1..Len(ledger') /\ Len(ledger) + 1 \in 1..Len(ledger') /\ i < Len(ledger) + 1
    BY <1>1
  <2> QED BY <1>1, <2>1, <2>2 DEF CommittedInOrder
<1>4. new \notin Committed
  <2>1. new.created \in Nat
    BY DEF LedgerRows
  <2> QED BY <1>3, <2>1
<1>5. Committed' = Committed \cup {new} /\ ledger' # <<>>
  BY CommitTyped
<1>6. \A row \in Committed' :
          (\A other \in Committed' : other.created <= row.created) <=> row = new
  <2>1. new.created \in Nat /\ \A row \in Committed : row.created \in Nat
    BY RowsShow DEF LedgerRows
  <2> QED BY <1>3, <1>5, <2>1
<1>7. CurrentBalance' = (CHOOSE row \in Committed' :
                            \A other \in Committed' : other.created <= row.created).balance
  BY <1>5 DEF CurrentBalance
<1>8. (CHOOSE row \in Committed' :
           \A other \in Committed' : other.created <= row.created) = new
  BY <1>5, <1>6
<1> QED BY <1>2, <1>4, <1>7, <1>8

\* Each commit books one more or one less than the latest balance, unless
\* it was read before another commit.
LEMMA BalanceStep ==
    ASSUME TypeOK, LedgerInv, ControlInv, BalanceInv, [Next]_vars
    PROVE  BalanceInv'
<1> DEFINE u == Cardinality(Of("usage", 0))
           f == Cardinality(Of("refund", 0))
           g == Cardinality(Of("recharge", 0))
<1>0. /\ u \in Nat /\ f \in Nat /\ g \in Nat /\ Amount \in Nat
      /\ Recharged = Amount * g /\ Sum = u - f
  BY BookedCount, QuotaLedgerAssumption DEF Recharged
<1>1. CASE SameBooks
  <2>1. /\ CurrentBalance' = CurrentBalance /\ CommittedInOrder' = CommittedInOrder
        /\ Recharged' = Recharged /\ Sum' = Sum /\ raced' = raced
    BY <1>1, SameQueries DEF SameBooks, CommittedInOrder, Recharged, Sum, Net
  <2>2. ASSUME NEW p \in Payments, pay'[p].pc = "read", ~raced
        PROVE  pay'[p].current = CurrentBalance
    <3>1. \/ pay'[p] = pay[p]
          \/ pay'[p].current = CurrentBalance
      BY <2>2, StepCases DEF PaymentProgram, TypeOK, Untouched, Stops, NewPayment
    <3> QED BY <2>2, <3>1 DEF BalanceInv
  <2> QED BY <2>1, <2>2 DEF BalanceInv
<1>2. ASSUME NEW new \in LedgerRows, CommitRow(new), ~raced', CommittedInOrder'
      PROVE  /\ CurrentBalance = Amount * g - (u - f)
             /\ CurrentBalance' = new.balance
             /\ Sum' = Cardinality(Of("usage", 0)') - Cardinality(Of("refund", 0)')
             /\ \A type : Cardinality(Of(type, 0)') =
                            IF new.type = type THEN Cardinality(Of(type, 0)) + 1
                                               ELSE Cardinality(Of(type, 0))
  <2>1. ~raced
    BY <1>2 DEF CommitRow
  <2>2. CommittedInOrder /\ new \notin Committed /\ CurrentBalance' = new.balance
    BY <1>2, LastIsLatest
  <2>3. CurrentBalance = Amount * g - (u - f)
    BY <1>0, <2>1, <2>2 DEF BalanceInv
  <2>4. new.created >= 0
    BY DEF LedgerRows
  <2>5. ASSUME NEW type
        PROVE  Cardinality(Of(type, 0)') =
                   IF new.type = type THEN Cardinality(Of(type, 0)) + 1
                                      ELSE Cardinality(Of(type, 0))
    <3>1. Of(type, 0)' = IF new.type = type THEN Of(type, 0) \cup {new} ELSE Of(type, 0)
      BY <1>2, <2>4, CommitSeen
    <3>2. new \notin Of(type, 0) /\ IsFiniteSet(Of(type, 0))
      BY <2>2, CountedRows DEF Of
    <3> QED BY <3>1, <3>2, FS_AddElement
  <2>6. Sum' = Cardinality(Of("usage", 0)') - Cardinality(Of("refund", 0)')
    <3>1. \A row \in Committed' : row.created >= 0
      BY <1>2, CommitTyped, RowsShow DEF LedgerRows
    <3>2. /\ {row \in Committed' : row.type = "usage"} = Of("usage", 0)'
          /\ {row \in Committed' : row.type = "refund"} = Of("refund", 0)'
      BY <3>1 DEF Of
    <3> QED BY <3>2 DEF Sum, Net
  <2> QED BY <2>2, <2>3, <2>5, <2>6
<1>3. ASSUME NEW new \in LedgerRows, CommitRow(new), ~raced',
             \A p \in Payments : p = new.ref => pay'[p].pc # "read",
             \A p \in Payments : p # new.ref => pay'[p] = pay[p]
      PROVE  \A p \in Payments : pay'[p].pc # "read"
  BY <1>3 DEF CommitRow
<1>4. ASSUME NEW r \in Requests, Charges(r), UNCHANGED pay, ~raced',
             Row(r, "usage", req[r].current - 1) \in LedgerRows
      PROVE  /\ CommittedInOrder' => CurrentBalance' = Recharged' - Sum'
             /\ \A p \in Payments : pay'[p].pc # "read"
  <2> DEFINE new == Row(r, "usage", req[r].current - 1)
  <2>1. new.type = "usage" /\ new.ref = r /\ new.balance = CurrentBalance - 1
    BY <1>4 DEF Row, Charges, ControlInv, Pc
  <2>2. CommitRow(new) /\ new \in LedgerRows /\ r \notin Payments
    BY <1>4, QuotaLedgerAssumption DEF Charges
  <2> HIDE DEF new
  <2>3. ASSUME CommittedInOrder' PROVE CurrentBalance' = Recharged' - Sum'
    <3>0. /\ CurrentBalance = Amount * g - (u - f)
          /\ CurrentBalance' = CurrentBalance - 1
          /\ Sum' = Cardinality(Of("usage", 0)') - Cardinality(Of("refund", 0)')
          /\ Cardinality(Of("usage", 0)') = u + 1
          /\ Cardinality(Of("refund", 0)') = f
          /\ Cardinality(Of("recharge", 0)') = g
      BY <1>2, <1>4, <2>1, <2>2, <2>3
    <3>1. CurrentBalance' = Amount * g - (u - f) - 1 /\ Sum' = u + 1 - f
      <4> HIDE DEF u, f, g
      <4>1. CurrentBalance' = Amount * g - (u - f) - 1
        BY <3>0
      <4>2. Sum' = u + 1 - f
        BY <1>0, <3>0
      <4> QED BY <4>1, <4>2
    <3>4. Recharged' = Amount * g
      BY <3>0 DEF Recharged
    <3>2. Amount * g \in Int
      BY <1>0
    <3> HIDE DEF u, f, g
    <3> QED BY <1>0, <3>1, <3>2, <3>4
  <2>4. \A p \in Payments : pay'[p].pc # "read"
    BY <1>3, <1>4, <2>1, <2>2
  <2> QED BY <2>3, <2>4
<1>5. ASSUME NEW r \in Requests, GivesBack(r), UNCHANGED pay, ~raced',
             Row(r, "refund", req[r].current + 1) \in LedgerRows
      PROVE  /\ CommittedInOrder' => CurrentBalance' = Recharged' - Sum'
             /\ \A p \in Payments : pay'[p].pc # "read"
  <2> DEFINE new == Row(r, "refund", req[r].current + 1)
  <2>1. new.type = "refund" /\ new.ref = r /\ new.balance = CurrentBalance + 1
    BY <1>5 DEF Row, GivesBack, ControlInv, Pc
  <2>2. CommitRow(new) /\ new \in LedgerRows /\ r \notin Payments
    BY <1>5, QuotaLedgerAssumption DEF GivesBack
  <2> HIDE DEF new
  <2>3. ASSUME CommittedInOrder' PROVE CurrentBalance' = Recharged' - Sum'
    <3>0. /\ CurrentBalance = Amount * g - (u - f)
          /\ CurrentBalance' = CurrentBalance + 1
          /\ Sum' = Cardinality(Of("usage", 0)') - Cardinality(Of("refund", 0)')
          /\ Cardinality(Of("usage", 0)') = u
          /\ Cardinality(Of("refund", 0)') = f + 1
          /\ Cardinality(Of("recharge", 0)') = g
      BY <1>2, <1>5, <2>1, <2>2, <2>3
    <3>1. /\ CurrentBalance' = Amount * g - (u - f) + 1
          /\ Sum' = u - (f + 1)
      BY <3>0
    <3>4. Recharged' = Amount * g
      BY <3>0 DEF Recharged
    <3>2. Amount * g \in Int
      BY <1>0
    <3> HIDE DEF u, f, g
    <3> QED BY <1>0, <3>1, <3>2, <3>4
  <2>4. \A p \in Payments : pay'[p].pc # "read"
    BY <1>3, <1>5, <2>1, <2>2
  <2> QED BY <2>3, <2>4
<1>6. ASSUME NEW p \in Payments, pay[p].pc = "read", pay'[p].pc = "done", ~raced',
             CommitRow(PaymentRow(p)), PaymentRow(p) \in LedgerRows,
             \A x \in Payments \ {p} : pay'[x] = pay[x]
      PROVE  /\ CommittedInOrder' => CurrentBalance' = Recharged' - Sum'
             /\ \A x \in Payments : pay'[x].pc # "read"
  <2>0. ~raced
    BY <1>6 DEF CommitRow
  <2>1. /\ PaymentRow(p).type = "recharge" /\ PaymentRow(p).ref = p
        /\ PaymentRow(p).balance = CurrentBalance + Amount
    BY <1>6, <2>0 DEF PaymentRow, BalanceInv
  <2>2. ASSUME CommittedInOrder' PROVE CurrentBalance' = Recharged' - Sum'
    <3>1. /\ CurrentBalance' = Amount * g - (u - f) + Amount
          /\ Sum' = u - f
          /\ Recharged' = Amount * (g + 1)
      BY <1>2, <1>6, <2>1, <2>2 DEF Recharged
    <3>2. Amount * g \in Int /\ Amount * (g + 1) = Amount * g + Amount
      BY <1>0
    <3> HIDE DEF u, f, g
    <3> QED BY <1>0, <3>1, <3>2
  <2>3. \A x \in Payments : pay'[x].pc # "read"
    BY <1>3, <1>6, <2>1
  <2> QED BY <2>2, <2>3
<1>7. CASE raced'
  BY <1>7 DEF BalanceInv
<1>8. CASE ~raced' /\ ~SameBooks
  <2>1. /\ CommittedInOrder' => CurrentBalance' = Recharged' - Sum'
        /\ \A p \in Payments : pay'[p].pc # "read"
    BY <1>4, <1>5, <1>6, <1>8, StepCommits
  <2> QED BY <2>1 DEF BalanceInv
<1> QED BY <1>1, <1>7, <1>8

-----------------------------------------------------------------------------
(* The invariant.                                                          *)

\* The invariant holds at first.
LEMMA InvInit == Init => IInv
<1> SUFFICES ASSUME Init PROVE IInv
  OBVIOUS
<1>1. /\ Committed = {} /\ \A type, since : Of(type, since) = {}
      /\ \A ref : ~Charged(ref) /\ ~Refunded(ref)
  BY DEF Init, Committed, ToSet, Of, Charged, Refunded, Refs
<1>2. TypeOK
  <2>1. NewRequest \in RequestStates
    BY DEF NewRequest, RequestStates, RequestLabels, Names
  <2>2. NewPayment \in PaymentStates
    BY DEF NewPayment, PaymentStates
  <2>3. /\ credits \in Nat /\ clock \in Nat /\ windowStart \in Nat /\ resets \in Nat
        /\ faults \in Nat /\ raced \in BOOLEAN /\ lock \in Requests \cup {Free}
    BY QuotaLedgerAssumption DEF Init
  <2>4. ledger \in Seq(LedgerRows)
    BY DEF Init
  <2>5. req \in [Requests -> RequestStates] /\ pay \in [Payments -> PaymentStates]
    BY <2>1, <2>2 DEF Init
  <2> QED BY <2>3, <2>4, <2>5 DEF TypeOK
<1>3. LedgerInv
  BY <1>1 DEF LedgerInv, Init
<1>4. TimeInv
  BY <1>1 DEF TimeInv, Init, NewRequest, NewPayment
<1>5. ControlInv
  BY <1>1 DEF ControlInv, Init, NewRequest, OfSession
<1>6. OutcomeInv
  BY DEF OutcomeInv, Init, NewRequest
<1>7. WindowInv
  <2>1. Cardinality(Of("usage", windowStart)) = 0 /\ Cardinality(Of("refund", 0)) = 0
    BY <1>1, FS_EmptySet
  <2>2. credits \in Nat
    BY <1>2 DEF TypeOK
  <2> QED BY <2>1, <2>2 DEF WindowInv
<1>8. ModelInv
  <2>1. SlugSpent = {} /\ Older = {}
    BY <1>1 DEF SlugSpent, Older, RefundedRefs, Refs
  <2>2. ASSUME NEW refs \in SUBSET SlugSpent
        PROVE  ~(Cardinality(refs) > ModelLimit + Cardinality(Older))
    <3>1. Cardinality(refs) = 0 /\ Cardinality(Older) = 0
      BY <2>1, FS_EmptySet
    <3> QED BY <3>1, QuotaLedgerAssumption
  <2> QED BY <2>2 DEF ModelInv, Init, NewRequest
<1>9. BalanceInv
  <2>1. Sum = 0 /\ Recharged = 0 /\ CurrentBalance = 0
    <3>1. Cardinality({}) = 0
      BY FS_EmptySet
    <3>2. Sum = 0
      BY <1>1, <3>1 DEF Sum, Net
    <3>3. Recharged = Amount * 0 /\ Amount \in Nat
      BY <1>1, <3>1, QuotaLedgerAssumption DEF Recharged
    <3> QED BY <3>2, <3>3 DEF Init, CurrentBalance
  <2> QED BY <2>1 DEF BalanceInv, Init, NewPayment
<1> QED BY <1>2, <1>3, <1>4, <1>5, <1>6, <1>7, <1>8, <1>9 DEF IInv

\* Every step keeps it.
LEMMA InvStep == IInv /\ [Next]_vars => IInv'
<1> SUFFICES ASSUME IInv, [Next]_vars PROVE IInv'
  OBVIOUS
<1>0. TypeOK /\ LedgerInv /\ TimeInv /\ ControlInv /\ OutcomeInv /\ WindowInv /\ ModelInv
      /\ BalanceInv
  BY DEF IInv
<1>1. TypeOK' /\ LedgerInv'
  BY <1>0, TypeStep, LedgerStep
<1>2. TimeInv' /\ ControlInv' /\ OutcomeInv'
  BY <1>0, <1>1, TimeStep, ControlStep, OutcomeStep
<1>3. WindowInv'
  BY <1>0, WindowStep
<1>4. ModelInv'
  BY <1>0, <1>1, ModelStep
<1>5. BalanceInv'
  BY <1>0, BalanceStep
<1> QED BY <1>1, <1>2, <1>3, <1>4, <1>5 DEF IInv

\* The invariant behind the four properties, whatever interleaves.
THEOREM QuotaInvariant == Spec => []IInv
BY InvInit, InvStep, PTL DEF Spec

\* Every variable keeps its type.
THEOREM LedgerTyped == Spec => []TypeOK
<1>1. IInv => TypeOK
  BY DEF IInv
<1> QED BY <1>1, QuotaInvariant, PTL

\* The credits spent in a window and not given back stay within the plan,
\* whoever reserves at once (the FOR UPDATE of ReserveInfiniteCodeUsage).
THEOREM WindowHolds == Spec => []WindowQuota
<1>1. IInv => WindowQuota
  BY WindowBound DEF IInv
<1> QED BY <1>1, QuotaInvariant, PTL

\* The model limit is only exceeded by requests that were checked without
\* each other (the check comes before the reservation).
THEOREM ModelLimitHolds == Spec => []ModelLimitExceededOnlyByRace
<1>1. IInv => ModelLimitExceededOnlyByRace
  BY ModelBound DEF IInv
<1> QED BY <1>1, QuotaInvariant, PTL

\* Without faults, what has ended costs a credit exactly when it was
\* answered (reserve, then refund on failure, once per reference).
THEOREM ChargedWhenAnswered == Spec => []OutcomeIsCharged
<1>1. IInv => OutcomeIsCharged
  <2> SUFFICES ASSUME IInv, faults = 0, NEW r \in Requests, req[r].pc \in Ended
               PROVE  Standing(r) <=> req[r].metered /\ req[r].pc \in {"answered", "cut"}
    BY DEF OutcomeIsCharged
  <2>1. Standing(r) <=> Charged(r) /\ ~Refunded(r)
    BY DEF Standing, Refunded
  <2>2. CASE req[r].pc \in {"answered", "cut"}
    BY <2>1, <2>2 DEF IInv, OutcomeInv
  <2>3. CASE req[r].pc \notin {"answered", "cut"}
    <3>1. req[r].pc \in {"denied", "refunded", "error"}
      BY <2>3 DEF IInv, OutcomeInv, Ended
    <3>2. ~Standing(r)
      BY <2>1, <3>1 DEF IInv, OutcomeInv, ControlInv, BeforeCharge
    <3> QED BY <2>3, <3>2
  <2> QED BY <2>2, <2>3
<1> QED BY <1>1, QuotaInvariant, PTL

\* The latest balance is the sum of the ledger, as long as commits are in
\* the order of their times and none falls into a payment.
THEOREM BalanceAdds == Spec => []BalanceIsSum
<1>1. IInv => BalanceIsSum
  BY DEF IInv, BalanceInv, BalanceIsSum
<1> QED BY <1>1, QuotaInvariant, PTL

=============================================================================
