# Infinite-AI: specifications

TLA+ models of the parts of Infinite-AI in which several actors change the
same state, the TLC runs that check them on small instances, and the proofs
that extend some of the results to instances of any size. Paths are relative
to the repository; Go paths to `services/`.

## 1. The system

| Component | State | Operations | Talks to |
|---|---|---|---|
| Chat runs (`core/internal/app/chat_runs_handlers.go`, `shared/store/chat_runs.go`) | `chat_runs`, `chat_run_events`, `messages`; in memory `runCancels` | post or edit a message, generate in a goroutine, cancel, list active runs | upstream models, PostgreSQL, the tab |
| Event stream and tab (`streamChatRunEvents`, `apps/web/src/pages/UserApp.tsx`) | event log, SSE connection, the tab's active requests | poll, send, resume, settle, reconcile, reload | chat runs |
| Infinite Code quota (`core/internal/app/infinite_code_quota.go`, `shared/store/infinite_code.go`) | `quota_ledgers` | reserve, refund, count per window and model | developer API, billing |
| Billing and redeem codes (`core/internal/app/webhook_handlers.go`, `shared/store/billing.go`, `redeem.go`) | `payment_orders`, `subscriptions`, `redeem_codes`, `redeem_claims` | create an order, take callbacks, fulfil, claim a code | payment gateway, quota ledger, worker |
| Subscription worker (`worker/`) | the same rows | expire subscriptions and codes on a ticker | billing |
| Developer API (`core/internal/app/api_handlers.go`, `developer_proxy.go`) | counters per key and minute | five handlers: admit, reserve, answer whole, streamed or relayed, refund | quota, model routing |
| Device login (`bff/internal/app/infinite_code.go`) | Redis: device states, user codes, access and refresh tokens | issue a code, confirm or refuse it, poll, refresh | command-line client, browser |
| Model routing (`core/internal/app/ai.go`, `openai_endpoint.go`, `shared/store/endpoint_adaptations.go`) | a map in memory and `endpoint_adaptations`: what each endpoint serves, and where | call a route in one of three strategies, retry, fall back between protocols, stream, remember | upstream models, chat runs, developer API |
| Accounts (`bff/internal/app/routes.go`, `auth_challenges.go`, `shared/store/auth.go`, `admin.go`) | `users`, `user_sessions`, `oauth_identities`, `affiliate_invites`; Redis: codes, cooldowns | send and verify a code, register, log in, reset a password, change a status, delete | mail and SMS gateways, OAuth providers |
| Administrator's access, risk control (`routes.go`, `risk_control.go`) | `admin_users`, `admin_sessions`; Redis: setups, counters, blocks | set up the first administrator, log in, count, block | - |
| Sharing (`core/internal/app/share_handlers.go`, `shared/store/conversation_shares.go`) | `conversation_shares`, collaborators | save the settings, join under a limit, post | conversations, plans |
| Artifacts (`core/internal/app/artifacts.go`, `shared/store/artifacts.go`) | `chat_artifacts`, `chat_artifact_versions` | create from an answer, save a version | chat runs |
| Attachments (`core/internal/app/user_handlers.go`, `shared/store/user_app.go`) | `attachments`, an upload session in Redis, the object in MinIO | initiate, upload, complete, link | chat runs |
| Search, administration, settings, logs, web forms | rows, mostly written by one statement | CRUD | - |

What is hard in it:

- A run is worked on by its goroutine while cancel and list-active requests
  work on the same row; no transaction spans two of their statements, and the
  process may be lost between any two. Nothing restarts a run.
- The tab learns about a run from a polled log over a connection that breaks,
  and from a reconciliation that runs beside it.
- Transactions are READ COMMITTED and `created_at` is when one *began*. What a
  user has (the ledger's last balance, the latest subscription) is found by
  `ORDER BY created_at DESC`, so the order of commits and the order of
  timestamps both matter.
- Payment callbacks come repeated, late and out of order.
- Redis handlers read and write in separate commands.
- What an upstream endpoint serves is found out by trying, remembered across
  calls and restarts, and may have changed when it is used.
- An attachment lives in three stores, and no step covers two of them.

`PROJECT.json` lists the hazards at their lines and the properties that would
catch them.

### What makes each part correct

- Runs: one outcome and it is final; one stop notice, only on a canceled run;
  the log agrees with the row; a stop silences the goroutine; a canceled run
  settles even when its upstream has stalled.
- Stream: every event is applied, once and in order; a tab that stops waiting
  is right to, and shows the outcome; a run that is over releases its tab.
- Quota: a window's credits are not exceeded; a credit is spent exactly by a
  request that was answered; the balance is the sum.
- Routing: a reader is given one answer; a call fails only when every endpoint
  did; what is remembered does not stand in the way; calls end.
- Accounts: a code is accepted once; the code delivered last is the valid one;
  no session survives the password or the status it was opened under.
- Administrator: there is one first; a counter expires, so that nobody is
  blocked for good.
- Content: an artifact shows its newest version; the text of an attachment is
  that of its file; a share keeps the limit and its code.
- Billing: an order is delivered once and never marked paid without delivery;
  a code is not oversold; paid time is not lost; one subscription is active.
- Device login: a code is exchanged once; what the user was told about it
  holds; a session never loses its last token half-way through a refresh.

## 2. Modules

| Module | Models | Composes |
|---|---|---|
| `ChatRunLifecycle` | what a run promises to its observer | - |
| `ChatRuns` | every handler and goroutine that changes a run | implements `ChatRunLifecycle` |
| `MCChatRuns` | symmetry, the state after a crash | `ChatRuns` |
| `ChatRuns_proofs` | theorems about `ChatRuns` | `ChatRuns` |
| `ChatRunStream` | event log, SSE handler, one tab | writers as in `ChatRuns`, seen from the log |
| `ChatRunStream_proofs` | theorems about `ChatRunStream` | `ChatRunStream` |
| `QuotaLedger`, `MCQuotaLedger` | reservations, refunds, recharges | - |
| `QuotaLedger_proofs` | theorems about `QuotaLedger` | `QuotaLedger` |
| `Billing`, `MCBilling` | orders, callbacks, redeem codes, worker | - |
| `Billing_proofs` | theorems about `Billing` | `Billing` |
| `EndpointAdaptation` | one call of one endpoint, and what is learnt from it | - |
| `ModelRouting`, `MCModelRouting` | a call of a route, its threads | `EndpointAdaptation` |
| `ModelRouting_proofs` | theorems about both | `ModelRouting` |
| `Accounts`, `MCAccounts` | codes, accounts, identities, sessions | - |
| `Accounts_proofs` | theorems about `Accounts` | `Accounts` |
| `RiskGuard` | counters and blocks | - |
| `AdminAccess`, `MCAdminAccess` | first administrator, logins | `RiskGuard` |
| `ContentRequests` | the requests on one conversation | - |
| `SharedConversations`, `Artifacts`, `Attachments` | a share, an artifact, an attachment | `ContentRequests` |
| `ConversationContent`, `MCConversationContent` | all three, and the conversation's deletion | those three |
| `ConversationContent_proofs` | theorems about the four modules | `ConversationContent` |
| `DeviceAuth`, `MCDeviceAuth` | device codes and refresh tokens | - |
| `BffLogin_proofs` | theorems about the two logins of the BFF | `DeviceAuth`, `AdminAccess` |

### ChatRuns

One action per SQL statement, named for the function that issues it. `pc`
says where each goroutine and request is; a run identifier is also the actor
that creates the run and works on it. `row`, `messages`, `events` are the
tables; `ctx` is a goroutine's context together with its `runCancels` entry.
A statement may fail (`DbFault`); what the code does then - usually ignore
it, once treat it as "not canceled" (`NoStopSeen`) - is part of each action.
`EditMessage` is the one transaction. Output is counted, not spelled out; an
event is appended atomically here. The synchronous image path that creates no
run (`user_handlers.go:434-455`) is left out.

### ChatRunStream

One run, one tab. The sequence number of an event is taken when its INSERT
runs and the event is visible when it commits, so with two writers a reader
can pass a number that appears later. The handler polls pages of events, ends
at a terminal event, at its 85-second limit (`Deadline`) or when the run is
over; the tab moves the number it resumes from only after a stream that ended
cleanly; `Settle` and `Reconcile` are the two asynchronous sequences that
release a request, each reading before it writes. Any request of either may
fail (`SettleFails`, `ReconcileFails`), and a POST whose stream never told the
run's id is given up (`told`).

The writers drop the error of every statement they run; `failed` says which
kinds have failed. A message that is not stored (`Save`) makes the run a failed
one and its "error" event `Bare`: the tab throws on it as on a broken
connection (`Thrown`) and settles with the server. A row that is not updated
(`EndRow`) is announced all the same.

### QuotaLedger

The requests of one user at the five handlers of the developer API. `Admit`
is what they all begin with; each handler names the scopes an API key needs
and the ways its answer may be made (`Ways`). A session of Infinite Code has
every scope and pays with credits; an API key pays nothing. All sessions, of
whatever user, count as one key for the rate per minute, so whether it is
exceeded is not in the hands of the requests modelled: `Reject` is open at
any time. `LockAndRead` is `SELECT ... FOR UPDATE` on the user with the reads
that follow in the same transaction; the inserting and committing step is
`Charge` or `Refund`. The window and the model check come before the
transaction begins, as in `reserveInfiniteCodeQuota`. A stream that breaks
off is an error however much of it was sent, and refunded; a relayed answer
counts as soon as its status is fine, and what becomes of its body is not
looked at (`cut`). A recharge takes no lock, but its foreign key waits for
one. `ResetWindow` starts a window at any moment; the arithmetic of
`infiniteCodeWindowBounds` is abstracted to that.

### Billing

One user with one redeem code that another user wants too. A fulfilment locks
its order, a claim its code, campaign and plan; both then replace the user's
subscription with an UPDATE that finds its rows when it starts, waits for
those another transaction has changed and drops the ones that no longer match
(`MatchActive`, `ExpireActive`). The foreign key of a paid subscription waits
for a claim that holds the plan, and a claim may wait for the subscription:
`BreakDeadlock` aborts one of them. Of an order's states only "succeeded" is
told from the others; of a plan only that it has a period.

### DeviceAuth

One device code; every Redis command is a step. A token is named by the
request that issued it. A page keeps the state it has read in `read` and
writes it back whatever happened in between. Access tokens and the thirty
days of a refresh token are left out.

### EndpointAdaptation and ModelRouting

A *thread* is a call at one endpoint. What an endpoint serves - whole answers,
streams, the responses API - and where (`place`: with or without `/v1`) is
external and may change. The ladder of `callOpenAICompatible` and its streamed
sibling is a set of predicates on the error and the stage a call is at
(`ToStream`, `ToResponses`, `ToChat`, `ToNextURL`, `ToScan`); `Fail` follows
the first that applies. `Remember` (the map) and `Save` (the table) are two
steps. `ModelRouting` adds the three strategies, the second attempt after an
error of connectivity, the timeout of calls that are not streamed, contexts
that end, and a reader that refuses (`deaf`: a stopped run whose worker
missed the signal). The reader asks the run's row anew for each piece, so a
check that fails lets one through that should have been refused (`Takes`;
`missed` names the calls this gave text to). Text is counted by the upstream
request it came from. A stream may begin with whitespace (`Piece`): one that
ends with nothing else is an error, though the reader has been given it, and
one that breaks off is an answer, whatever has come (`EndOfStream`,
`Misbehave`).

### Accounts

Everything behind one contact. A code, a password and a session are named by
the request that made them, so "the code accepted" and "the password it was
opened with" are the same kind of thing. Sending, verifying, registering,
logging in, resetting and an administrator's changes are sequences of single
statements; deleting an account is the one transaction. The captcha is not
modelled, nor are the ends of sessions.

### RiskGuard and AdminAccess

`riskGuard` asks, for each of two keys, whether it is blocked, increments,
sets the expiry of a new counter and blocks: four commands. A command that
fails lets the request through. `AdminAccess` has the setup of the first
administrator, where `CreateFirstAdmin` is one transaction that locks the
table, and the login behind the guard. A password or one-time code that is
wrong ends the request like any other error.

### ContentRequests and the modules over it

`ContentRequests` has the conversation's row and the requests, each a record
of what it does and has read; `Fail` ends one after any of its steps.
`SharedConversations` keeps the code the owner set last (`meant`) beside the
code in the row; `Artifacts` numbers versions by the largest plus one and
updates the preview in a statement of its own; `Attachments` has the row, the
upload session and the object, which may be empty, and whose read may fail
without failing the completion (`ExtractText`: a line with the file's name is
stored for its text). `ConversationContent` runs them on the same
requests, with deletions that cascade as the schema says. An answer in a
shared conversation makes no artifacts.

## 3. Runs

| Run | Instance | Distinct states | Shows |
|---|---|---|---|
| `chat_race` | 1 run, 3 requests, 2 pieces of output, 1 crash, 1 fault | 0.7 M | claim invariant, final outcome, one piece of output after a stop |
| `chat_edit` | 2 runs, 1 request, edits | 2.2 M | log agrees with row, nothing but an edit abandons a run, refinement of `ChatRunLifecycle` |
| `chat_live` | 1 run, 2 requests, fairness | 28 k | cancellation settles, image runs report, silence after a stop |
| `chat_reopen` | 2 runs left by a crash, 3 requests, 1 fault | 0.17 M | one notice each, list-active finishes all it found, or all but the one whose statement failed |
| `stream_tab` | pages of 2, 1 piece, 1 broken stream before the tab gives up, 2 mishaps: lost connections and requests, reloads, crashes, kinds of failed statements | 1.5 M | every event once, a released run is shown, an ended run releases |
| `quota_race` | 2 requests, 1 recharge, 1 and 2 credits, 2 new windows, 1 fault | 9.3 M | window quota, model limit, outcome is charged, balance is sum |
| `billing_pay` | 2 orders, 2 callbacks at once out of 3, 2 claimers of 1 use, 1 fault, 3 dates | 7.7 M | the four properties of `Billing` |
| `device_login` | 2 polls, 2 forms, 3 refreshes, 1 fault | 0.5 M | the five properties of `DeviceAuth` |
| `accounts_session` | 4 requests, 2 at once, 2 accounts, 1 fault | 3.2 M | codes are accepted once, the latest works, sessions are current |
| `admin_login` | 3 requests, 2 devices, limits 2 and 1, 2 faults | 0.4 M | one first administrator, counters expire, blocks end |
| `routing_calls` | 2 calls of 1 endpoint or 1 of 2, 6 routes, 5 upstreams, 1 mishap, restart or failed check, 1 change | 2.0 M | one answer to a reader, when calls fail, what is remembered, calls end |
| `content_share` | 4 requests, 2 users, 2 codes, limits 0 to 2, 1 request that ends early or file that cannot be read | 0.6 M | preview, text of the file, limit and code of a share |

Why these bounds are enough to be interesting: every race in the code is
between two actors; a third is there wherever one may overtake two others that
already overlap (requests in `chat_race`, refreshes in `device_login`), and
four where a property needs something to be there before two overlap
(`accounts_session`, `content_share`). One fault reaches every "one statement
of several failed" state, and `stream_tab` has two mishaps, so that a failed
statement meets a lost connection, a reload or another failed statement; one
crash reaches every half-finished sequence;
`chat_reopen` begins where two sequences were cut; two faults in `admin_login`
are one for each of the two keys. Two windows let a refund fall behind its
charge and a third window begin after it. Pages of two events make a poll end
inside, at and past the end of the log. Three callbacks are a success,
something that takes it back, and the success again. Two endpoints are enough
for "the next one", since no more is known of the rest. The real constants
(pages of 100, five failures, 120 calls a minute) only move the point at which
these cases happen.

`chat_live` has no faults and no crashes: with either, what its properties
promise is not so, since a run whose claim failed stays "canceling" until
somebody lists or cancels the runs again. `ListSettles` counts such runs
instead, and `EndedRunReleases` allows every mishap the model has.

Deadlock is checked where the model has a step for being done (`Quiescent`,
`Done`) or an environment that never stops (`content_share`). In
`accounts_session`, `admin_login` and `routing_calls` the requests and calls
are used up, and the system stops then.

### Fairness

`ChatRuns` (`FairSpec`, `ReopenSpec`), `ChatRunStream`, `ModelRouting` and
`AdminAccess` have any: weak fairness of the steps a started handler,
goroutine or timer takes by itself, which the Go scheduler and the database's
answers justify, and of the expiry of a Redis key that has one. None for
users, for the network, or for an upstream - except that an upstream call
that is not streamed has a timeout, an image run's upstream likewise, and that
a canceled context makes any call return (`UpstreamReturns`, `Interrupt`).

### What holds only under a condition

The conditions in the properties are the code's real limits, found by
dropping them:

- Output checked before a stop is logged after it (`OneDeltaAfterStop`); a
  failed check lets more through.
- The row says "canceled" before the notice is stored, so a tab released by
  the row may not show the notice (`ReleasedRunIsShown` speaks of the other two
  outcomes); a run that ends during a reload is on neither list until the
  next load.
- A failed run whose message could not be stored has no message to show, and
  after a failed UPDATE at the end of a run "done" or "error" releases a tab
  while the row is still active (`ReleasedRunIsShown`: `"save"`, `"end"` in
  `failed`).
- With two writers an event can be passed and missed (`EveryEventOnce` speaks
  of one); the reconciliation then releases the tab (`EndedRunReleases`).
- After a broken connection output is applied again, and so it may be after an
  error that carries no message, on which the tab throws (`EveryEventOnce`).
- A list-active request leaves a run active whose claim fails, and goes on with
  the next (`ListSettles`).
- An edit during the last statements of a run leaves the row running behind a
  logged "done" (`OutcomeMatchesRow`).
- Requests checked side by side exceed a model's limit together, and requests
  that give the upstream name count for no limit
  (`ModelLimitExceededOnlyByRace`). A refund gives its credit to the window
  it falls into (`WindowQuota`).
- A transaction that began earlier and commits later, or a recharge beside a
  reservation, loses an amount from the running balance (`BalanceIsSum`).
- A relayed answer that breaks off costs its credit, a streamed one does not
  (`OutcomeIsCharged`); the refund itself may fail or be lost.
- A late "failed" callback takes an order out of "succeeded", and the next
  success delivers it again (`FulfilledOnce`).
- Fulfilments and claims of one user that overlap may lose a period and leave
  two subscriptions active (`OnlyLatestActive`, `PaidTimeKept`). A
  subscription without an end counts as having no time left, and a claim
  replaces whatever was left.
- Two polls that overlap both get tokens, and a page that writes back a state
  deleted since makes the code usable again (`ExchangedOnceUnlessOverlapped`).
  A refusal is shown even when it was not stored (`RefusalHolds`).
- A code is accepted twice by two verifications that overlap, or when its
  deletion failed (`CodeAcceptedOnce`). The code delivered last is not the
  valid one when it could not be stored, when two sends passed the cooldown
  together, or when the code before it was being verified
  (`LatestCodeWorks`).
- A login beside a change of password or status keeps a session the change
  should have ended; a failed revocation keeps them all; a login through a
  provider asks neither for the status nor for the password
  (`SessionIsCurrent`).
- A counter whose expiry failed stays, and every block is followed by another
  (`CountersExpire`, `NobodyBlockedForGood`).
- A remembered responses API that is gone is repaired by a streamed call only,
  a remembered URL that answers 404 by one that is not streamed only, and an
  upstream that serves the responses API alone without saying so is never
  found (`BeyondRepair`, in `AdaptationRecovers`).
- After a reader refused, the remaining endpoints are still called, and the
  text of one of them follows the first if the check of the stop fails then
  (`OutputNotRepeated`: `missed`). The whitespace of a stream that had nothing
  else stays with the reader while the next endpoint is asked.
- Two users who join at once exceed the limit of a share by one
  (`JoinsKeepLimit`), two saves of its settings that overlap bring a replaced
  code back (`OldCodeAdmitsNobody`), two saves of an artifact leave the older
  one in the preview (`ArtifactShowsNewest`), and an upload beside a
  completion leaves the text of another file (`TextIsOfTheFile`).
- An attachment whose file is empty, or could not be read when it was
  completed, is ready with a line for its text that has the file's name, and
  nothing reads the file again (`TextIsOfTheFile`: `Extracts`).

## 4. Proofs

`ChatRuns_proofs` proves, for any sets of runs and requests and any bounds:

- `TypeCorrect`: `Spec => []TypeOK`, one lemma per group of actions.
- `ClaimIsExclusive`: `Spec => []ClaimInv`.
- `StopNoticeIsUnique`, `StopNoticeIsTrue`: its consequences.
- `OutcomeIsFinal`: the action property `TerminalIsFinal`.

The argument. "At most one stop notice" is not inductive: a step that
publishes the notice preserves it only if the publisher is the only one and
has not done it. `ClaimInv` adds that whoever is between its claim and its
publication is alone on that run (`ClaimExclusive`), which follows from the
row having been taken by an UPDATE whose WHERE clause excludes "canceled", so
the row must stay canceled - no other WHERE clause lets it go. Two facts close
the gaps: a deleted conversation is empty (`DeletedIsEmpty`), since a claimant
of a run that is gone may not be alone and must not be able to write; and a
run that is not inserted has no row (`NotYetInserted`), since InsertRun is the
one statement that writes a status without looking at the old one. Most steps
touch nothing the invariant speaks of and are handled once (`QuietPreserves`).
The assumptions are those of `ChatRuns`: the two kinds of actors are disjoint
and the bounds are numbers.

It goes on from there to `LogMatchesRow` (`OutcomeMatchesRow`), `OutputStops`
(`OneDeltaAfterStop`), `StopIsSilent` (`StopSilencesRun`) and
`LifecycleRefined`, that `ChatRuns` implements `ChatRunLifecycle` under its
refinement mapping (`ImplementsLifecycle`). A run's row and log are written by
its goroutine and by whoever cancels it, so what the others may do to a run is
said once (`Outside`) and every invariant is shown to survive it; the steps of
the goroutine are then taken one by one. `OutcomeInvariant` is inductive with
two facts about the goroutine's way out. It announces its end as its last
step, and finds there that the row is no longer active, or that its answer is
gone, unless a statement failed (`Settled`). And while no check has failed,
what it is about to append was allowed before "canceled" was in the log, or is
the first piece after it (`DeltaInv`). `StopIsSilent` is a box under a box: a
run that is stopped before the last check of its goroutine is from then on in a
state it does not leave (`Silenced`), in which the check is still to come and
will see the stop, or the run is being finished, or the conversation is gone;
and it has stored nothing when it gets there (`BeforeInv`). For the refinement
the initial states map to initial states, and every step maps to a step of the
specification or to a stutter: a change between "running" and "canceling" and
an event that ends nothing are stutters, a crash and the end of a conversation
hit all runs at once.

`ChatRunStream_proofs` proves the type invariant (`TypeCorrect`) and the two
safety properties of the run `stream_tab`, `EveryEventOnce`
(`EventsReachTabOnce`) and `ReleasedRunIsShown` (`TabShowsOutcome`), for any
page size, any number of pieces of output and of failures before the tab gives
up, and any number of lost connections and requests, failed statements, reloads
and crashes. They follow from
one inductive invariant, `IInv` (`StreamInvariant`):

- `Numbered`: no two events, committed or waiting to be, have one number.
- `WriterInv`: what the log, the row and the stored messages say of each other
  while goroutine and stop handler go through their steps. A "done" in the log
  means the row is "completed" or "canceled", or that the goroutine is through
  and its UPDATE of the row has failed (`Unended`; `Allows` says this of each
  event). A row that is "completed" means the answer is stored, and one that is
  "failed" that the error is, unless its INSERT failed (`OutcomeStored`).
- `PipeLogged` and `ReleaseInv`: what is on its way to the tab is in the log;
  and whatever may still put messages on screen - a page of messages read
  back, a reconciliation in its last step, a "done" that waits for the end of
  its stream - was read when the run was over. The tab reads the row before the
  messages, so what it is about to apply has the outcome in it, and a row that
  has ended does not change (`RowStays`).
- `PipeAscends`: what is on its way is in the order of its numbers, and none is
  past the position of the connection.
- `AloneInv` and `CoverInv`: until the row is "canceled" the goroutine is the
  only writer, so what it has still to commit is numbered past every position
  anyone keeps, the log grows at its end, and nothing at or below a position is
  missing from what was applied or is on its way. This is where two writers
  would break the property: a number handed out early and committed late falls
  below a position that has moved on, and `EveryEventOnce` says nothing of it.
- `OrderInv`: until a connection or the process is lost, positions only move
  forward, and a new stream begins where the last one stopped. An error
  without a message is excepted as well: the tab goes back to the position its
  stream began at.

Under it lie lemmas about the page a poll returns. That the events of a finite
set with distinct numbers can be put in order at all (`Ranked`, `Ordered`: the
rank of an event is the number of events up to it) is needed because `InOrder`
chooses such an order; `PageOf` then says what a page is: events past the
position, in order, none left out up to the newest of them.

The attempt corrected the model in two places, the row written at the end and
the end of a stream, which were CASEs whose guards overlapped: TLC takes the
first that holds, as the code does, but the language leaves the value open.
They are IFs in the order of the code now.

`BffLogin_proofs` proves the properties of the two logins the BFF serves,
which share no state. Of the device login it proves all five, for any sets
of polls, refreshes and pages and any number of faults: `TypeCorrect`,
`CodeExchangedOnce`, `ApprovalKept`, `RefusalKept`, `SessionKept`. They follow
from one inductive invariant, `IInv` (`Inductive`):

- `NotYetKnown`: before the client is told of the code nobody acts on it.
- `TokensChained`: a token stays in Redis until the client knows it, and a
  refresh was sent with a token the client knows, of the same session. So the
  token a refresh deletes is never one whose own answer is pending, and the
  refresh's own token takes its place as the one its session keeps.
- `KeysUntilDeleted`: short of a page that writes back a deleted state, the
  keys of a valid code are there until the first deletion, so whoever found
  them read before it. That is why two exchanges must have overlapped.
- `RefusalStored`: while no command fails, a refusal the user was told of is
  what the key says if the key is there, so a poll that comes later finds it.

Two of the properties are their own strengthening once a stored token is
known to count as issued for good (`IssuedStays`). The actions are first
restated one request at a time (`LoadStateEffect` and the lemmas after it);
each conjunct then has a lemma with one step per action. The assumptions are
those of `DeviceAuth`: polls, refreshes and pages are disjoint, and the two
stand-ins for "nothing there" are not values.

Of the administrator's login it proves `OneFirstAdmin` (`FirstAdminIsAlone`)
and `CountersExpire` of `RiskGuard` (`CounterExpiryKept`), for any sets of
requests and devices, any limits and any number of failures. The second is
inductive with the types: the counter is made positive by the one increment
that goes on to set the expiry, and whoever else is about to set one is not
moved by the step. The first needs one thing more (`AdminInv`): a request whose
session is open is done, so that no later step of it changes the administrator
the session is for. That the transaction finds the table empty does the rest: a
request on the way to a session would already have its administrator in it. The
two properties rest on no assumption about the constants.

`QuotaLedger_proofs` proves the four properties of `QuotaLedger`
(`WindowHolds`, `ModelLimitHolds`, `ChargedWhenAnswered`, `BalanceAdds`), for
any requests, payments, plans, limits and bounds. A request has at most one
usage and one refund (`LedgerInv`), so rows can be counted by their references
although the ledger is a sequence. "Spent in this window and not given back",
which the property counts, and what the code computes differ by as much as two
sets of references do (`Differences`), and `WindowQuota` becomes `WindowInv`:
inductive, because whoever charges holds the lock on the user and what it has
read is therefore still so (`ControlInv`). The limit on a model is checked
before the lock is taken and is not inductive as it stands; it is kept by
every set of charges any two of which know of each other (`ModelInv`), and a
request knows of those that had charged when it looked.

`Billing_proofs` proves the four properties of `Billing`
(`OrderDeliveredOnce`, `CodeNotOversold`, `LatestIsActive`, `PaidTimeIsKept`),
for any orders, callbacks and claimers. The invariant says whose a lock is and
what its holder has read under it (`OrderInv`, `CodeInv`), that `created_at`
tells subscriptions apart (`StampInv`), and that an order was delivered as
often as it left "succeeded", and once more if it is in it (`DeliveredInv`).
As long as no change of subscriptions fell into another transaction
(`raced`), what a running one has read of them still holds (`UndisturbedInv`):
they are older than it, and it expires every active one. "The latest" exists
because the subscriptions are a finite set; that a set of dates has a least
element comes from the library's theorem on well-founded orders.

`Accounts_proofs` proves the three properties of `Accounts` (`CodeIsUsedOnce`,
`NewestCodeWorks`, `SessionsAreCurrent`), for any requests and accounts, any
number at once. A code that is stored, or that a verification has read and is
about to delete, has not been accepted unless two verifications crossed or a
deletion failed (`CodeInv`). The code on its way to Redis is the one delivered
last, unless sends overlapped (`DeliveryInv`: whose request has not ended,
which is what makes it inductive). And a request about to open a session has
read a password and a status the account still has, unless a change fell
between (`EntryInv`).

`ModelRouting_proofs` proves the three invariants of the run `routing_calls`
(`AnswerGivenOnce`, `FailsAfterAll`, `AdaptationFindsTheWay`), for any number
of calls and endpoints, any routes, anything endpoints may serve, and any
number of faults and changes. A thread runs only for a call that is at it
(`CallInv`), so the thread that gives text is the one all text of its call came
from, and one that has delivered (`Delivered`) ends with an answer, or because
the reader refused or the context is done. From then on the call gives text
only through a check that failed after the stop, and is `missed`
(`GivenInv`). What a call whose
context lives has put aside failed and has used up its attempts (`AsideInv`).
The third property is about the ladder of fallbacks: a thread that nothing
disturbs is always where the way its endpoint serves is still to be tried
(`OnLadder`), for which the lemma `Ladder` goes through the errors an endpoint
of each kind answers and the stages they are met at. It needs no hypothesis
about the memory, which other threads write meanwhile: a thread looks at it
when it begins and when it turns to other URLs, and any content will do. The
assumption is what an endpoint may be: it serves something, at one of the two
places.

`ConversationContent_proofs` proves the four properties of the run
`content_share` (`PreviewIsNewest`, `TextMatchesFile`, `LimitIsKept`,
`ReplacedCodeIsRefused`), for any requests, users, codes and limits. Each part
of the invariant is about one of the three: a step on another leaves its rows
alone and moves none of its requests, which is shown once (`ShareQuiet`,
`JoinQuiet`, `ArtifactQuiet`, `TextQuiet`). While no saves crossed, the row of
the share holds the code that is meant and a save is about to write what it
means (`ShareInv`); whoever is at the insert has seen a place (`JoinInv`).
Versions are numbered without a gap, since a save inserts a number that is
taken, and is refused, or the next one (`VersionInv`); unless updates crossed or
one was lost, one save at most has its update to come, for the newest version,
and without one the row shows it (`NewestInv`). While no upload crossed a
completion, a text that was read is that of the object there is, or stands in
for it after a read that failed (`Extracts`), and when the attachment is ready
no upload is left to replace it (`TextInv`).

For each of these modules TLC checked the inductive invariant on the instance
of its run before it was proved; for `ModelRouting` also on one with all
shapes of a route.

Model-checked only: liveness under fairness, which is out of the prover's
reach: `CancelSettles`, `ImageRunReports`, `ListSettles`, `EndedRunReleases`,
`CallsEnd`, `NobodyBlockedForGood`. Every other property a run checks is stated
by a theorem.

## 5. Not modelled, and the plan

Next, in this order: `infiniteCodeWindowBounds` and the normalising functions
as pure operators; the free plan's rule about models, and the limits on chat
messages per day.

Left out where a component is modelled in part: the synchronous image path;
what a relayed call adds to the memory of an endpoint (it remembers the URL
that worked, as `Remember` does); the probes of an administrator; generated
images, which are written once; the captcha; the page that shows a share.

Left out for good: text, files and images, HTTP plumbing, administration and
settings that are single statements, logs and metrics nothing decides on, the
views of the web application.
