------------------------------ MODULE ChatRuns ------------------------------
(***************************************************************************)
(* Chat runs of the core service: one conversation, its messages, the      *)
(* chat_runs rows and their event log, as they are changed by             *)
(*   - the handler that posts a user message and the background goroutine  *)
(*     it starts (one actor per run, it only ever works on its own run),   *)
(*   - any number of cancel requests and list-active requests,             *)
(*   - the deletion of the conversation,                                   *)
(*   - the loss of the whole process.                                      *)
(* Every SQL statement is a step of its own: the code never wraps two of   *)
(* them in a transaction here, except the rewrite of a conversation.       *)
(* An event is appended atomically; ChatRunStream models the gap between   *)
(* the allocation of its sequence number and its commit.                   *)
(***************************************************************************)
EXTENDS Naturals, Sequences, FiniteSets

CONSTANTS
    Runs,        \* run ids; a run id is also the actor that creates and works on it
    Requests,    \* cancel and list-active HTTP requests
    NoRun,       \* the target of a request that has none yet
    MaxDeltas,   \* bound: pieces of output one run emits
    MaxCrashes,  \* bound: losses of the process
    MaxFaults    \* bound: SQL statements that return an error

ASSUME ChatRunsAssumption ==
    /\ Runs \cap Requests = {}
    /\ NoRun \notin Runs
    /\ MaxDeltas \in Nat
    /\ MaxCrashes \in Nat
    /\ MaxFaults \in Nat

Actors == Runs \cup Requests

\* handleCreateChatMessage starts a "stream" run, or a "reasoning" run when
\* deep search is on; handleCreateChatImage starts an "image" run.
Modes == {"stream", "reasoning", "image"}

ActiveStatus == {"running", "canceling"}
TerminalStatus == {"completed", "failed", "canceled"}
Statuses == {"absent"} \cup ActiveStatus \cup TerminalStatus

\* Assistant-side messages: the answer, the text of an upstream error, and
\* the notice finishCanceledRun leaves.
Kinds == {"user", "answer", "failure", "stopped"}
Messages == [run : Runs, kind : Kinds]

Deltas == {"assistant_delta"}
TerminalEvents == {"done", "error", "canceled"}
EventTypes == {"run_started", "user", "image_pending", "search_sources"}
                  \cup Deltas \cup TerminalEvents

FinishLabels == {"claim", "stopMessage", "attach", "canceledEvent"}
RunLabels ==
    {"idle", "insert", "run_started", "user", "image_announce", "launch",
     "plan", "image_pending", "generate", "delta", "sourced", "returned",
     "chunk", "chunkEvent", "pause", "finalCheck", "save", "complete",
     "doneEvent", "failedCheck", "saveFailure", "fail", "errorEvent", "ended"}
        \cup FinishLabels
RequestLabels == {"idle", "readRun", "signal", "signalFinish", "ended"}
                     \cup FinishLabels

VARIABLES
    conversation,  \* the conversations row: "open" or "deleted"
    messages,      \* the messages of the conversation, in created_at order
    row,           \* the chat_runs row of each run
    events,        \* the chat_run_events of each run, in seq order
    mode,          \* which handler and which generation path a run takes
    emitted,       \* pieces of output the goroutine has produced
    ctx,           \* the goroutine's context, and its entry in runCancels
    pc,            \* where each actor is
    target,        \* the run a request works on
    todo,          \* runs a list-active request still has to finish
    crashes,       \* losses of the process so far
    faults         \* failed SQL statements so far

vars == <<conversation, messages, row, events, mode, emitted, ctx, pc,
          target, todo, crashes, faults>>
requestVars == <<target, todo>>

AbsentRow ==
    [status |-> "absent", cancelRequested |-> FALSE, assistant |-> "none"]
RunningRow == [AbsentRow EXCEPT !.status = "running"]

Init ==
    /\ conversation = "open"
    /\ messages = <<>>
    /\ row = [r \in Runs |-> AbsentRow]
    /\ events = [r \in Runs |-> <<>>]
    /\ mode = [r \in Runs |-> "stream"]
    /\ emitted = [r \in Runs |-> 0]
    /\ ctx = [r \in Runs |-> "none"]
    /\ pc = [a \in Actors |-> "idle"]
    /\ target = [q \in Requests |-> NoRun]
    /\ todo = [q \in Requests |-> {}]
    /\ crashes = 0
    /\ faults = 0

-----------------------------------------------------------------------------
(* The store: what each SQL statement does to the row it addresses.        *)

Exists(r) == row[r].status # "absent"
Message(r, kind) == [run |-> r, kind |-> kind]
Occurs(s, x) == \E i \in 1..Len(s) : s[i] = x
Stored(m) == Occurs(messages, m)

\* UPDATE chat_runs SET cancel_requested = TRUE, status = CASE ... END
MarkCancelRequested(x) ==
    [x EXCEPT !.cancelRequested = TRUE,
              !.status = IF @ \in TerminalStatus THEN @ ELSE "canceling"]

\* Mutants of the WHERE clauses below: "canceled" left out.
MayCompleteCanceled(x) == x.status \notin {"absent", "failed"}
MayCancelAgain(x) == x.status \notin {"absent", "completed", "failed"}

\* The WHERE clauses of the three statements that end a run.
MayComplete(x) == x.status \notin {"absent", "failed", "canceled"}
MayFail(x) == x.status \notin {"absent", "completed", "canceled"}
MayCancel(x) == x.status \notin {"absent", "completed", "failed", "canceled"}

Completed(x) == [x EXCEPT !.status = "completed", !.assistant = "answer"]
\* Mutant of Failed: the error text is stored, the status is not.
FailedStillActive(x) == x
Failed(x) == [x EXCEPT !.status = "failed"]
Canceled(x) == [x EXCEPT !.status = "canceled", !.cancelRequested = TRUE]

\* A statement that fails for a reason of its own: the database is away, or
\* the request's context has ended with the client's connection.
DbFault ==
    /\ faults < MaxFaults
    /\ faults' = faults + 1

UpdateRow(r, x) ==
    \/ row' = [row EXCEPT ![r] = x] /\ UNCHANGED faults
    \/ DbFault /\ UNCHANGED row

\* INSERT INTO chat_run_events: the foreign key refuses an event of a run
\* that is gone, and every caller ignores the error.
AppendEvent(r, type) ==
    \/ /\ Exists(r)
       /\ events' = [events EXCEPT ![r] = Append(@, type)]
       /\ UNCHANGED faults
    \/ ~Exists(r) /\ UNCHANGED <<events, faults>>
    \/ DbFault /\ UNCHANGED events

CreateMessage(m) ==
    /\ conversation = "open"
    /\ messages' = Append(messages, m)
    /\ UNCHANGED faults

CreateMessageFails ==
    /\ UNCHANGED messages
    /\ \/ conversation = "deleted" /\ UNCHANGED faults
       \/ DbFault

\* Mutant of StopRequested: only the process's own signal is looked at.
StopSignaled(r) == ctx[r] = "canceled"

\* ctx.Err() != nil || ChatRunCancelRequested(runID)
StopRequested(r) == ctx[r] = "canceled" \/ row[r].cancelRequested

\* The check that lets the goroutine go on: ChatRunCancelRequested answers
\* "no" when its statement fails.
NoStopSeen(r) ==
    \/ ~StopRequested(r) /\ UNCHANGED faults
    \/ ctx[r] # "canceled" /\ DbFault

Goto(a, label) == pc' = [pc EXCEPT ![a] = label]

-----------------------------------------------------------------------------
(* The handler of a new user message.                                      *)

PostMessage(r) ==
    /\ pc[r] = "idle"
    /\ CreateMessage(Message(r, "user"))
    /\ \E m \in Modes : mode' = [mode EXCEPT ![r] = m]
    /\ Goto(r, "insert")
    /\ UNCHANGED <<conversation, row, events, emitted, ctx, requestVars, crashes>>

\* RewriteConversationFromMessage, one transaction: every message after the
\* edited one goes, and the foreign keys that named a deleted message are
\* set to NULL.
KeptBy(i, m) == \E j \in 1..i : messages[j] = m

EditMessage(r) ==
    /\ pc[r] = "idle"
    /\ \E i \in 1..Len(messages) :
          /\ messages[i].kind = "user"
          /\ messages' = SubSeq(messages, 1, i)
          /\ row' = [x \in Runs |-> IF KeptBy(i, Message(x, row[x].assistant))
                                   THEN row[x]
                                   ELSE [row[x] EXCEPT !.assistant = "none"]]
    /\ \E m \in Modes : mode' = [mode EXCEPT ![r] = m]
    /\ Goto(r, "insert")
    /\ UNCHANGED <<conversation, events, emitted, ctx, requestVars, crashes, faults>>

InsertRun(r) ==
    /\ pc[r] = "insert"
    /\ \/ /\ conversation = "open"
          /\ row' = [row EXCEPT ![r] = RunningRow]
          /\ Goto(r, "run_started")
          /\ UNCHANGED faults
       \/ /\ \/ conversation = "deleted" /\ UNCHANGED faults
             \/ DbFault
          /\ Goto(r, "ended")
          /\ UNCHANGED row
    /\ UNCHANGED <<conversation, messages, events, mode, emitted, ctx,
                   requestVars, crashes>>

\* run_started, then user, then (images only) a first image_pending.
Announce(r) ==
    /\ \/ /\ pc[r] = "run_started"
          /\ AppendEvent(r, "run_started")
          /\ Goto(r, "user")
       \/ /\ pc[r] = "user"
          /\ AppendEvent(r, "user")
          /\ Goto(r, IF mode[r] = "image" THEN "image_announce" ELSE "launch")
       \/ /\ pc[r] = "image_announce"
          /\ AppendEvent(r, "image_pending")
          /\ Goto(r, "launch")
    /\ UNCHANGED <<conversation, messages, row, mode, emitted, ctx,
                   requestVars, crashes>>

\* startChatRunGeneration, startChatImageRunGeneration: the cancel function
\* is registered, the goroutine starts. Nothing asks whether the run was
\* canceled in the meantime.
Launch(r) ==
    /\ pc[r] = "launch"
    /\ ctx' = [ctx EXCEPT ![r] = "live"]
    /\ Goto(r, IF mode[r] = "image" THEN "plan" ELSE "generate")
    /\ UNCHANGED <<conversation, messages, row, events, mode, emitted,
                   requestVars, crashes, faults>>

-----------------------------------------------------------------------------
(* The goroutine: runChatGeneration and runChatImageGeneration.            *)

goroutineFrame == <<conversation, mode, requestVars, crashes>>

\* "if ctx.Err() != nil || ChatRunCancelRequested { finishCanceledRun }":
\* the checks between two stages, which change nothing.
CheckThenGo(r, from, to) ==
    /\ pc[r] = from
    /\ \/ StopRequested(r) /\ Goto(r, "claim") /\ UNCHANGED faults
       \/ NoStopSeen(r) /\ Goto(r, to)
    /\ UNCHANGED <<messages, row, events, emitted, ctx, goroutineFrame>>

PlanImage(r) == CheckThenGo(r, "plan", "image_pending")

ImagePending(r) ==
    /\ pc[r] = "image_pending"
    /\ AppendEvent(r, "image_pending")
    /\ Goto(r, "generate")
    /\ UNCHANGED <<messages, row, emitted, ctx, goroutineFrame>>

\* onDelta: the check and the append are two statements. A refused delta
\* changes nothing: the upstream call fails or its next endpoint is tried.
AcceptDelta(r) ==
    /\ pc[r] = "generate"
    /\ mode[r] = "stream"
    /\ emitted[r] < MaxDeltas
    /\ NoStopSeen(r)
    /\ Goto(r, "delta")
    /\ UNCHANGED <<messages, row, events, emitted, ctx, goroutineFrame>>

AppendDelta(r) ==
    /\ pc[r] \in {"delta", "chunkEvent"}
    /\ emitted' = [emitted EXCEPT ![r] = @ + 1]
    /\ AppendEvent(r, "assistant_delta")
    /\ Goto(r, IF pc[r] = "delta" THEN "generate" ELSE "pause")
    /\ UNCHANGED <<messages, row, ctx, goroutineFrame>>

\* generateRunResponse reports its sources at most once, with no check.
SearchSources(r) ==
    /\ pc[r] = "generate"
    /\ mode[r] = "reasoning"
    /\ AppendEvent(r, "search_sources")
    /\ Goto(r, "sourced")
    /\ UNCHANGED <<messages, row, emitted, ctx, goroutineFrame>>

\* The upstream answers. A stream that produced no piece but has content is
\* cut into chunks afterwards.
GenerateSucceeds(r) ==
    /\ pc[r] \in {"generate", "sourced"}
    /\ \/ mode[r] # "stream" /\ Goto(r, "returned")
       \/ mode[r] = "stream" /\ emitted[r] = 0 /\ Goto(r, "chunk")
       \/ mode[r] = "stream" /\ Goto(r, "finalCheck")
    /\ UNCHANGED <<messages, row, events, emitted, ctx, faults, goroutineFrame>>

GenerateFails(r) ==
    /\ pc[r] \in {"generate", "sourced"}
    /\ Goto(r, "failedCheck")
    /\ UNCHANGED <<messages, row, events, emitted, ctx, faults, goroutineFrame>>

\* Between this check and the last one an image run stores its files.
CheckReturned(r) ==
    CheckThenGo(r, "returned", IF mode[r] = "image" THEN "finalCheck" ELSE "chunk")

\* emitRunTextChunks: check, append, then wait for the timer or the context.
NextChunk(r) ==
    /\ emitted[r] < MaxDeltas
    /\ CheckThenGo(r, "chunk", "chunkEvent")

LastChunk(r) ==
    /\ pc[r] = "chunk"
    /\ Goto(r, "finalCheck")
    /\ UNCHANGED <<messages, row, events, emitted, ctx, faults, goroutineFrame>>

Pause(r) ==
    /\ pc[r] = "pause"
    /\ \/ Goto(r, "chunk")
       \/ ctx[r] = "canceled" /\ Goto(r, "claim")
    /\ UNCHANGED <<messages, row, events, emitted, ctx, faults, goroutineFrame>>

\* Mutant of FinalCheck: no check before the answer is saved.
SaveUnchecked(r) ==
    /\ pc[r] = "finalCheck"
    /\ Goto(r, "save")
    /\ UNCHANGED <<messages, row, events, emitted, ctx, faults, goroutineFrame>>

FinalCheck(r) == CheckThenGo(r, "finalCheck", "save")
CheckFailed(r) == CheckThenGo(r, "failedCheck", "saveFailure")

SaveAnswer(r) ==
    /\ pc[r] = "save"
    /\ \/ CreateMessage(Message(r, "answer")) /\ Goto(r, "complete")
       \/ CreateMessageFails /\ Goto(r, "fail")
    /\ UNCHANGED <<row, events, emitted, ctx, goroutineFrame>>

SaveFailure(r) ==
    /\ pc[r] = "saveFailure"
    /\ \/ CreateMessage(Message(r, "failure"))
       \/ CreateMessageFails
    /\ Goto(r, "fail")
    /\ UNCHANGED <<row, events, emitted, ctx, goroutineFrame>>

\* The foreign key to messages fails the statement, unnoticed, when an edit
\* has deleted the answer since it was saved.
CompleteRun(r) ==
    /\ pc[r] = "complete"
    /\ \/ /\ MayComplete(row[r])
          /\ Stored(Message(r, "answer"))
          /\ UpdateRow(r, Completed(row[r]))
       \/ /\ ~(MayComplete(row[r]) /\ Stored(Message(r, "answer")))
          /\ UNCHANGED <<row, faults>>
    /\ Goto(r, "doneEvent")
    /\ UNCHANGED <<messages, events, emitted, ctx, goroutineFrame>>

FailRun(r) ==
    /\ pc[r] = "fail"
    /\ \/ MayFail(row[r]) /\ UpdateRow(r, Failed(row[r]))
       \/ ~MayFail(row[r]) /\ UNCHANGED <<row, faults>>
    /\ Goto(r, "errorEvent")
    /\ UNCHANGED <<messages, events, emitted, ctx, goroutineFrame>>

\* Mutant of PublishOutcome: a failed run is not announced.
PublishSuccessOnly(r) ==
    /\ \/ pc[r] = "doneEvent" /\ AppendEvent(r, "done")
       \/ pc[r] = "errorEvent" /\ UNCHANGED <<events, faults>>
    /\ Goto(r, "ended")
    /\ ctx' = [ctx EXCEPT ![r] = "none"]
    /\ UNCHANGED <<messages, row, emitted, goroutineFrame>>

\* The last statement, then the deferred cancel and unregister.
PublishOutcome(r) ==
    /\ \/ pc[r] = "doneEvent" /\ AppendEvent(r, "done")
       \/ pc[r] = "errorEvent" /\ AppendEvent(r, "error")
    /\ Goto(r, "ended")
    /\ ctx' = [ctx EXCEPT ![r] = "none"]
    /\ UNCHANGED <<messages, row, emitted, goroutineFrame>>

-----------------------------------------------------------------------------
(* finishCanceledRun, called by the goroutine on its own run and by the    *)
(* requests on the run they target.                                        *)

Of(a) == IF a \in Runs THEN a ELSE target[a]

\* Mutant of Return: a list-active request only finishes the first run.
ReturnAfterFirst(a) ==
    /\ Goto(a, "ended")
    /\ ctx' = IF a \in Runs THEN [ctx EXCEPT ![a] = "none"] ELSE ctx
    /\ UNCHANGED requestVars

\* Return to the caller: a goroutine ends, a list-active request goes on to
\* the next run it found (in any order: the rows are sorted by creation).
Return(a) ==
    \/ /\ a \in Runs
       /\ Goto(a, "ended")
       /\ ctx' = [ctx EXCEPT ![a] = "none"]
       /\ UNCHANGED requestVars
    \/ /\ a \in Requests
       /\ todo[a] = {}
       /\ Goto(a, "ended")
       /\ UNCHANGED <<ctx, requestVars>>
    \/ /\ a \in Requests
       /\ \E r \in todo[a] :
             /\ target' = [target EXCEPT ![a] = r]
             /\ todo' = [todo EXCEPT ![a] = @ \ {r}]
       /\ Goto(a, "claim")
       /\ UNCHANGED ctx

\* TryCancelChatRun: whoever changes the row goes on, the others return.
Claim(a) ==
    /\ pc[a] = "claim"
    /\ \/ /\ MayCancel(row[Of(a)])
          /\ row' = [row EXCEPT ![Of(a)] = Canceled(@)]
          /\ Goto(a, "stopMessage")
          /\ UNCHANGED <<faults, ctx, requestVars>>
       \/ /\ \/ ~MayCancel(row[Of(a)]) /\ UNCHANGED faults
             \/ DbFault
          /\ Return(a)
          /\ UNCHANGED row
    /\ UNCHANGED <<conversation, messages, events, mode, emitted, crashes>>

StopMessage(a) ==
    /\ pc[a] = "stopMessage"
    /\ \/ CreateMessage(Message(Of(a), "stopped")) /\ Goto(a, "attach")
       \/ CreateMessageFails /\ Goto(a, "canceledEvent")
    /\ UNCHANGED <<conversation, row, events, mode, emitted, ctx, requestVars, crashes>>

AttachStopMessage(a) ==
    /\ pc[a] = "attach"
    /\ \/ /\ Exists(Of(a))
          /\ Stored(Message(Of(a), "stopped"))
          /\ UpdateRow(Of(a), [row[Of(a)] EXCEPT !.assistant = "stopped"])
       \/ /\ ~(Exists(Of(a)) /\ Stored(Message(Of(a), "stopped")))
          /\ UNCHANGED <<row, faults>>
    /\ Goto(a, "canceledEvent")
    /\ UNCHANGED <<conversation, messages, events, mode, emitted, ctx,
                   requestVars, crashes>>

PublishCanceled(a) ==
    /\ pc[a] = "canceledEvent"
    /\ AppendEvent(Of(a), "canceled")
    /\ Return(a)
    /\ UNCHANGED <<conversation, messages, row, mode, emitted, crashes>>

-----------------------------------------------------------------------------
(* The requests.                                                           *)

requestFrame == <<conversation, messages, events, mode, emitted, crashes>>

\* handleCancelChatRun, its first statement (an unknown run ends it).
RequestCancel(q) ==
    /\ pc[q] = "idle"
    /\ \E r \in Runs :
          /\ Exists(r)
          /\ row' = [row EXCEPT ![r] = MarkCancelRequested(@)]
          /\ target' = [target EXCEPT ![q] = r]
    /\ Goto(q, "readRun")
    /\ UNCHANGED <<ctx, todo, faults, requestFrame>>

\* Mutant of ReadRun: the handler signals and leaves the rest to the
\* goroutine, whether there is one or not.
ReadRunThenSignal(q) ==
    /\ pc[q] = "readRun"
    /\ Goto(q, IF Exists(target[q]) THEN "signal" ELSE "ended")
    /\ UNCHANGED <<row, ctx, requestVars, faults, requestFrame>>

ReadRun(q) ==
    /\ pc[q] = "readRun"
    /\ \/ /\ Exists(target[q])
          /\ Goto(q, IF row[target[q]].status \in TerminalStatus
                     THEN "signal" ELSE "signalFinish")
          /\ UNCHANGED faults
       \/ /\ ~Exists(target[q]) /\ UNCHANGED faults
          /\ Goto(q, "ended")
       \/ DbFault /\ Goto(q, "ended")
    /\ UNCHANGED <<row, ctx, requestVars, requestFrame>>

\* cancelActiveChatRun: a run that is not registered is left alone. The
\* decision to finish the run rests on the status read before.
SignalRun(q) ==
    /\ pc[q] \in {"signal", "signalFinish"}
    /\ ctx' = [ctx EXCEPT ![target[q]] = IF @ = "live" THEN "canceled" ELSE @]
    /\ Goto(q, IF pc[q] = "signal" THEN "ended" ELSE "claim")
    /\ UNCHANGED <<row, requestVars, faults, requestFrame>>

Canceling(r) ==
    /\ row[r].status \in ActiveStatus
    /\ row[r].cancelRequested \/ row[r].status = "canceling"

\* handleListActiveChatRuns: finish what a canceled or lost request left.
ListActive(q) ==
    /\ pc[q] = "idle"
    /\ conversation = "open"
    /\ LET found == {r \in Runs : Canceling(r)} IN
          \/ /\ found = {}
             /\ Goto(q, "ended")
             /\ UNCHANGED requestVars
          \/ \E r \in found :
                /\ target' = [target EXCEPT ![q] = r]
                /\ todo' = [todo EXCEPT ![q] = found \ {r}]
                /\ Goto(q, "claim")
    /\ UNCHANGED <<row, ctx, faults, requestFrame>>

-----------------------------------------------------------------------------
(* The environment.                                                        *)

\* DELETE FROM conversations cascades to messages, chat_runs and events.
DeleteConversation ==
    /\ conversation = "open"
    /\ conversation' = "deleted"
    /\ messages' = <<>>
    /\ row' = [r \in Runs |-> AbsentRow]
    /\ events' = [r \in Runs |-> <<>>]
    /\ UNCHANGED <<mode, emitted, ctx, pc, requestVars, crashes, faults>>

\* The process is lost and started again: handlers, goroutines and
\* runCancels are gone, and nothing resumes a run on startup.
Crash ==
    /\ crashes < MaxCrashes
    /\ crashes' = crashes + 1
    /\ pc' = [a \in Actors |-> IF pc[a] = "idle" THEN "idle" ELSE "ended"]
    /\ ctx' = [r \in Runs |-> "none"]
    /\ todo' = [q \in Requests |-> {}]
    /\ UNCHANGED <<conversation, messages, row, events, mode, emitted, target, faults>>

\* Every handler has returned.
Quiescent ==
    /\ \A a \in Actors : pc[a] \in {"idle", "ended"}
    /\ UNCHANGED vars

-----------------------------------------------------------------------------
Finish(a) ==
    \/ Claim(a)
    \/ StopMessage(a)
    \/ AttachStopMessage(a)
    \/ PublishCanceled(a)

\* Steps that wait for an upstream provider.
Upstream(r) ==
    \/ GenerateSucceeds(r)
    \/ GenerateFails(r)

\* Steps that only wait for the database or for a timer.
Work(r) ==
    \/ InsertRun(r)
    \/ Announce(r)
    \/ Launch(r)
    \/ PlanImage(r)
    \/ ImagePending(r)
    \/ AppendDelta(r)
    \/ CheckReturned(r)
    \/ NextChunk(r)
    \/ LastChunk(r)
    \/ Pause(r)
    \/ FinalCheck(r)
    \/ CheckFailed(r)
    \/ SaveAnswer(r)
    \/ SaveFailure(r)
    \/ CompleteRun(r)
    \/ FailRun(r)
    \/ PublishOutcome(r)
    \/ Finish(r)

RunStep(r) ==
    \/ PostMessage(r)
    \/ EditMessage(r)
    \/ AcceptDelta(r)
    \/ SearchSources(r)
    \/ Upstream(r)
    \/ Work(r)

Serve(q) ==
    \/ ReadRun(q)
    \/ SignalRun(q)
    \/ Finish(q)

RequestStep(q) ==
    \/ RequestCancel(q)
    \/ ListActive(q)
    \/ Serve(q)

Next ==
    \/ \E r \in Runs : RunStep(r)
    \/ \E q \in Requests : RequestStep(q)
    \/ DeleteConversation
    \/ Crash
    \/ Quiescent

Spec == Init /\ [][Next]_vars

\* A started handler or goroutine keeps running. An image run's upstream
\* calls have timeouts; the streaming call and the web-search call have
\* none, so only a canceled context is sure to make them return.
UpstreamReturns(r) ==
    /\ mode[r] = "image" \/ ctx[r] = "canceled"
    /\ Upstream(r)

Fairness ==
    /\ \A r \in Runs : WF_vars(Work(r)) /\ WF_vars(UpstreamReturns(r))
    /\ \A q \in Requests : WF_vars(Serve(q))

FairSpec == Spec /\ Fairness

-----------------------------------------------------------------------------
(* Type invariant.                                                         *)

\* Every actor is at a label of its own program, and a request past its
\* first statement has a run to work on.
ControlOK ==
    /\ pc \in [Actors -> RunLabels \cup RequestLabels]
    /\ \A r \in Runs : pc[r] \in RunLabels
    /\ \A q \in Requests :
          /\ pc[q] \in RequestLabels
          /\ pc[q] \notin {"idle", "ended"} => target[q] \in Runs

Rows == [status : Statuses, cancelRequested : BOOLEAN,
         assistant : {"none", "answer", "stopped"}]

\* Every variable holds a value the code can store in it.
TypeOK ==
    /\ conversation \in {"open", "deleted"}
    /\ messages \in Seq(Messages)
    /\ row \in [Runs -> Rows]
    /\ events \in [Runs -> Seq(EventTypes)]
    /\ mode \in [Runs -> Modes]
    /\ emitted \in [Runs -> Nat]
    /\ ctx \in [Runs -> {"none", "live", "canceled"}]
    /\ target \in [Requests -> Runs \cup {NoRun}]
    /\ todo \in [Requests -> SUBSET Runs]
    /\ crashes \in 0..MaxCrashes
    /\ faults \in 0..MaxFaults
    /\ ControlOK

-----------------------------------------------------------------------------
(* Safety.                                                                 *)

AtMostOnce(s, x) == \A i, j \in 1..Len(s) : s[i] = x /\ s[j] = x => i = j
Published(r, type) == Occurs(events[r], type)

\* Whatever the goroutine, several cancel requests and several list-active
\* requests do at once, a run gets at most one "canceled" event and at most
\* one stop notice in the conversation (finishCanceledRun, the claim).
StopNoticeOnce ==
    \A r \in Runs :
        /\ AtMostOnce(events[r], "canceled")
        /\ AtMostOnce(messages, Message(r, "stopped"))

\* A stop notice, in the log or in the conversation, is only ever seen next
\* to a row that says canceled: never on a run that completed or failed.
StopNoticeMeansCanceled ==
    \A r \in Runs :
        Published(r, "canceled") \/ Stored(Message(r, "stopped"))
            => row[r].status = "canceled"

\* A delta is checked before it is appended, not while: once "canceled" is in
\* the log at most one piece of output, the one in flight, follows it, unless
\* a check failed and let another one through.
OneDeltaAfterStop ==
    faults = 0 => \A r \in Runs : \A i, j, k \in 1..Len(events[r]) :
        /\ i < j /\ j < k
        /\ events[r][i] = "canceled"
        => ~(events[r][j] \in Deltas /\ events[r][k] \in Deltas)

\* The log and the row agree on the outcome, unless a cancellation took the
\* row away from the goroutine after its last check, a statement failed, or
\* an edit deleted the answer before the row could name it. And a goroutine
\* that has returned leaves an active row behind only in that last case, or
\* after a crash or a failed statement: nothing else abandons a run.
OutcomeMatchesRow ==
    \A r \in Runs :
        /\ ~row[r].cancelRequested /\ faults = 0 =>
              /\ Published(r, "error") => row[r].status = "failed"
              /\ Published(r, "done") => \/ row[r].status = "completed"
                                         \/ ~Stored(Message(r, "answer"))
        /\ pc[r] = "ended" /\ row[r].status \in ActiveStatus /\ crashes = 0 /\ faults = 0 =>
              Published(r, "done") /\ ~Stored(Message(r, "answer"))

-----------------------------------------------------------------------------
(* The inductive invariant behind the stop notice.                         *)

\* The actor that won the claim of a run and has not published it yet.
Holds(a, r) ==
    /\ Of(a) = r
    /\ pc[a] \in {"stopMessage", "attach", "canceledEvent"}

DeletedIsEmpty ==
    conversation = "deleted" =>
        /\ messages = <<>>
        /\ \A r \in Runs : row[r].status = "absent" /\ events[r] = <<>>

\* The row is taken by its claimant before anything else happens: there is
\* one claimant, its row says canceled, and what it is about to write is
\* not there yet.
ClaimExclusive ==
    \A r \in Runs, a \in Actors : Holds(a, r) =>
        /\ conversation = "open" =>
              /\ row[r].status = "canceled"
              /\ \A b \in Actors : Holds(b, r) => a = b
        /\ ~Published(r, "canceled")
        /\ pc[a] = "stopMessage" => ~Stored(Message(r, "stopped"))

NotYetInserted ==
    \A r \in Runs : pc[r] \in {"idle", "insert"} => row[r].status = "absent"

\* The strengthening that is inductive: StopNoticeOnce needs the claimant
\* to be alone, which needs the row it took to stay canceled.
ClaimInv ==
    /\ DeletedIsEmpty
    /\ ClaimExclusive
    /\ NotYetInserted
    /\ StopNoticeMeansCanceled
    /\ StopNoticeOnce

-----------------------------------------------------------------------------
(* What a step may never do.                                               *)

\* A run that has ended keeps its status for good: completion, failure and
\* cancellation race for the row and the first one wins.
TerminalIsFinal ==
    [][\A r \in Runs :
          row[r].status \in TerminalStatus
              => row'[r].status \in {row[r].status, "absent"}]_vars

\* Labels at which the goroutine still has a check ahead of it.
BeforeLastCheck ==
    {"run_started", "user", "image_announce", "launch", "plan",
     "image_pending", "generate", "delta", "sourced", "returned", "chunk",
     "chunkEvent", "pause", "finalCheck", "failedCheck"}

\* A cancellation the goroutine can still see is never answered by output:
\* from then on, unless the check itself fails, it stores neither an answer
\* nor the text of an error.
StopSilencesRun ==
    \A r \in Runs :
        [](/\ StopRequested(r)
           /\ pc[r] \in BeforeLastCheck
           => [](faults = 0 => /\ ~Stored(Message(r, "answer"))
                               /\ ~Stored(Message(r, "failure"))))

-----------------------------------------------------------------------------
(* The abstract specification this one implements.                         *)

phaseOf ==
    [r \in Runs |->
        CASE conversation = "deleted" -> "gone"
          [] row[r].status = "absent" /\ conversation = "open" -> "none"
          [] row[r].status \in ActiveStatus /\ conversation = "open" -> "active"
          [] OTHER -> row[r].status]

announcedOf ==
    [r \in Runs |->
        {[position |-> i, type |-> events[r][i]] :
            i \in {j \in 1..Len(events[r]) : events[r][j] \in TerminalEvents}}]

Lifecycle == INSTANCE ChatRunLifecycle
                 WITH phase <- phaseOf, announced <- announcedOf

\* Every run, whatever interleaves, lives the life ChatRunLifecycle allows:
\* one outcome, kept, and each end of it announced once.
ImplementsLifecycle == Lifecycle!Spec

-----------------------------------------------------------------------------
(* Liveness, under Fairness.                                               *)

\* A cancellation that reached the database ends the run, whatever the
\* upstream provider does: one of its claimants gets there. And a goroutine
\* whose context was canceled returns, even when its stream has stalled.
CancelSettles ==
    \A r \in Runs :
        /\ row[r].cancelRequested ~> row[r].status \notin ActiveStatus
        /\ ctx[r] = "canceled" ~> pc[r] = "ended"

\* A list-active request finishes the canceled runs it found, one after the
\* other, whoever else is at it: no more of them stay active than statements
\* failed, since it goes on to the next when the claim of one fails.
ListSettles ==
    \A q \in Requests : \A found \in SUBSET Runs :
        todo[q] = found ~>
            Cardinality({r \in found : row[r].status \in ActiveStatus}) <= faults

\* An image run whose goroutine was started tells its reader how it ended.
ImageRunReports ==
    \A r \in Runs :
        pc[r] = "plan" ~> \/ \E type \in TerminalEvents : Published(r, type)
                          \/ row[r].status = "absent"

=============================================================================
