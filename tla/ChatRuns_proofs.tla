--------------------------- MODULE ChatRuns_proofs ---------------------------
(***************************************************************************)
(* Proofs about ChatRuns, for every set of runs and requests and every     *)
(* value of the bounds: the claim of a canceled run, what its log may hold *)
(* and how it agrees with the row, the silence of a run that was stopped   *)
(* in time, and that ChatRuns implements ChatRunLifecycle.                 *)
(* A run's row and log are written by its own goroutine and by whoever     *)
(* cancels it.  What the others may do to a run is stated once (Outside);  *)
(* the steps of the goroutine are taken one by one.                        *)
(***************************************************************************)
EXTENDS ChatRuns, TLAPS

-----------------------------------------------------------------------------
(* Facts about the operators the actions are built from.                   *)

\* Of(a) is the run of an actor that is past its first statement.
LEMMA OfIsRun ==
    ASSUME ControlOK, NEW a \in Actors, pc[a] \notin {"idle", "ended"}
    PROVE  Of(a) \in Runs
BY DEF Of, ControlOK, Actors

\* A goroutine that moves to one of its places keeps the control part of
\* the types.
LEMMA RunGoto ==
    ASSUME ControlOK, NEW r \in Runs, NEW l \in RunLabels, Goto(r, l),
           UNCHANGED target
    PROVE  ControlOK'
BY ChatRunsAssumption DEF ControlOK, Goto, Actors

\* So does a request, which also has a run to work on while it is under
\* way.
LEMMA RequestGoto ==
    ASSUME ControlOK, NEW q \in Requests, NEW l \in RequestLabels, Goto(q, l),
           target' \in [Requests -> Runs \cup {NoRun}],
           \A p \in Requests : p # q => target'[p] = target[p],
           l \notin {"idle", "ended"} => target'[q] \in Runs
    PROVE  ControlOK'
BY ChatRunsAssumption DEF ControlOK, Goto, Actors

\* A prefix of a sequence.
LEMMA Prefix ==
    ASSUME NEW S, NEW s \in Seq(S), NEW i \in 1..Len(s)
    PROVE  /\ SubSeq(s, 1, i) \in Seq(S)
           /\ Len(SubSeq(s, 1, i)) = i
           /\ \A j \in 1..i : SubSeq(s, 1, i)[j] = s[j]
OBVIOUS

\* The count of faults stays below its bound.
LEMMA FaultType ==
    ASSUME TypeOK, DbFault \/ UNCHANGED faults
    PROVE  faults' \in 0..MaxFaults
BY ChatRunsAssumption DEF DbFault, TypeOK

\* Appending an event keeps the types of the log.
LEMMA AppendEventType ==
    ASSUME TypeOK, NEW r \in Runs, NEW type \in EventTypes, AppendEvent(r, type)
    PROVE  events' \in [Runs -> Seq(EventTypes)] /\ faults' \in 0..MaxFaults
<1>1. events[r] \in Seq(EventTypes) /\ events \in [Runs -> Seq(EventTypes)]
  BY DEF TypeOK
<1>2. Append(events[r], type) \in Seq(EventTypes)
  BY <1>1
<1>3. events' \in [Runs -> Seq(EventTypes)]
  BY <1>1, <1>2 DEF AppendEvent
<1> QED BY <1>3, FaultType DEF AppendEvent

\* Writing a run's row keeps the types of the rows.
LEMMA UpdateRowType ==
    ASSUME TypeOK, NEW r \in Runs, NEW x \in Rows, UpdateRow(r, x)
    PROVE  row' \in [Runs -> Rows] /\ faults' \in 0..MaxFaults
BY FaultType DEF UpdateRow, TypeOK

\* Creating a message keeps the types of what it touches.
LEMMA CreateMessageType ==
    ASSUME TypeOK, NEW r \in Runs, NEW kind \in Kinds,
           CreateMessage(Message(r, kind)) \/ CreateMessageFails
    PROVE  messages' \in Seq(Messages) /\ faults' \in 0..MaxFaults
<1>1. Message(r, kind) \in Messages
  BY DEF Message, Messages
<1>2. Append(messages, Message(r, kind)) \in Seq(Messages)
  BY <1>1 DEF TypeOK
<1>3. messages' \in Seq(Messages)
  BY <1>2 DEF CreateMessage, CreateMessageFails, TypeOK
<1> QED BY <1>3, FaultType DEF CreateMessage, CreateMessageFails

\* What the SQL statements make of a row is a row.
LEMMA RowOperators ==
    /\ AbsentRow \in Rows
    /\ RunningRow \in Rows
    /\ \A x \in Rows :
          /\ MarkCancelRequested(x) \in Rows
          /\ Completed(x) \in Rows
          /\ Failed(x) \in Rows
          /\ Canceled(x) \in Rows
          /\ [x EXCEPT !.assistant = "stopped"] \in Rows
          /\ [x EXCEPT !.assistant = "none"] \in Rows
BY DEF AbsentRow, RunningRow, MarkCancelRequested, Completed, Failed, Canceled,
       Rows, Statuses, ActiveStatus, TerminalStatus

-----------------------------------------------------------------------------
(* Type correctness: one lemma per group of actions.                       *)

\* The initial values have their types.
LEMMA InitTypeOK == Init => TypeOK
BY ChatRunsAssumption, RowOperators
   DEF Init, TypeOK, ControlOK, Actors, Modes, RunLabels, RequestLabels

\* The steps of the handler that starts a run keep the types.
LEMMA HandlerTypeOK ==
    ASSUME TypeOK, NEW r \in Runs,
           PostMessage(r) \/ EditMessage(r) \/ InsertRun(r) \/ Announce(r) \/ Launch(r)
    PROVE  TypeOK'
<1> USE DEF requestVars
<1>0. ControlOK /\ {"insert", "run_started", "ended", "user", "image_announce",
                    "launch", "plan", "generate"} \subseteq RunLabels
  BY DEF TypeOK, RunLabels
<1>1. CASE PostMessage(r)
  <2>1. messages' \in Seq(Messages) /\ faults' \in 0..MaxFaults
    BY <1>1, CreateMessageType DEF PostMessage, Kinds
  <2>2. ControlOK'
    BY <1>0, <1>1, RunGoto DEF PostMessage
  <2> QED BY <2>1, <2>2, <1>1 DEF PostMessage, TypeOK
<1>2. CASE EditMessage(r)
  <2>1. messages' \in Seq(Messages)
    <3>1. PICK i \in 1..Len(messages) : messages' = SubSeq(messages, 1, i)
      BY <1>2 DEF EditMessage
    <3> QED BY <3>1, Prefix DEF TypeOK
  <2>2. row' \in [Runs -> Rows]
    <3>1. \A x \in Runs : row[x] \in Rows /\ [row[x] EXCEPT !.assistant = "none"] \in Rows
      BY RowOperators DEF TypeOK
    <3> QED BY <1>2, <3>1 DEF EditMessage
  <2>3. ControlOK'
    BY <1>0, <1>2, RunGoto DEF EditMessage
  <2> QED BY <2>1, <2>2, <2>3, <1>2 DEF EditMessage, TypeOK
<1>3. CASE InsertRun(r)
  <2>1. row' \in [Runs -> Rows] /\ faults' \in 0..MaxFaults
    BY <1>3, RowOperators, FaultType DEF InsertRun, TypeOK
  <2>2. ControlOK'
    BY <1>0, <1>3, RunGoto DEF InsertRun
  <2> QED BY <2>1, <2>2, <1>3 DEF InsertRun, TypeOK
<1>4. CASE Announce(r)
  <2>1. events' \in [Runs -> Seq(EventTypes)] /\ faults' \in 0..MaxFaults
    BY <1>4, AppendEventType DEF Announce, EventTypes
  <2>2. ControlOK'
    BY <1>0, <1>4, RunGoto DEF Announce
  <2> QED BY <2>1, <2>2, <1>4 DEF Announce, TypeOK
<1>5. CASE Launch(r)
  <2>1. ControlOK'
    BY <1>0, <1>5, RunGoto DEF Launch
  <2> QED BY <2>1, <1>5 DEF Launch, TypeOK
<1> QED BY <1>1, <1>2, <1>3, <1>4, <1>5

\* The steps of the goroutine that only move it.
LEMMA MoveTypeOK ==
    ASSUME TypeOK, NEW r \in Runs, NEW l \in RunLabels, Goto(r, l),
           UNCHANGED <<messages, row, events, emitted, ctx, goroutineFrame>>,
           UNCHANGED faults \/ NoStopSeen(r)
    PROVE  TypeOK'
<1>1. ControlOK'
  BY RunGoto DEF TypeOK, goroutineFrame, requestVars
<1>2. faults' \in 0..MaxFaults
  BY FaultType DEF NoStopSeen
<1> QED BY <1>1, <1>2 DEF TypeOK, goroutineFrame, requestVars

\* So do the checks of the worker between two pieces of work.
LEMMA CheckTypeOK ==
    ASSUME TypeOK, NEW r \in Runs, NEW from, NEW to \in RunLabels,
           CheckThenGo(r, from, to)
    PROVE  TypeOK'
<1>1. "claim" \in RunLabels
  BY DEF RunLabels, FinishLabels
<1> QED BY <1>1, MoveTypeOK DEF CheckThenGo

\* So do the other steps of the worker.
LEMMA GoroutineTypeOK ==
    ASSUME TypeOK, NEW r \in Runs,
           \/ AcceptDelta(r) \/ SearchSources(r) \/ Upstream(r)
           \/ PlanImage(r) \/ ImagePending(r) \/ AppendDelta(r)
           \/ CheckReturned(r) \/ NextChunk(r) \/ LastChunk(r) \/ Pause(r)
           \/ FinalCheck(r) \/ CheckFailed(r) \/ SaveAnswer(r)
           \/ SaveFailure(r) \/ CompleteRun(r) \/ FailRun(r)
           \/ PublishOutcome(r)
    PROVE  TypeOK'
<1>0. ControlOK /\ RunLabels \subseteq RunLabels /\
      {"image_pending", "generate", "delta", "sourced", "returned", "chunk",
       "chunkEvent", "pause", "finalCheck", "save", "complete", "doneEvent",
       "failedCheck", "saveFailure", "fail", "errorEvent", "ended", "claim"}
          \subseteq RunLabels
  BY DEF TypeOK, RunLabels, FinishLabels
<1> HIDE DEF RunLabels
<1>1. CASE \/ PlanImage(r) \/ CheckReturned(r) \/ NextChunk(r)
           \/ FinalCheck(r) \/ CheckFailed(r)
  BY <1>0, <1>1, CheckTypeOK
     DEF PlanImage, CheckReturned, NextChunk, FinalCheck, CheckFailed
<1>2. CASE AcceptDelta(r) \/ Upstream(r) \/ LastChunk(r) \/ Pause(r)
  BY <1>0, <1>2, MoveTypeOK
     DEF AcceptDelta, Upstream, GenerateSucceeds, GenerateFails, LastChunk, Pause
<1>3. CASE SearchSources(r) \/ ImagePending(r)
  <2>1. events' \in [Runs -> Seq(EventTypes)] /\ faults' \in 0..MaxFaults
    BY <1>3, AppendEventType DEF SearchSources, ImagePending, EventTypes
  <2>2. ControlOK'
    BY <1>0, <1>3, RunGoto DEF SearchSources, ImagePending, goroutineFrame, requestVars
  <2> QED BY <2>1, <2>2, <1>3
          DEF SearchSources, ImagePending, TypeOK, goroutineFrame, requestVars
<1>4. CASE AppendDelta(r)
  <2>1. events' \in [Runs -> Seq(EventTypes)] /\ faults' \in 0..MaxFaults
    BY <1>4, AppendEventType DEF AppendDelta, EventTypes, Deltas
  <2>2. ControlOK'
    BY <1>0, <1>4, RunGoto DEF AppendDelta, goroutineFrame, requestVars
  <2> QED BY <2>1, <2>2, <1>4
          DEF AppendDelta, TypeOK, goroutineFrame, requestVars
<1>5. CASE SaveAnswer(r) \/ SaveFailure(r)
  <2>1. messages' \in Seq(Messages) /\ faults' \in 0..MaxFaults
    BY <1>5, CreateMessageType DEF SaveAnswer, SaveFailure, Kinds
  <2>2. ControlOK'
    BY <1>0, <1>5, RunGoto DEF SaveAnswer, SaveFailure, goroutineFrame, requestVars
  <2> QED BY <2>1, <2>2, <1>5
          DEF SaveAnswer, SaveFailure, TypeOK, goroutineFrame, requestVars
<1>6. CASE CompleteRun(r) \/ FailRun(r)
  <2>1. row' \in [Runs -> Rows] /\ faults' \in 0..MaxFaults
    <3>1. row[r] \in Rows
      BY DEF TypeOK
    <3>2. Completed(row[r]) \in Rows /\ Failed(row[r]) \in Rows
      BY <3>1, RowOperators
    <3>3. \/ UpdateRow(r, Completed(row[r]))
          \/ UpdateRow(r, Failed(row[r]))
          \/ UNCHANGED <<row, faults>>
      BY <1>6 DEF CompleteRun, FailRun
    <3> QED BY <3>2, <3>3, UpdateRowType DEF TypeOK
  <2>2. ControlOK'
    BY <1>0, <1>6, RunGoto DEF CompleteRun, FailRun, goroutineFrame, requestVars
  <2> QED BY <2>1, <2>2, <1>6
          DEF CompleteRun, FailRun, TypeOK, goroutineFrame, requestVars
<1>7. CASE PublishOutcome(r)
  <2>1. events' \in [Runs -> Seq(EventTypes)] /\ faults' \in 0..MaxFaults
    BY <1>7, AppendEventType DEF PublishOutcome, EventTypes, TerminalEvents
  <2>2. ControlOK'
    BY <1>0, <1>7, RunGoto DEF PublishOutcome, goroutineFrame, requestVars
  <2> QED BY <2>1, <2>2, <1>7
          DEF PublishOutcome, TypeOK, goroutineFrame, requestVars
<1> QED BY <1>1, <1>2, <1>3, <1>4, <1>5, <1>6, <1>7

\* So do the steps that finish a canceled run, of either kind of actor.
LEMMA FinishTypeOK ==
    ASSUME TypeOK, NEW a \in Actors, Finish(a)
    PROVE  TypeOK'
<1>0. /\ ControlOK
      /\ FinishLabels \subseteq RunLabels
      /\ FinishLabels \subseteq RequestLabels
      /\ "ended" \in RunLabels /\ "ended" \in RequestLabels
  BY DEF TypeOK, RunLabels, RequestLabels
<1>1. Of(a) \in Runs
  BY <1>0, OfIsRun DEF Finish, Claim, StopMessage, AttachStopMessage, PublishCanceled
<1>2. ASSUME NEW l \in FinishLabels, Goto(a, l), pc[a] \in FinishLabels, UNCHANGED target
      PROVE  ControlOK'
  <2>1. CASE a \in Runs
    BY <1>0, <1>2, <2>1, RunGoto
  <2>2. CASE a \in Requests
    <3>1. target[a] \in Runs /\ l \notin {"idle", "ended"}
      BY <1>0, <1>2, <2>2 DEF ControlOK, FinishLabels
    <3> QED BY <1>0, <1>2, <2>2, <3>1, RequestGoto DEF TypeOK
  <2> QED BY <2>1, <2>2 DEF Actors
<1>3. ASSUME Return(a)
      PROVE  /\ ControlOK'
             /\ ctx' \in [Runs -> {"none", "live", "canceled"}]
             /\ target' \in [Requests -> Runs \cup {NoRun}]
             /\ todo' \in [Requests -> SUBSET Runs]
  <2>1. CASE a \in Runs /\ Goto(a, "ended") /\ UNCHANGED requestVars
             /\ ctx' = [ctx EXCEPT ![a] = "none"]
    BY <1>0, <2>1, RunGoto DEF TypeOK, requestVars
  <2>2. CASE a \in Requests /\ Goto(a, "ended") /\ UNCHANGED <<ctx, requestVars>>
    BY <1>0, <2>2, RequestGoto DEF TypeOK, requestVars
  <2>3. CASE /\ a \in Requests
             /\ \E r \in todo[a] :
                   /\ target' = [target EXCEPT ![a] = r]
                   /\ todo' = [todo EXCEPT ![a] = @ \ {r}]
             /\ Goto(a, "claim")
             /\ UNCHANGED ctx
    <3>1. PICK r \in todo[a] : /\ target' = [target EXCEPT ![a] = r]
                               /\ todo' = [todo EXCEPT ![a] = @ \ {r}]
      BY <2>3
    <3>2. r \in Runs /\ "claim" \in FinishLabels
      BY <2>3 DEF TypeOK, FinishLabels
    <3>3. /\ target' \in [Requests -> Runs \cup {NoRun}]
          /\ target'[a] = r
          /\ \A p \in Requests : p # a => target'[p] = target[p]
      BY <2>3, <3>1, <3>2 DEF TypeOK
    <3>4. ControlOK'
      BY <1>0, <2>3, <3>2, <3>3, RequestGoto
    <3>5. todo' \in [Requests -> SUBSET Runs]
      BY <3>1 DEF TypeOK
    <3> QED BY <2>3, <3>3, <3>4, <3>5 DEF TypeOK
  <2> QED BY <1>3, <2>1, <2>2, <2>3 DEF Return
<1>4. CASE Claim(a)
  <2>1. row' \in [Runs -> Rows]
    <3>1. row[Of(a)] \in Rows /\ Canceled(row[Of(a)]) \in Rows
      BY <1>1, RowOperators DEF TypeOK
    <3> QED BY <1>1, <1>4, <3>1 DEF Claim, TypeOK
  <2>2. faults' \in 0..MaxFaults
    BY <1>4, FaultType DEF Claim
  <2>3. \/ Return(a)
        \/ Goto(a, "stopMessage") /\ UNCHANGED <<ctx, requestVars>>
    BY <1>4 DEF Claim
  <2>4. pc[a] \in FinishLabels /\ "stopMessage" \in FinishLabels
    BY <1>4 DEF Claim, FinishLabels
  <2>5. /\ ControlOK'
        /\ ctx' \in [Runs -> {"none", "live", "canceled"}]
        /\ target' \in [Requests -> Runs \cup {NoRun}]
        /\ todo' \in [Requests -> SUBSET Runs]
    BY <1>2, <1>3, <2>3, <2>4 DEF TypeOK, requestVars
  <2> QED BY <1>4, <2>1, <2>2, <2>5 DEF Claim, TypeOK
<1>5. CASE StopMessage(a)
  <2>1. messages' \in Seq(Messages) /\ faults' \in 0..MaxFaults
    BY <1>1, <1>5, CreateMessageType DEF StopMessage, Kinds
  <2>2. {"attach", "canceledEvent"} \subseteq FinishLabels /\ pc[a] \in FinishLabels
    BY <1>5 DEF StopMessage, FinishLabels
  <2>3. ControlOK'
    BY <1>2, <1>5, <2>2 DEF StopMessage, requestVars
  <2> QED BY <1>5, <2>1, <2>3 DEF StopMessage, TypeOK, requestVars
<1>6. CASE AttachStopMessage(a)
  <2>1. row' \in [Runs -> Rows] /\ faults' \in 0..MaxFaults
    <3>1. [row[Of(a)] EXCEPT !.assistant = "stopped"] \in Rows
      BY <1>1, RowOperators DEF TypeOK
    <3> QED BY <1>1, <1>6, <3>1, UpdateRowType DEF AttachStopMessage, TypeOK
  <2>2. "canceledEvent" \in FinishLabels /\ pc[a] \in FinishLabels
    BY <1>6 DEF AttachStopMessage, FinishLabels
  <2>3. ControlOK'
    BY <1>2, <1>6, <2>2 DEF AttachStopMessage, requestVars
  <2> QED BY <1>6, <2>1, <2>3 DEF AttachStopMessage, TypeOK, requestVars
<1>7. CASE PublishCanceled(a)
  <2>1. events' \in [Runs -> Seq(EventTypes)] /\ faults' \in 0..MaxFaults
    BY <1>1, <1>7, AppendEventType DEF PublishCanceled, EventTypes, TerminalEvents
  <2> QED BY <1>3, <1>7, <2>1 DEF PublishCanceled, TypeOK
<1> QED BY <1>4, <1>5, <1>6, <1>7 DEF Finish

\* So do the other requests.
LEMMA RequestTypeOK ==
    ASSUME TypeOK, NEW q \in Requests,
           RequestCancel(q) \/ ListActive(q) \/ ReadRun(q) \/ SignalRun(q)
    PROVE  TypeOK'
<1>0. /\ ControlOK
      /\ {"readRun", "signal", "signalFinish", "ended", "claim"} \subseteq RequestLabels
  BY DEF TypeOK, RequestLabels, FinishLabels
<1>1. CASE RequestCancel(q)
  <2>1. PICK r \in Runs : /\ row' = [row EXCEPT ![r] = MarkCancelRequested(@)]
                          /\ target' = [target EXCEPT ![q] = r]
    BY <1>1 DEF RequestCancel
  <2>2. MarkCancelRequested(row[r]) \in Rows
    BY RowOperators DEF TypeOK
  <2>3. row' \in [Runs -> Rows]
    BY <2>1, <2>2 DEF TypeOK
  <2>4. /\ target' \in [Requests -> Runs \cup {NoRun}]
        /\ target'[q] \in Runs
        /\ \A p \in Requests : p # q => target'[p] = target[p]
    BY <2>1 DEF TypeOK
  <2>5. ControlOK'
    BY <1>0, <1>1, <2>4, RequestGoto DEF RequestCancel
  <2> QED BY <1>1, <2>3, <2>4, <2>5 DEF RequestCancel, TypeOK, requestFrame
<1>2. CASE ListActive(q)
  <2>1. /\ target' \in [Requests -> Runs \cup {NoRun}]
        /\ todo' \in [Requests -> SUBSET Runs]
        /\ \A p \in Requests : p # q => target'[p] = target[p]
        /\ \/ Goto(q, "ended")
           \/ Goto(q, "claim") /\ target'[q] \in Runs
    BY <1>2 DEF ListActive, TypeOK, requestVars
  <2>2. ControlOK'
    BY <1>0, <2>1, RequestGoto
  <2> QED BY <1>2, <2>1, <2>2 DEF ListActive, TypeOK, requestFrame
<1>3. CASE ReadRun(q) \/ SignalRun(q)
  <2>1. target[q] \in Runs
    BY <1>0, <1>3 DEF ReadRun, SignalRun, ControlOK
  <2>2. ControlOK'
    BY <1>0, <1>3, <2>1, RequestGoto DEF ReadRun, SignalRun, requestVars, TypeOK
  <2>3. faults' \in 0..MaxFaults
    BY <1>3, FaultType DEF ReadRun, SignalRun
  <2>4. ctx' \in [Runs -> {"none", "live", "canceled"}]
    BY <1>3, <2>1 DEF ReadRun, SignalRun, TypeOK
  <2> QED BY <1>3, <2>2, <2>3, <2>4
          DEF ReadRun, SignalRun, TypeOK, requestFrame, requestVars
<1> QED BY <1>1, <1>2, <1>3

\* So do a crash, a deleted conversation and standing still.
LEMMA EnvironmentTypeOK ==
    ASSUME TypeOK, DeleteConversation \/ Crash \/ UNCHANGED vars
    PROVE  TypeOK'
<1>1. CASE DeleteConversation
  <2>1. row' \in [Runs -> Rows] /\ events' \in [Runs -> Seq(EventTypes)]
    BY <1>1, RowOperators DEF DeleteConversation
  <2>2. ControlOK'
    BY <1>1 DEF DeleteConversation, ControlOK, TypeOK, requestVars
  <2> QED BY <1>1, <2>1, <2>2 DEF DeleteConversation, TypeOK, requestVars
<1>2. CASE Crash
  <2>1. ControlOK'
    <3>1. {"idle", "ended"} \subseteq RunLabels \cap RequestLabels
      BY DEF RunLabels, RequestLabels
    <3> QED BY <1>2, <3>1 DEF Crash, ControlOK, TypeOK, Actors
  <2> QED BY <1>2, <2>1, ChatRunsAssumption DEF Crash, TypeOK
<1>3. CASE UNCHANGED vars
  BY <1>3 DEF vars, TypeOK, ControlOK
<1> QED BY <1>1, <1>2, <1>3

\* Every step keeps the types.
LEMMA NextTypeOK == TypeOK /\ [Next]_vars => TypeOK'
<1> SUFFICES ASSUME TypeOK, [Next]_vars PROVE TypeOK'
  OBVIOUS
<1>1. ASSUME NEW r \in Runs, RunStep(r) PROVE TypeOK'
  BY <1>1, HandlerTypeOK, GoroutineTypeOK, FinishTypeOK DEF RunStep, Work, Actors
<1>2. ASSUME NEW q \in Requests, RequestStep(q) PROVE TypeOK'
  BY <1>2, RequestTypeOK, FinishTypeOK DEF RequestStep, Serve, Actors
<1>3. ASSUME DeleteConversation \/ Crash \/ UNCHANGED vars PROVE TypeOK'
  BY <1>3, EnvironmentTypeOK
<1> QED BY <1>1, <1>2, <1>3 DEF Next, Quiescent

\* Every reachable state is well typed: every actor is at a label of its own
\* program, and no request works without a run.
THEOREM TypeCorrect == Spec => []TypeOK
BY InitTypeOK, NextTypeOK, PTL DEF Spec

-----------------------------------------------------------------------------
(* The stop notice.                                                        *)

\* Occurrences in a sequence that grows at its end.
LEMMA OccursAppend ==
    ASSUME NEW S, NEW s \in Seq(S), NEW y \in S, NEW x
    PROVE  /\ Occurs(Append(s, y), x) <=> Occurs(s, x) \/ y = x
           /\ AtMostOnce(s, x) /\ ~(Occurs(s, x) /\ y = x)
                  => AtMostOnce(Append(s, y), x)
<1> DEFINE t == Append(s, y)
<1>1. /\ Len(t) = Len(s) + 1
      /\ Len(s) \in Nat
      /\ \A i \in 1..Len(s) : t[i] = s[i]
      /\ t[Len(t)] = y
  OBVIOUS
<1>2. \A i \in 1..Len(t) : i \in 1..Len(s) \/ i = Len(t)
  BY <1>1
<1>3. 1..Len(s) \subseteq 1..Len(t) /\ Len(t) \in 1..Len(t)
  BY <1>1
<1> HIDE DEF t
<1>4. Occurs(t, x) <=> Occurs(s, x) \/ y = x
  BY <1>1, <1>2, <1>3 DEF Occurs
<1>5. AtMostOnce(s, x) /\ ~(Occurs(s, x) /\ y = x) => AtMostOnce(t, x)
  BY <1>1, <1>2, <1>3 DEF Occurs, AtMostOnce
<1> QED BY <1>4, <1>5 DEF t

\* What occurs in a prefix of a log occurs in the log, and no more often.
LEMMA OccursPrefix ==
    ASSUME NEW S, NEW s \in Seq(S), NEW i \in 1..Len(s), NEW x
    PROVE  /\ Occurs(SubSeq(s, 1, i), x) => Occurs(s, x)
           /\ AtMostOnce(s, x) => AtMostOnce(SubSeq(s, 1, i), x)
<1> DEFINE t == SubSeq(s, 1, i)
<1>1. Len(t) = i /\ \A j \in 1..i : t[j] = s[j]
  BY Prefix
<1>2. 1..i \subseteq 1..Len(s)
  OBVIOUS
<1> HIDE DEF t
<1>3. Occurs(t, x) => Occurs(s, x)
  BY <1>1, <1>2 DEF Occurs
<1>4. AtMostOnce(s, x) => AtMostOnce(t, x)
  BY <1>1, <1>2 DEF AtMostOnce
<1> QED BY <1>3, <1>4 DEF t

\* Nothing occurs in an empty log.
LEMMA EmptyOccurs ==
    ASSUME NEW x
    PROVE  ~Occurs(<<>>, x) /\ AtMostOnce(<<>>, x)
BY DEF Occurs, AtMostOnce

\* What one statement can do to the log and to the conversation.
LEMMA AppendEventEffect ==
    ASSUME TypeOK, NEW r \in Runs, NEW type \in EventTypes, AppendEvent(r, type),
           NEW x \in Runs
    PROVE  \/ events'[x] = events[x]
           \/ /\ x = r
              /\ row[r].status # "absent"
              /\ events'[x] = Append(events[x], type)
BY DEF AppendEvent, Exists, TypeOK

\* A message tells its run and its kind.
LEMMA MessagesAreDistinct ==
    ASSUME NEW r, NEW x, NEW k, NEW l
    PROVE  Message(r, k) = Message(x, l) <=> r = x /\ k = l
<1>1. Message(r, k).run = r /\ Message(r, k).kind = k
  BY DEF Message
<1>2. Message(x, l).run = x /\ Message(x, l).kind = l
  BY DEF Message
<1> QED BY <1>1, <1>2

\* A step that takes no claim, writes no stop notice and publishes no
\* "canceled": whatever else it does, it may only forget stop notices.
Quiet ==
    /\ UNCHANGED conversation
    /\ conversation = "deleted" => UNCHANGED <<messages, events>>
    /\ \A r \in Runs :
          /\ Published(r, "canceled")' => Published(r, "canceled")
          /\ AtMostOnce(events[r], "canceled") => AtMostOnce(events'[r], "canceled")
          /\ Stored(Message(r, "stopped"))' => Stored(Message(r, "stopped"))
          /\ AtMostOnce(messages, Message(r, "stopped"))
                 => AtMostOnce(messages', Message(r, "stopped"))
          /\ row[r].status \in {"absent", "canceled"}
                 => row'[r].status = row[r].status
          /\ pc'[r] \in {"idle", "insert"} => pc[r] \in {"idle", "insert"}
    /\ \A a \in Actors, r \in Runs :
          Holds(a, r)' => /\ Holds(a, r)
                          /\ pc'[a] = "stopMessage" => pc[a] = "stopMessage"

\* A step that touches nothing the invariant speaks of preserves it.
LEMMA QuietPreserves ==
    ASSUME ClaimInv, Quiet
    PROVE  ClaimInv'
<1> USE DEF ClaimInv
<1>1. DeletedIsEmpty'
  BY DEF Quiet, DeletedIsEmpty
<1>2. ClaimExclusive'
  BY DEF Quiet, ClaimExclusive
<1>3. NotYetInserted'
  BY DEF Quiet, NotYetInserted
<1>4. StopNoticeMeansCanceled'
  BY DEF Quiet, StopNoticeMeansCanceled
<1>5. StopNoticeOnce'
  BY DEF Quiet, StopNoticeOnce
<1> QED BY <1>1, <1>2, <1>3, <1>4, <1>5

HolderLabels == {"stopMessage", "attach", "canceledEvent"}

\* The parts of Quiet, one per kind of statement.
LogQuiet ==
    /\ conversation = "deleted" => UNCHANGED events
    /\ \A r \in Runs :
          /\ Published(r, "canceled")' => Published(r, "canceled")
          /\ AtMostOnce(events[r], "canceled") => AtMostOnce(events'[r], "canceled")

ConversationQuiet ==
    /\ conversation = "deleted" => UNCHANGED messages
    /\ \A r \in Runs :
          /\ Stored(Message(r, "stopped"))' => Stored(Message(r, "stopped"))
          /\ AtMostOnce(messages, Message(r, "stopped"))
                 => AtMostOnce(messages', Message(r, "stopped"))

RowQuiet ==
    \A r \in Runs : row[r].status \in {"absent", "canceled"}
                        => row'[r].status = row[r].status

ControlQuiet ==
    /\ \A r \in Runs : pc'[r] \in {"idle", "insert"} => pc[r] \in {"idle", "insert"}
    /\ \A a \in Actors, r \in Runs :
          Holds(a, r)' => /\ Holds(a, r)
                          /\ pc'[a] = "stopMessage" => pc[a] = "stopMessage"

\* The parts a quiet step is made of.
LEMMA QuietParts ==
    ASSUME LogQuiet, ConversationQuiet, RowQuiet, ControlQuiet,
           UNCHANGED conversation
    PROVE  Quiet
BY DEF LogQuiet, ConversationQuiet, RowQuiet, ControlQuiet, Quiet

\* An event that is no stop notice is quiet.
LEMMA LogQuietStep ==
    ASSUME TypeOK, DeletedIsEmpty, NEW r \in Runs,
           NEW type \in EventTypes, type # "canceled",
           AppendEvent(r, type)
    PROVE  LogQuiet
<1>1. ASSUME NEW x \in Runs
      PROVE  /\ Published(x, "canceled")' => Published(x, "canceled")
             /\ AtMostOnce(events[x], "canceled") => AtMostOnce(events'[x], "canceled")
  <2>1. CASE events'[x] = events[x]
    BY <2>1 DEF Published
  <2>2. CASE events'[x] = Append(events[x], type)
    <3>1. events[x] \in Seq(EventTypes)
      BY DEF TypeOK
    <3> QED BY <2>2, <3>1, OccursAppend DEF Published
  <2> QED BY <2>1, <2>2, AppendEventEffect
<1>2. conversation = "deleted" => UNCHANGED events
  BY DEF DeletedIsEmpty, AppendEvent, Exists
<1> QED BY <1>1, <1>2 DEF LogQuiet

\* So is a message that is no stop notice, or one that fails.
LEMMA ConversationQuietStep ==
    ASSUME TypeOK, NEW r \in Runs, NEW kind \in Kinds, kind # "stopped",
           CreateMessage(Message(r, kind)) \/ CreateMessageFails
    PROVE  ConversationQuiet
<1>1. CASE CreateMessage(Message(r, kind))
  <2>1. messages' = Append(messages, Message(r, kind)) /\ conversation = "open"
    BY <1>1 DEF CreateMessage
  <2>2. messages \in Seq(Messages) /\ Message(r, kind) \in Messages
    BY DEF TypeOK, Message, Messages
  <2>3. \A x \in Runs : Message(x, "stopped") # Message(r, kind)
    BY MessagesAreDistinct
  <2> QED BY <2>1, <2>2, <2>3, OccursAppend DEF ConversationQuiet, Stored
<1>2. CASE CreateMessageFails
  BY <1>2 DEF CreateMessageFails, ConversationQuiet, Stored
<1> QED BY <1>1, <1>2

\* So is a step that leaves the log, the messages or the rows alone.
LEMMA UnchangedQuiet ==
    /\ UNCHANGED events => LogQuiet
    /\ UNCHANGED messages => ConversationQuiet
    /\ UNCHANGED row => RowQuiet
BY DEF LogQuiet, ConversationQuiet, RowQuiet, Published, Stored

\* So is a goroutine's move outside the finishing of a canceled run.
LEMMA RunMoveQuiet ==
    ASSUME TypeOK, NEW r \in Runs, NEW l, Goto(r, l), UNCHANGED target,
           l \notin HolderLabels, l \notin {"idle", "insert"} \/ pc[r] = "idle"
    PROVE  ControlQuiet
BY DEF TypeOK, ControlOK, Goto, ControlQuiet, Holds, HolderLabels, Of, Actors

\* So is a request's.
LEMMA RequestMoveQuiet ==
    ASSUME TypeOK, NEW q \in Requests, NEW l, Goto(q, l), l \notin HolderLabels,
           \A p \in Requests : p # q => target'[p] = target[p]
    PROVE  ControlQuiet
<1>1. q \notin Runs
  BY ChatRunsAssumption
<1> QED BY <1>1 DEF TypeOK, ControlOK, Goto, ControlQuiet, Holds, HolderLabels, Of, Actors

\* The handler's steps preserve the invariant: a run not inserted has no
\* claimant.
LEMMA HandlerClaimInv ==
    ASSUME TypeOK, ClaimInv, NEW r \in Runs,
           PostMessage(r) \/ EditMessage(r) \/ InsertRun(r) \/ Announce(r) \/ Launch(r)
    PROVE  ClaimInv'
<1> USE DEF requestVars
<1>0. DeletedIsEmpty
  BY DEF ClaimInv
<1>1. CASE PostMessage(r)
  <2>1. ConversationQuiet
    BY <1>1, ConversationQuietStep DEF PostMessage, Kinds
  <2>2. ControlQuiet
    BY <1>1, RunMoveQuiet DEF PostMessage, HolderLabels
  <2> QED BY <1>1, <2>1, <2>2, UnchangedQuiet, QuietParts, QuietPreserves DEF PostMessage
<1>2. CASE EditMessage(r)
  <2>1. ConversationQuiet
    <3>1. PICK i \in 1..Len(messages) : messages' = SubSeq(messages, 1, i)
      BY <1>2 DEF EditMessage
    <3>2. conversation = "deleted" => Len(messages) = 0
      BY <1>0 DEF DeletedIsEmpty
    <3>3. messages \in Seq(Messages)
      BY DEF TypeOK
    <3>4. conversation # "deleted"
      BY <3>1, <3>2
    <3> QED BY <3>1, <3>3, <3>4, OccursPrefix DEF ConversationQuiet, Stored
  <2>2. RowQuiet
    <3>1. \A x \in Runs : row'[x].status = row[x].status
      BY <1>2 DEF EditMessage, TypeOK, Rows
    <3> QED BY <3>1 DEF RowQuiet
  <2>3. ControlQuiet
    BY <1>2, RunMoveQuiet DEF EditMessage, HolderLabels
  <2> QED BY <1>2, <2>1, <2>2, <2>3, UnchangedQuiet, QuietParts, QuietPreserves DEF EditMessage
<1>3. CASE InsertRun(r)
  <2>1. CASE UNCHANGED row
    <3>1. ControlQuiet
      <4>1. PICK l \in {"run_started", "ended"} : Goto(r, l)
        BY <1>3 DEF InsertRun
      <4> QED BY <1>3, <4>1, RunMoveQuiet DEF InsertRun, HolderLabels
    <3> QED BY <1>3, <2>1, <3>1, UnchangedQuiet, QuietParts, QuietPreserves DEF InsertRun
  <2>2. CASE /\ conversation = "open"
             /\ row' = [row EXCEPT ![r] = RunningRow]
             /\ Goto(r, "run_started")
    <3>1. row[r].status = "absent"
      BY <1>3 DEF InsertRun, ClaimInv, NotYetInserted
    <3>2. /\ ~Published(r, "canceled")
          /\ ~Stored(Message(r, "stopped"))
          /\ \A a \in Actors : ~Holds(a, r)
      BY <2>2, <3>1 DEF ClaimInv, StopNoticeMeansCanceled, ClaimExclusive
    <3>3. /\ row'[r].status = "running"
          /\ \A x \in Runs : x # r => row'[x] = row[x]
      BY <2>2 DEF TypeOK, RunningRow, AbsentRow
    <3>4. /\ ControlQuiet
          /\ pc'[r] = "run_started"
          /\ \A a \in Actors : a # r => pc'[a] = pc[a]
      BY <1>3, <2>2, RunMoveQuiet
         DEF InsertRun, HolderLabels, Goto, TypeOK, ControlOK, Actors
    <3>5. UNCHANGED <<conversation, events, messages>>
      BY <1>3 DEF InsertRun
    <3>6. \A a \in Actors, x \in Runs :
             Holds(a, x)' => x # r /\ Holds(a, x)
                             /\ (pc'[a] = "stopMessage" => pc[a] = "stopMessage")
      BY <3>2, <3>4 DEF ControlQuiet
    <3>7. DeletedIsEmpty'
      BY <2>2, <3>5 DEF DeletedIsEmpty
    <3>8. ClaimExclusive'
      BY <3>3, <3>5, <3>6 DEF ClaimInv, ClaimExclusive, Published, Stored
    <3>9. NotYetInserted'
      BY <3>3, <3>4 DEF ClaimInv, NotYetInserted, Actors
    <3>10. StopNoticeMeansCanceled' /\ StopNoticeOnce'
      BY <3>2, <3>3, <3>5
         DEF ClaimInv, StopNoticeMeansCanceled, StopNoticeOnce, Published, Stored
    <3> QED BY <3>7, <3>8, <3>9, <3>10 DEF ClaimInv
  <2> QED BY <1>3, <2>1, <2>2 DEF InsertRun
<1>4. CASE Announce(r)
  <2>1. LogQuiet
    BY <1>0, <1>4, LogQuietStep DEF Announce, EventTypes
  <2>2. ControlQuiet
    <3>1. PICK l \in {"user", "image_announce", "launch"} : Goto(r, l)
      BY <1>4 DEF Announce
    <3> QED BY <1>4, <3>1, RunMoveQuiet DEF Announce, HolderLabels
  <2> QED BY <1>4, <2>1, <2>2, UnchangedQuiet, QuietParts, QuietPreserves DEF Announce
<1>5. CASE Launch(r)
  <2>1. ControlQuiet
    <3>1. PICK l \in {"plan", "generate"} : Goto(r, l)
      BY <1>5 DEF Launch
    <3> QED BY <1>5, <3>1, RunMoveQuiet DEF Launch, HolderLabels
  <2> QED BY <1>5, <2>1, UnchangedQuiet, QuietParts, QuietPreserves DEF Launch
<1> QED BY <1>1, <1>2, <1>3, <1>4, <1>5

\* The worker's steps do: none of its WHERE clauses lets a canceled row go.
LEMMA GoroutineClaimInv ==
    ASSUME TypeOK, ClaimInv, NEW r \in Runs,
           \/ AcceptDelta(r) \/ SearchSources(r) \/ Upstream(r)
           \/ PlanImage(r) \/ ImagePending(r) \/ AppendDelta(r)
           \/ CheckReturned(r) \/ NextChunk(r) \/ LastChunk(r) \/ Pause(r)
           \/ FinalCheck(r) \/ CheckFailed(r) \/ SaveAnswer(r)
           \/ SaveFailure(r) \/ CompleteRun(r) \/ FailRun(r)
           \/ PublishOutcome(r)
    PROVE  ClaimInv'
<1> USE DEF requestVars, goroutineFrame
<1>0. DeletedIsEmpty
  BY DEF ClaimInv
<1>1. CASE \/ PlanImage(r) \/ CheckReturned(r) \/ NextChunk(r)
           \/ FinalCheck(r) \/ CheckFailed(r)
           \/ AcceptDelta(r) \/ Upstream(r) \/ LastChunk(r) \/ Pause(r)
  <2>1. PICK l \in {"claim", "image_pending", "finalCheck", "chunk", "chunkEvent",
                    "save", "saveFailure", "delta", "returned", "failedCheck"} :
               Goto(r, l)
    BY <1>1 DEF PlanImage, CheckReturned, NextChunk, FinalCheck, CheckFailed,
                CheckThenGo, AcceptDelta, Upstream, GenerateSucceeds,
                GenerateFails, LastChunk, Pause
  <2>2. UNCHANGED <<messages, row, events, conversation, target>>
    BY <1>1 DEF PlanImage, CheckReturned, NextChunk, FinalCheck, CheckFailed,
                CheckThenGo, AcceptDelta, Upstream, GenerateSucceeds,
                GenerateFails, LastChunk, Pause
  <2>3. ControlQuiet
    BY <2>1, <2>2, RunMoveQuiet DEF HolderLabels
  <2> QED BY <2>2, <2>3, UnchangedQuiet, QuietParts, QuietPreserves
<1>2. CASE SearchSources(r) \/ ImagePending(r) \/ AppendDelta(r) \/ PublishOutcome(r)
  <2>1. PICK type \in EventTypes : type # "canceled" /\ AppendEvent(r, type)
    BY <1>2 DEF SearchSources, ImagePending, AppendDelta, PublishOutcome,
                EventTypes, Deltas, TerminalEvents
  <2>2. LogQuiet
    BY <1>0, <2>1, LogQuietStep
  <2>3. PICK l \in {"sourced", "generate", "pause", "ended"} : Goto(r, l)
    BY <1>2 DEF SearchSources, ImagePending, AppendDelta, PublishOutcome
  <2>4. UNCHANGED <<messages, row, conversation, target>>
    BY <1>2 DEF SearchSources, ImagePending, AppendDelta, PublishOutcome
  <2>5. ControlQuiet
    BY <2>3, <2>4, RunMoveQuiet DEF HolderLabels
  <2> QED BY <2>2, <2>4, <2>5, UnchangedQuiet, QuietParts, QuietPreserves
<1>3. CASE SaveAnswer(r) \/ SaveFailure(r)
  <2>1. ConversationQuiet
    BY <1>3, ConversationQuietStep DEF SaveAnswer, SaveFailure, Kinds
  <2>2. PICK l \in {"complete", "fail"} : Goto(r, l)
    BY <1>3 DEF SaveAnswer, SaveFailure
  <2>3. UNCHANGED <<events, row, conversation, target>>
    BY <1>3 DEF SaveAnswer, SaveFailure
  <2>4. ControlQuiet
    BY <2>2, <2>3, RunMoveQuiet DEF HolderLabels
  <2> QED BY <2>1, <2>3, <2>4, UnchangedQuiet, QuietParts, QuietPreserves
<1>4. CASE CompleteRun(r) \/ FailRun(r)
  <2>1. RowQuiet
    <3>1. \/ UNCHANGED row
          \/ /\ row[r].status \notin {"absent", "canceled"}
             /\ \E x : row' = [row EXCEPT ![r] = x]
      BY <1>4 DEF CompleteRun, FailRun, MayComplete, MayFail, UpdateRow
    <3> QED BY <3>1 DEF RowQuiet, TypeOK
  <2>2. PICK l \in {"doneEvent", "errorEvent"} : Goto(r, l)
    BY <1>4 DEF CompleteRun, FailRun
  <2>3. UNCHANGED <<events, messages, conversation, target>>
    BY <1>4 DEF CompleteRun, FailRun
  <2>4. ControlQuiet
    BY <2>2, <2>3, RunMoveQuiet DEF HolderLabels
  <2> QED BY <2>1, <2>3, <2>4, UnchangedQuiet, QuietParts, QuietPreserves
<1> QED BY <1>1, <1>2, <1>3, <1>4

\* Returning from finishCanceledRun leaves no claim behind.
LEMMA ReturnQuiet ==
    ASSUME TypeOK, NEW a \in Actors, Return(a), pc[a] \notin {"idle", "ended"}
    PROVE  /\ ControlQuiet
           /\ \A r \in Runs : ~Holds(a, r)'
<1>1. CASE a \in Runs /\ Goto(a, "ended") /\ UNCHANGED requestVars
  <2>1. ControlQuiet
    BY <1>1, RunMoveQuiet DEF HolderLabels, requestVars
  <2> QED BY <1>1, <2>1 DEF Goto, TypeOK, ControlOK, Holds
<1>2. CASE a \in Requests /\ Goto(a, "ended") /\ UNCHANGED requestVars
  <2>1. ControlQuiet
    BY <1>2, RequestMoveQuiet DEF HolderLabels, requestVars
  <2> QED BY <1>2, <2>1 DEF Goto, TypeOK, ControlOK, Holds
<1>3. CASE /\ a \in Requests
           /\ \E r \in todo[a] : target' = [target EXCEPT ![a] = r]
           /\ Goto(a, "claim")
  <2>1. \A p \in Requests : p # a => target'[p] = target[p]
    BY <1>3 DEF TypeOK
  <2>2. ControlQuiet
    BY <1>3, <2>1, RequestMoveQuiet DEF HolderLabels
  <2> QED BY <1>3, <2>2 DEF Goto, TypeOK, ControlOK, Holds
<1> QED BY <1>1, <1>2, <1>3 DEF Return

\* The finishing steps do: the claimant is alone, and publishes once.
LEMMA FinishClaimInv ==
    ASSUME TypeOK, ClaimInv, NEW a \in Actors, Finish(a)
    PROVE  ClaimInv'
<1>a. Of(a) \in Runs /\ DeletedIsEmpty /\ ControlOK
  BY OfIsRun DEF Finish, Claim, StopMessage, AttachStopMessage, PublishCanceled,
                 TypeOK, ClaimInv
<1>b. PICK r \in Runs : r = Of(a)
  BY <1>a
<1>0. r \in Runs /\ r = Of(a) /\ DeletedIsEmpty /\ ControlOK
  BY <1>a, <1>b
<1>1. CASE Claim(a)
  <2>1. UNCHANGED <<conversation, messages, events>>
    BY <1>1 DEF Claim
  <2>2. CASE Return(a) /\ UNCHANGED row
    <3>1. ControlQuiet
      BY <1>1, <2>2, ReturnQuiet DEF Claim
    <3> QED BY <2>1, <2>2, <3>1, UnchangedQuiet, QuietParts, QuietPreserves
  <2>3. CASE /\ MayCancel(row[r])
             /\ row' = [row EXCEPT ![r] = Canceled(@)]
             /\ Goto(a, "stopMessage")
             /\ UNCHANGED requestVars
    <3>1. row[r].status \notin {"absent", "canceled"}
      BY <2>3 DEF MayCancel
    <3>2. conversation # "deleted"
      BY <1>0, <3>1 DEF DeletedIsEmpty
    <3>3. conversation = "open"
      BY <3>2 DEF TypeOK
    <3>4. /\ ~Published(r, "canceled")
          /\ ~Stored(Message(r, "stopped"))
          /\ \A b \in Actors : ~Holds(b, r)
      BY <1>0, <3>1, <3>3 DEF ClaimInv, StopNoticeMeansCanceled, ClaimExclusive
    <3>5. /\ row'[r].status = "canceled"
          /\ \A x \in Runs : x # r => row'[x] = row[x]
      BY <1>0, <2>3 DEF TypeOK, Rows, Canceled
    <3>6. /\ pc'[a] = "stopMessage"
          /\ \A b \in Actors : b # a => pc'[b] = pc[b]
          /\ UNCHANGED target
      BY <2>3 DEF Goto, TypeOK, ControlOK, requestVars
    <3>7. \A b \in Actors, x \in Runs :
             Holds(b, x)' => (b = a /\ x = r) \/ (b # a /\ x # r /\ Holds(b, x))
      BY <1>0, <3>4, <3>6 DEF Holds, Of
    <3>8. ClaimExclusive'
      <4> SUFFICES ASSUME NEW x \in Runs, NEW b \in Actors, Holds(b, x)'
                   PROVE  (/\ conversation = "open" =>
                              /\ row[x].status = "canceled"
                              /\ \A c \in Actors : Holds(c, x) => b = c
                           /\ ~Published(x, "canceled")
                           /\ pc[b] = "stopMessage" => ~Stored(Message(x, "stopped")))'
        BY DEF ClaimExclusive
      <4>1. CASE b = a /\ x = r
        BY <2>1, <3>4, <3>5, <3>7, <4>1 DEF Published, Stored
      <4>2. CASE b # a /\ x # r /\ Holds(b, x)
        BY <2>1, <3>5, <3>6, <3>7, <4>2 DEF ClaimInv, ClaimExclusive, Published, Stored
      <4> QED BY <3>7, <4>1, <4>2
    <3>9. NotYetInserted'
      BY <1>0, <1>1, <3>1, <3>5, <3>6 DEF ClaimInv, NotYetInserted, Actors
    <3>10. StopNoticeMeansCanceled' /\ StopNoticeOnce' /\ DeletedIsEmpty'
      BY <2>1, <3>2, <3>4, <3>5
         DEF ClaimInv, StopNoticeMeansCanceled, StopNoticeOnce, DeletedIsEmpty,
             Published, Stored
    <3> QED BY <3>8, <3>9, <3>10 DEF ClaimInv
  <2> QED BY <1>0, <1>1, <2>2, <2>3 DEF Claim
<1>2. CASE StopMessage(a)
  <2>0. UNCHANGED <<conversation, row, events, target>>
    BY <1>2 DEF StopMessage, requestVars
  <2>1. Holds(a, r) /\ pc[a] = "stopMessage"
    BY <1>0, <1>2 DEF StopMessage, Holds
  <2>2. PICK l \in {"attach", "canceledEvent"} : Goto(a, l)
    BY <1>2 DEF StopMessage
  <2>3. /\ pc'[a] = l
        /\ \A b \in Actors : b # a => pc'[b] = pc[b]
    BY <2>2 DEF Goto, TypeOK, ControlOK
  <2>4. /\ \A b \in Actors, x \in Runs : Holds(b, x)' <=> Holds(b, x)
        /\ \A b \in Actors : pc'[b] = "stopMessage" => b # a /\ pc[b] = "stopMessage"
    BY <2>0, <2>1, <2>3 DEF Holds, Of
  <2>5. /\ ~Stored(Message(r, "stopped"))
        /\ conversation = "open" => row[r].status = "canceled"
        /\ conversation = "open" => \A b \in Actors : Holds(b, r) => a = b
    BY <1>0, <2>1 DEF ClaimInv, ClaimExclusive
  <2>6. \/ UNCHANGED messages
        \/ conversation = "open" /\ messages' = Append(messages, Message(r, "stopped"))
    BY <1>0, <1>2 DEF StopMessage, CreateMessage, CreateMessageFails
  <2>7. \A x \in Runs :
           /\ x # r => (Stored(Message(x, "stopped"))' <=> Stored(Message(x, "stopped")))
           /\ AtMostOnce(messages', Message(x, "stopped"))
    <3>1. messages \in Seq(Messages) /\ Message(r, "stopped") \in Messages
      BY <1>0 DEF TypeOK, Message, Messages, Kinds
    <3>2. \A x \in Runs : x # r => Message(x, "stopped") # Message(r, "stopped")
      BY <1>0, MessagesAreDistinct
    <3>3. \A x \in Runs : AtMostOnce(messages, Message(x, "stopped"))
      BY DEF ClaimInv, StopNoticeOnce
    <3>4. CASE messages' = Append(messages, Message(r, "stopped"))
      BY <2>5, <3>1, <3>2, <3>3, <3>4, OccursAppend DEF Stored
    <3>5. CASE UNCHANGED messages
      BY <3>3, <3>5 DEF Stored
    <3> QED BY <2>6, <3>4, <3>5
  <2>8. ClaimExclusive'
    <3> SUFFICES ASSUME NEW x \in Runs, NEW b \in Actors, Holds(b, x)'
                 PROVE  (/\ conversation = "open" =>
                            /\ row[x].status = "canceled"
                            /\ \A c \in Actors : Holds(c, x) => b = c
                         /\ ~Published(x, "canceled")
                         /\ pc[b] = "stopMessage" => ~Stored(Message(x, "stopped")))'
      BY DEF ClaimExclusive
    <3>1. /\ conversation = "open" =>
                /\ row[x].status = "canceled"
                /\ \A c \in Actors : Holds(c, x) => b = c
          /\ ~Published(x, "canceled")
          /\ pc[b] = "stopMessage" => ~Stored(Message(x, "stopped"))
      BY <2>4 DEF ClaimInv, ClaimExclusive
    <3>2. pc'[b] = "stopMessage" => ~Stored(Message(x, "stopped"))'
      <4>1. CASE UNCHANGED messages
        BY <2>4, <3>1, <4>1 DEF Stored
      <4>2. CASE conversation = "open"
        BY <2>1, <2>4, <2>5, <2>7, <3>1, <4>2
      <4> QED BY <2>6, <4>1, <4>2
    <3> QED BY <2>0, <2>4, <3>1, <3>2 DEF Published
  <2>9. DeletedIsEmpty'
    BY <1>0, <2>0, <2>6 DEF DeletedIsEmpty, TypeOK
  <2>10. NotYetInserted'
    BY <2>0, <2>3 DEF ClaimInv, NotYetInserted, Actors
  <2>11. StopNoticeMeansCanceled'
    <3>1. CASE UNCHANGED messages
      BY <2>0, <3>1 DEF ClaimInv, StopNoticeMeansCanceled, Published, Stored
    <3>2. CASE conversation = "open"
      BY <2>0, <2>5, <2>7, <3>2 DEF ClaimInv, StopNoticeMeansCanceled, Published
    <3> QED BY <2>6, <3>1, <3>2
  <2>12. StopNoticeOnce'
    BY <2>0, <2>7 DEF ClaimInv, StopNoticeOnce
  <2> QED BY <2>8, <2>9, <2>10, <2>11, <2>12 DEF ClaimInv
<1>3. CASE AttachStopMessage(a)
  <2>1. RowQuiet
    <3>1. \A x \in Runs : row'[x].status = row[x].status
      <4>1. \/ row' = row
            \/ row' = [row EXCEPT ![r] = [row[r] EXCEPT !.assistant = "stopped"]]
        BY <1>0, <1>3 DEF AttachStopMessage, UpdateRow
      <4>2. CASE row' = row
        BY <4>2
      <4>3. CASE row' = [row EXCEPT ![r] = [row[r] EXCEPT !.assistant = "stopped"]]
        <5>1. row \in [Runs -> Rows] /\ row[r] \in Rows
          BY <1>0 DEF TypeOK
        <5>2. row'[r] = [row[r] EXCEPT !.assistant = "stopped"]
          BY <1>0, <4>3, <5>1
        <5>3. row'[r].status = row[r].status
          BY <5>1, <5>2 DEF Rows
        <5>4. \A x \in Runs : x # r => row'[x] = row[x]
          BY <1>0, <4>3, <5>1
        <5> QED BY <5>3, <5>4
      <4> QED BY <4>1, <4>2, <4>3
    <3> QED BY <3>1 DEF RowQuiet
  <2>2. ControlQuiet
    BY <1>3 DEF AttachStopMessage, Goto, ControlQuiet, Holds, Of, TypeOK, ControlOK,
                requestVars, Actors
  <2>3. UNCHANGED <<conversation, messages, events>>
    BY <1>3 DEF AttachStopMessage
  <2> QED BY <2>1, <2>2, <2>3, UnchangedQuiet, QuietParts, QuietPreserves
<1>4. CASE PublishCanceled(a)
  <2>0. UNCHANGED <<conversation, row, messages>>
    BY <1>4 DEF PublishCanceled
  <2>1. Holds(a, r) /\ ~Published(r, "canceled")
    BY <1>0, <1>4 DEF PublishCanceled, Holds, ClaimInv, ClaimExclusive
  <2>2. ControlQuiet /\ \A x \in Runs : ~Holds(a, x)'
    BY <1>4, ReturnQuiet DEF PublishCanceled
  <2>3. conversation = "open" => /\ row[r].status = "canceled"
                                 /\ \A b \in Actors : Holds(b, r) => b = a
    BY <1>0, <2>1 DEF ClaimInv, ClaimExclusive
  <2>4. /\ conversation = "deleted" => UNCHANGED events
        /\ \A x \in Runs : x # r => events'[x] = events[x]
        /\ Published(r, "canceled")' => conversation = "open"
        /\ AtMostOnce(events'[r], "canceled")
    <3>1. AppendEvent(r, "canceled") /\ "canceled" \in EventTypes
      BY <1>0, <1>4 DEF PublishCanceled, EventTypes, TerminalEvents
    <3>2. conversation = "deleted" => UNCHANGED events
      BY <1>0, <3>1 DEF AppendEvent, Exists, DeletedIsEmpty
    <3>3. \A x \in Runs : x # r => events'[x] = events[x]
      BY <1>0, <3>1, AppendEventEffect
    <3>4. events'[r] = events[r] \/ events'[r] = Append(events[r], "canceled")
      BY <1>0, <3>1, AppendEventEffect
    <3>5. events[r] \in Seq(EventTypes) /\ AtMostOnce(events[r], "canceled")
      BY <1>0 DEF TypeOK, ClaimInv, StopNoticeOnce
    <3>6. AtMostOnce(events'[r], "canceled")
      BY <2>1, <3>1, <3>4, <3>5, OccursAppend DEF Published
    <3>7. Published(r, "canceled")' => conversation = "open"
      BY <2>1, <3>2 DEF Published, TypeOK
    <3> QED BY <3>2, <3>3, <3>6, <3>7
  <2>5. DeletedIsEmpty'
    BY <1>0, <2>0, <2>4 DEF DeletedIsEmpty
  <2>6. ClaimExclusive'
    <3> SUFFICES ASSUME NEW x \in Runs, NEW b \in Actors, Holds(b, x)'
                 PROVE  (/\ conversation = "open" =>
                            /\ row[x].status = "canceled"
                            /\ \A c \in Actors : Holds(c, x) => b = c
                         /\ ~Published(x, "canceled")
                         /\ pc[b] = "stopMessage" => ~Stored(Message(x, "stopped")))'
      BY DEF ClaimExclusive
    <3>1. Holds(b, x) /\ b # a /\ (pc'[b] = "stopMessage" => pc[b] = "stopMessage")
      BY <2>2 DEF ControlQuiet
    <3>2. conversation = "open" => x # r
      BY <2>3, <3>1
    <3>3. ~Published(x, "canceled")'
      BY <2>4, <3>1, <3>2 DEF ClaimInv, ClaimExclusive, Published
    <3> QED BY <2>0, <2>2, <3>1, <3>3 DEF ClaimInv, ClaimExclusive, ControlQuiet, Stored
  <2>7. NotYetInserted'
    BY <2>0, <2>2 DEF ClaimInv, NotYetInserted, ControlQuiet
  <2>8. StopNoticeMeansCanceled'
    BY <2>0, <2>3, <2>4 DEF ClaimInv, StopNoticeMeansCanceled, Published, Stored
  <2>9. StopNoticeOnce'
    BY <2>0, <2>4 DEF ClaimInv, StopNoticeOnce
  <2> QED BY <2>5, <2>6, <2>7, <2>8, <2>9 DEF ClaimInv
<1> QED BY <1>1, <1>2, <1>3, <1>4 DEF Finish

\* The other requests' steps do.
LEMMA RequestClaimInv ==
    ASSUME TypeOK, ClaimInv, NEW q \in Requests,
           RequestCancel(q) \/ ListActive(q) \/ ReadRun(q) \/ SignalRun(q)
    PROVE  ClaimInv'
<1> USE DEF requestVars, requestFrame
<1>1. UNCHANGED <<conversation, messages, events>>
  BY DEF RequestCancel, ListActive, ReadRun, SignalRun
<1>2. RowQuiet
  <2>1. CASE RequestCancel(q)
    <3>1. PICK x \in Runs : Exists(x) /\ row' = [row EXCEPT ![x] = MarkCancelRequested(@)]
      BY <2>1 DEF RequestCancel
    <3>2. row[x].status # "absent" /\ row[x] \in Rows
      BY <3>1 DEF Exists, TypeOK
    <3>3. row[x].status = "canceled" => row'[x].status = "canceled"
      BY <3>1, <3>2 DEF MarkCancelRequested, TerminalStatus, Rows, TypeOK
    <3> QED BY <3>1, <3>2, <3>3 DEF RowQuiet, TypeOK
  <2>2. CASE ListActive(q) \/ ReadRun(q) \/ SignalRun(q)
    BY <2>2, UnchangedQuiet DEF ListActive, ReadRun, SignalRun
  <2> QED BY <2>1, <2>2
<1>3. PICK l \in {"readRun", "signal", "signalFinish", "ended", "claim"} : Goto(q, l)
  BY DEF RequestCancel, ListActive, ReadRun, SignalRun
<1>4. \A p \in Requests : p # q => target'[p] = target[p]
  BY DEF RequestCancel, ListActive, ReadRun, SignalRun, TypeOK
<1>5. ControlQuiet
  BY <1>3, <1>4, RequestMoveQuiet DEF HolderLabels
<1> QED BY <1>1, <1>2, <1>5, UnchangedQuiet, QuietParts, QuietPreserves

\* So do a crash and a deleted conversation.
LEMMA EnvironmentClaimInv ==
    ASSUME TypeOK, ClaimInv, DeleteConversation \/ Crash \/ UNCHANGED vars
    PROVE  ClaimInv'
<1>1. CASE DeleteConversation
  <2>1. /\ messages' = <<>>
        /\ conversation' = "deleted"
        /\ \A r \in Runs : row'[r].status = "absent" /\ events'[r] = <<>>
        /\ UNCHANGED <<pc, target>>
    BY <1>1 DEF DeleteConversation, AbsentRow, requestVars
  <2>2. DeletedIsEmpty' /\ NotYetInserted'
    BY <2>1 DEF DeletedIsEmpty, NotYetInserted
  <2>3. /\ \A r \in Runs : ~Published(r, "canceled")' /\ ~Stored(Message(r, "stopped"))'
        /\ StopNoticeOnce'
    BY <2>1, EmptyOccurs DEF Published, Stored, StopNoticeOnce
  <2> QED BY <2>1, <2>2, <2>3 DEF ClaimInv, ClaimExclusive, StopNoticeMeansCanceled
<1>2. CASE Crash
  <2>1. ControlQuiet
    BY <1>2 DEF Crash, ControlQuiet, Holds, Of, Actors
  <2>2. UNCHANGED <<conversation, messages, row, events>>
    BY <1>2 DEF Crash
  <2> QED BY <2>1, <2>2, UnchangedQuiet, QuietParts, QuietPreserves
<1>3. CASE UNCHANGED vars
  <2>1. ControlQuiet
    BY <1>3 DEF vars, ControlQuiet, Holds, Of
  <2>2. UNCHANGED <<conversation, messages, row, events>>
    BY <1>3 DEF vars
  <2> QED BY <2>1, <2>2, UnchangedQuiet, QuietParts, QuietPreserves
<1> QED BY <1>1, <1>2, <1>3

\* Nothing is claimed to begin with.
LEMMA InitClaimInv == Init => ClaimInv
BY EmptyOccurs
   DEF Init, ClaimInv, DeletedIsEmpty, ClaimExclusive, NotYetInserted, AbsentRow,
       StopNoticeMeansCanceled, StopNoticeOnce, Holds, Published, Stored, Actors

\* Every step preserves the invariant.
LEMMA NextClaimInv == TypeOK /\ ClaimInv /\ [Next]_vars => ClaimInv'
<1> SUFFICES ASSUME TypeOK, ClaimInv, [Next]_vars PROVE ClaimInv'
  OBVIOUS
<1>1. ASSUME NEW r \in Runs, RunStep(r) PROVE ClaimInv'
  BY <1>1, HandlerClaimInv, GoroutineClaimInv, FinishClaimInv DEF RunStep, Work, Actors
<1>2. ASSUME NEW q \in Requests, RequestStep(q) PROVE ClaimInv'
  BY <1>2, RequestClaimInv, FinishClaimInv DEF RequestStep, Serve, Actors
<1>3. ASSUME DeleteConversation \/ Crash \/ UNCHANGED vars PROVE ClaimInv'
  BY <1>3, EnvironmentClaimInv
<1> QED BY <1>1, <1>2, <1>3 DEF Next, Quiescent

\* However many cancel and list-active requests race the goroutine, whatever
\* statement fails and whenever the process is lost, a run is claimed by one
\* of them only.
THEOREM ClaimIsExclusive == Spec => []ClaimInv
BY InitTypeOK, NextTypeOK, InitClaimInv, NextClaimInv, PTL DEF Spec

\* One "canceled" event and one stop notice at most.
THEOREM StopNoticeIsUnique == Spec => []StopNoticeOnce
<1>1. ClaimInv => StopNoticeOnce
  BY DEF ClaimInv
<1> QED BY <1>1, ClaimIsExclusive, PTL

\* They stand for a canceled row, never for a completed or failed one.
THEOREM StopNoticeIsTrue == Spec => []StopNoticeMeansCanceled
<1>1. ClaimInv => StopNoticeMeansCanceled
  BY DEF ClaimInv
<1> QED BY <1>1, ClaimIsExclusive, PTL

\* A statement that ends a run, or marks it, leaves an ended one alone: its
\* WHERE clause, or its CASE, looks at the status it is about to change.
LEMMA TerminalStep ==
    ASSUME TypeOK, NotYetInserted, [Next]_vars, NEW r \in Runs,
           row[r].status \in TerminalStatus
    PROVE  row'[r].status \in {row[r].status, "absent"}
<1> USE DEF TerminalStatus
<1>1. CASE UNCHANGED row
  BY <1>1
<1>2. ASSUME NEW x \in Runs, EditMessage(x)
      PROVE  row'[r].status = row[r].status
  BY <1>2 DEF EditMessage, TypeOK, Rows
<1>3. ASSUME NEW x \in Runs, InsertRun(x)
      PROVE  row'[r] = row[r]
  <2>1. pc[x] = "insert" /\ row[x].status = "absent"
    BY <1>3 DEF InsertRun, NotYetInserted
  <2>2. x # r
    BY <2>1
  <2> QED BY <1>3, <2>2 DEF InsertRun, TypeOK
<1>4. ASSUME NEW x \in Runs, CompleteRun(x) \/ FailRun(x)
      PROVE  row'[r].status = row[r].status
  <2>1. CASE CompleteRun(x)
    <3>1. \/ UNCHANGED row
          \/ MayComplete(row[x]) /\ row' = [row EXCEPT ![x] = Completed(row[x])]
      BY <2>1 DEF CompleteRun, UpdateRow
    <3>2. row[x] \in Rows /\ row \in [Runs -> Rows]
      BY DEF TypeOK
    <3>3. Completed(row[x]).status = "completed"
      BY <3>2 DEF Completed, Rows
    <3> QED BY <3>1, <3>2, <3>3 DEF MayComplete
  <2>2. CASE FailRun(x)
    <3>1. \/ UNCHANGED row
          \/ MayFail(row[x]) /\ row' = [row EXCEPT ![x] = Failed(row[x])]
      BY <2>2 DEF FailRun, UpdateRow
    <3>2. row[x] \in Rows /\ row \in [Runs -> Rows]
      BY DEF TypeOK
    <3>3. Failed(row[x]).status = "failed"
      BY <3>2 DEF Failed, Rows
    <3> QED BY <3>1, <3>2, <3>3 DEF MayFail
  <2> QED BY <1>4, <2>1, <2>2
<1>5. ASSUME NEW a \in Actors, Claim(a) \/ AttachStopMessage(a), Of(a) \in Runs
      PROVE  row'[r].status = row[r].status
  <2>1. PICK x \in Runs : x = Of(a)
    BY <1>5
  <2>2. row[x] \in Rows /\ row \in [Runs -> Rows]
    BY DEF TypeOK
  <2>3. CASE Claim(a)
    <3>1. \/ UNCHANGED row
          \/ MayCancel(row[x]) /\ row' = [row EXCEPT ![x] = Canceled(row[x])]
      BY <2>1, <2>3 DEF Claim
    <3>2. MayCancel(row[x]) => x # r
      BY DEF MayCancel
    <3> QED BY <2>2, <3>1, <3>2
  <2>4. CASE AttachStopMessage(a)
    <3>1. \/ UNCHANGED row
          \/ row' = [row EXCEPT ![x] = [row[x] EXCEPT !.assistant = "stopped"]]
      BY <2>1, <2>4 DEF AttachStopMessage, UpdateRow
    <3>2. [row[x] EXCEPT !.assistant = "stopped"].status = row[x].status
      BY <2>2 DEF Rows
    <3> QED BY <2>2, <3>1, <3>2
  <2> QED BY <1>5, <2>3, <2>4
<1>6. ASSUME NEW q \in Requests, RequestCancel(q)
      PROVE  row'[r].status = row[r].status
  <2>1. PICK x \in Runs : row' = [row EXCEPT ![x] = MarkCancelRequested(row[x])]
    BY <1>6 DEF RequestCancel
  <2>2. row[x] \in Rows /\ row \in [Runs -> Rows]
    BY DEF TypeOK
  <2>3. x = r => MarkCancelRequested(row[x]).status = row[x].status
    BY <2>2 DEF MarkCancelRequested, Rows
  <2> QED BY <2>1, <2>2, <2>3
<1>7. CASE DeleteConversation
  BY <1>7 DEF DeleteConversation, AbsentRow
<1>8. ASSUME NEW a \in Actors, Finish(a)
      PROVE  row'[r].status = row[r].status
  <2>1. Of(a) \in Runs
    BY <1>8, OfIsRun DEF Finish, Claim, StopMessage, AttachStopMessage,
                         PublishCanceled, TypeOK
  <2>2. CASE Claim(a) \/ AttachStopMessage(a)
    BY <1>5, <2>1, <2>2
  <2>3. CASE StopMessage(a) \/ PublishCanceled(a)
    BY <2>3 DEF StopMessage, PublishCanceled
  <2> QED BY <1>8, <2>2, <2>3 DEF Finish
<1>9. ASSUME NEW x \in Runs, RunStep(x)
      PROVE  row'[r].status = row[r].status
  <2>1. CASE EditMessage(x) \/ InsertRun(x) \/ CompleteRun(x) \/ FailRun(x) \/ Finish(x)
    BY <1>2, <1>3, <1>4, <1>8, <2>1 DEF Actors
  <2>2. CASE UNCHANGED row
    BY <2>2
  <2> QED BY <1>9, <2>1, <2>2
          DEF RunStep, Work, Upstream, PostMessage, Announce, Launch, PlanImage,
              ImagePending, AcceptDelta, AppendDelta, SearchSources,
              GenerateSucceeds, GenerateFails, CheckReturned, NextChunk,
              LastChunk, Pause, FinalCheck, CheckFailed, SaveAnswer, SaveFailure,
              PublishOutcome, CheckThenGo, goroutineFrame
<1>10. ASSUME NEW q \in Requests, RequestStep(q)
       PROVE  row'[r].status = row[r].status
  <2>1. CASE RequestCancel(q) \/ Finish(q)
    BY <1>6, <1>8, <2>1 DEF Actors
  <2>2. CASE ListActive(q) \/ ReadRun(q) \/ SignalRun(q)
    BY <2>2 DEF ListActive, ReadRun, SignalRun
  <2> QED BY <1>10, <2>1, <2>2 DEF RequestStep, Serve
<1>11. CASE Crash \/ Quiescent \/ UNCHANGED vars
  BY <1>11 DEF Crash, Quiescent, vars
<1> QED BY <1>7, <1>9, <1>10, <1>11 DEF Next

\* Completion, failure and cancellation race for the row: the first one wins
\* and nothing, an edit or a late cancel request included, undoes it.
THEOREM OutcomeIsFinal == Spec => TerminalIsFinal
<1>1. TypeOK /\ ClaimInv /\ [Next]_vars
         => [\A r \in Runs : row[r].status \in TerminalStatus
                => row'[r].status \in {row[r].status, "absent"}]_vars
  BY TerminalStep DEF ClaimInv
<1> QED BY <1>1, TypeCorrect, ClaimIsExclusive, PTL DEF Spec, TerminalIsFinal

-----------------------------------------------------------------------------
(* The log as a sequence that grows at its end.                            *)

\* A piece of output follows "canceled"; two of them do.
DeltaAfter(s) ==
    \E i, j \in 1..Len(s) : i < j /\ s[i] = "canceled" /\ s[j] \in Deltas
TwoDeltasAfter(s) ==
    \E i, j, k \in 1..Len(s) :
        i < j /\ j < k /\ s[i] = "canceled" /\ s[j] \in Deltas /\ s[k] \in Deltas

\* The entries that announce an end, as the abstract specification sees them.
Ends(s) ==
    {[position |-> i, type |-> s[i]] : i \in {j \in 1..Len(s) : s[j] \in TerminalEvents}}

\* The entries of a log that has grown by one.
LEMMA AppendEntries ==
    ASSUME NEW S, NEW s \in Seq(S), NEW y \in S
    PROVE  /\ Len(s) \in Nat /\ Len(Append(s, y)) = Len(s) + 1
           /\ \A i \in 1..Len(s) : Append(s, y)[i] = s[i]
           /\ Append(s, y)[Len(s) + 1] = y
OBVIOUS

\* Output that is appended follows "canceled" only if that is in the log.
LEMMA DeltaAppend ==
    ASSUME NEW S, NEW s \in Seq(S), NEW y \in S
    PROVE  /\ DeltaAfter(Append(s, y)) =>
                  DeltaAfter(s) \/ (y \in Deltas /\ Occurs(s, "canceled"))
           /\ TwoDeltasAfter(Append(s, y)) =>
                  TwoDeltasAfter(s) \/ (y \in Deltas /\ DeltaAfter(s))
<1> DEFINE t == Append(s, y)
<1>1. /\ Len(s) \in Nat /\ Len(t) = Len(s) + 1
      /\ \A i \in 1..Len(s) : t[i] = s[i]
      /\ t[Len(s) + 1] = y
  BY AppendEntries
<1>2. \A i, j \in 1..Len(t) : i < j => i \in 1..Len(s)
  BY <1>1
<1>3. \A i \in 1..Len(t) : i \in 1..Len(s) \/ i = Len(s) + 1
  BY <1>1
<1> HIDE DEF t
<1>4. ASSUME DeltaAfter(t) PROVE DeltaAfter(s) \/ (y \in Deltas /\ Occurs(s, "canceled"))
  <2>1. PICK i, j \in 1..Len(t) : i < j /\ t[i] = "canceled" /\ t[j] \in Deltas
    BY <1>4 DEF DeltaAfter
  <2>2. i \in 1..Len(s) /\ s[i] = "canceled"
    BY <1>1, <1>2, <2>1
  <2>3. CASE j \in 1..Len(s)
    BY <1>1, <2>1, <2>2, <2>3 DEF DeltaAfter
  <2>4. CASE j = Len(s) + 1
    BY <1>1, <2>1, <2>2, <2>4 DEF Occurs
  <2> QED BY <1>3, <2>3, <2>4
<1>5. ASSUME TwoDeltasAfter(t) PROVE TwoDeltasAfter(s) \/ (y \in Deltas /\ DeltaAfter(s))
  <2>1. PICK i, j, k \in 1..Len(t) : /\ i < j /\ j < k
                                     /\ t[i] = "canceled" /\ t[j] \in Deltas /\ t[k] \in Deltas
    BY <1>5 DEF TwoDeltasAfter
  <2>2. i \in 1..Len(s) /\ j \in 1..Len(s) /\ s[i] = "canceled" /\ s[j] \in Deltas
    BY <1>1, <1>2, <2>1
  <2>3. CASE k \in 1..Len(s)
    BY <1>1, <2>1, <2>2, <2>3 DEF TwoDeltasAfter
  <2>4. CASE k = Len(s) + 1
    BY <1>1, <2>1, <2>2, <2>4 DEF DeltaAfter
  <2> QED BY <1>3, <2>3, <2>4
<1> QED BY <1>4, <1>5 DEF t

\* An entry that announces nothing leaves the announcements as they are; one
\* that does is new, and the last.
LEMMA EndsAppend ==
    ASSUME NEW s \in Seq(EventTypes), NEW y \in EventTypes
    PROVE  /\ y \notin TerminalEvents => Ends(Append(s, y)) = Ends(s)
           /\ y \in TerminalEvents =>
                 Ends(Append(s, y)) = Ends(s) \cup {[position |-> Len(s) + 1, type |-> y]}
           /\ \A e \in Ends(s) : e.position < Len(s) + 1 /\ Occurs(s, e.type)
<1> DEFINE t == Append(s, y)
           Old == {j \in 1..Len(s) : s[j] \in TerminalEvents}
           New == {j \in 1..Len(t) : t[j] \in TerminalEvents}
<1>1. /\ Len(s) \in Nat /\ Len(t) = Len(s) + 1
      /\ \A i \in 1..Len(s) : t[i] = s[i]
      /\ t[Len(s) + 1] = y
  BY AppendEntries
<1> HIDE DEF t
<1>2. 1..Len(t) = 1..Len(s) \cup {Len(s) + 1}
  BY <1>1
<1>3. y \notin TerminalEvents => New = Old
  BY <1>1, <1>2
<1>4. y \in TerminalEvents => New = Old \cup {Len(s) + 1}
  BY <1>1, <1>2
<1>5. \A i \in Old : [position |-> i, type |-> t[i]] = [position |-> i, type |-> s[i]]
  BY <1>1
<1>6. Ends(s) = {[position |-> i, type |-> s[i]] : i \in Old}
      /\ Ends(t) = {[position |-> i, type |-> t[i]] : i \in New}
  BY DEF Ends
<1>7. y \notin TerminalEvents => Ends(t) = Ends(s)
  BY <1>3, <1>5, <1>6
<1>8. y \in TerminalEvents =>
        Ends(t) = Ends(s) \cup {[position |-> Len(s) + 1, type |-> y]}
  BY <1>1, <1>4, <1>5, <1>6
<1>9. ASSUME NEW e \in Ends(s) PROVE e.position < Len(s) + 1 /\ Occurs(s, e.type)
  <2>1. PICK i \in Old : e = [position |-> i, type |-> s[i]]
    BY <1>6
  <2>2. e.position = i /\ e.type = s[i] /\ i \in 1..Len(s)
    BY <2>1
  <2> QED BY <1>1, <2>2 DEF Occurs
<1> QED BY <1>7, <1>8, <1>9 DEF t

-----------------------------------------------------------------------------
(* What the others may do to a run.                                        *)

\* Short of a crash and of the end of the conversation: mark it canceled,
\* claim it while it is active, tell so in its log, and edit its answer away.
Outside(x) ==
    /\ pc'[x] = pc[x] /\ UNCHANGED crashes /\ (faults' = 0 => faults = 0)
    /\ row[x].cancelRequested => row'[x].cancelRequested
    /\ \/ row'[x].status = row[x].status
       \/ /\ row[x].status \in ActiveStatus /\ row'[x].cancelRequested
          /\ row'[x].status \in {"canceling", "canceled"}
    /\ events'[x] \in {events[x], Append(events[x], "canceled")}
    /\ Stored(Message(x, "answer"))' => Stored(Message(x, "answer"))

\* A fault is counted.
LEMMA FaultsCounted ==
    ASSUME TypeOK
    PROVE  /\ DbFault => faults' # 0
           /\ DbFault \/ UNCHANGED faults => (faults' = 0 => faults = 0)
BY ChatRunsAssumption DEF TypeOK, DbFault

\* An actor that moves leaves the others where they are.
LEMMA OthersStay ==
    ASSUME TypeOK, NEW a \in Actors, NEW l, Goto(a, l)
    PROVE  pc'[a] = l /\ \A b \in Actors : b # a => pc'[b] = pc[b]
BY DEF TypeOK, ControlOK, Goto

\* A message that is not this one, or is not stored, leaves it unstored.
LEMMA OtherMessage ==
    ASSUME TypeOK, NEW r \in Runs, NEW kind \in Kinds, NEW x \in Runs, NEW other \in Kinds,
           x # r \/ kind # other,
           CreateMessage(Message(r, kind)) \/ CreateMessageFails
    PROVE  Stored(Message(x, other))' => Stored(Message(x, other))
<1>1. messages \in Seq(Messages) /\ Message(r, kind) \in Messages
  BY DEF TypeOK, Message, Messages
<1>2. Message(r, kind) # Message(x, other)
  BY MessagesAreDistinct
<1>3. messages' = messages \/ messages' = Append(messages, Message(r, kind))
  BY DEF CreateMessage, CreateMessageFails
<1>4. Occurs(Append(messages, Message(r, kind)), Message(x, other)) =>
         Occurs(messages, Message(x, other))
  BY <1>1, <1>2, OccursAppend
<1> QED BY <1>3, <1>4 DEF Stored

\* A step that does none of these things.
LEMMA OutsideQuiet ==
    ASSUME NEW x \in Runs, pc'[x] = pc[x], UNCHANGED crashes,
           faults' = 0 => faults = 0,
           row'[x] = row[x] \/ /\ row'[x].status = row[x].status
                               /\ row'[x].cancelRequested = row[x].cancelRequested,
           events'[x] = events[x],
           Stored(Message(x, "answer"))' => Stored(Message(x, "answer"))
    PROVE  Outside(x)
BY DEF Outside

\* Another run's handler.
LEMMA HandlerOutside ==
    ASSUME TypeOK, NEW r \in Runs, NEW x \in Runs \ {r},
           PostMessage(r) \/ EditMessage(r) \/ InsertRun(r) \/ Announce(r) \/ Launch(r)
    PROVE  Outside(x)
<1> USE DEF requestVars
<1>1. pc'[x] = pc[x] /\ UNCHANGED crashes
  <2>1. PICK l : Goto(r, l)
    BY DEF PostMessage, EditMessage, InsertRun, Announce, Launch
  <2> QED BY <2>1, OthersStay DEF PostMessage, EditMessage, InsertRun, Announce, Launch, Actors
<1>2. faults' = 0 => faults = 0
  BY FaultsCounted DEF PostMessage, CreateMessage, EditMessage, InsertRun, Announce,
                       AppendEvent, Launch
<1>3. row'[x] = row[x] \/ /\ row'[x].status = row[x].status
                          /\ row'[x].cancelRequested = row[x].cancelRequested
  <2>1. CASE EditMessage(r)
    BY <2>1 DEF EditMessage, TypeOK, Rows
  <2>2. CASE InsertRun(r)
    BY <2>2 DEF InsertRun, TypeOK
  <2> QED BY <2>1, <2>2 DEF PostMessage, Announce, Launch
<1>4. events'[x] = events[x]
  BY DEF PostMessage, EditMessage, InsertRun, Announce, Launch, AppendEvent, TypeOK
<1>5. Stored(Message(x, "answer"))' => Stored(Message(x, "answer"))
  <2>1. CASE PostMessage(r)
    BY <2>1, OtherMessage DEF PostMessage, Kinds
  <2>2. CASE EditMessage(r)
    <3>1. PICK i \in 1..Len(messages) : messages' = SubSeq(messages, 1, i)
      BY <2>2 DEF EditMessage
    <3>2. messages \in Seq(Messages)
      BY DEF TypeOK
    <3> QED BY <3>1, <3>2, OccursPrefix DEF Stored
  <2>3. CASE UNCHANGED messages
    BY <2>3 DEF Stored
  <2> QED BY <2>1, <2>2, <2>3 DEF InsertRun, Announce, Launch
<1> QED BY <1>1, <1>2, <1>3, <1>4, <1>5, OutsideQuiet

\* Another run's goroutine.
LEMMA GoroutineOutside ==
    ASSUME TypeOK, NEW r \in Runs, NEW x \in Runs \ {r},
           \/ AcceptDelta(r) \/ SearchSources(r) \/ Upstream(r)
           \/ PlanImage(r) \/ ImagePending(r) \/ AppendDelta(r)
           \/ CheckReturned(r) \/ NextChunk(r) \/ LastChunk(r) \/ Pause(r)
           \/ FinalCheck(r) \/ CheckFailed(r) \/ SaveAnswer(r)
           \/ SaveFailure(r) \/ CompleteRun(r) \/ FailRun(r)
           \/ PublishOutcome(r)
    PROVE  Outside(x)
<1> USE DEF goroutineFrame, CheckThenGo, NoStopSeen
<1>1. pc'[x] = pc[x] /\ UNCHANGED crashes
  <2>1. PICK l : Goto(r, l)
    BY DEF AcceptDelta, SearchSources, Upstream, GenerateSucceeds, GenerateFails,
           PlanImage, ImagePending, AppendDelta, CheckReturned, NextChunk,
           LastChunk, Pause, FinalCheck, CheckFailed, SaveAnswer, SaveFailure,
           CompleteRun, FailRun, PublishOutcome
  <2>2. UNCHANGED crashes
    BY DEF AcceptDelta, SearchSources, Upstream, GenerateSucceeds, GenerateFails,
           PlanImage, ImagePending, AppendDelta, CheckReturned, NextChunk,
           LastChunk, Pause, FinalCheck, CheckFailed, SaveAnswer, SaveFailure,
           CompleteRun, FailRun, PublishOutcome
  <2> QED BY <2>1, <2>2, OthersStay DEF Actors
<1>2. faults' = 0 => faults = 0
  BY FaultsCounted
     DEF AcceptDelta, SearchSources, Upstream, GenerateSucceeds, GenerateFails,
         PlanImage, ImagePending, AppendDelta, CheckReturned, NextChunk,
         LastChunk, Pause, FinalCheck, CheckFailed, SaveAnswer, SaveFailure,
         CompleteRun, FailRun, PublishOutcome, AppendEvent, UpdateRow,
         CreateMessage, CreateMessageFails
<1>3. row'[x] = row[x]
  BY DEF AcceptDelta, SearchSources, Upstream, GenerateSucceeds, GenerateFails,
         PlanImage, ImagePending, AppendDelta, CheckReturned, NextChunk,
         LastChunk, Pause, FinalCheck, CheckFailed, SaveAnswer, SaveFailure,
         CompleteRun, FailRun, PublishOutcome, UpdateRow, TypeOK
<1>4. events'[x] = events[x]
  BY DEF AcceptDelta, SearchSources, Upstream, GenerateSucceeds, GenerateFails,
         PlanImage, ImagePending, AppendDelta, CheckReturned, NextChunk,
         LastChunk, Pause, FinalCheck, CheckFailed, SaveAnswer, SaveFailure,
         CompleteRun, FailRun, PublishOutcome, AppendEvent, TypeOK
<1>5. Stored(Message(x, "answer"))' => Stored(Message(x, "answer"))
  <2>1. CASE SaveAnswer(r) \/ SaveFailure(r)
    BY <2>1, OtherMessage DEF SaveAnswer, SaveFailure, Kinds
  <2>2. CASE UNCHANGED messages
    BY <2>2 DEF Stored
  <2> QED
    BY <2>1, <2>2
       DEF AcceptDelta, SearchSources, Upstream, GenerateSucceeds, GenerateFails,
           PlanImage, ImagePending, AppendDelta, CheckReturned, NextChunk,
           LastChunk, Pause, FinalCheck, CheckFailed, CompleteRun, FailRun,
           PublishOutcome
<1> QED BY <1>1, <1>2, <1>3, <1>4, <1>5, OutsideQuiet

\* Whoever finishes it.
LEMMA FinishOutside ==
    ASSUME TypeOK, NEW a \in Actors, NEW x \in Runs \ {a}, Finish(a)
    PROVE  Outside(x)
<1>0. Of(a) \in Runs /\ x \in Actors
  BY OfIsRun DEF TypeOK, Finish, Claim, StopMessage, AttachStopMessage, PublishCanceled, Actors
<1>1. pc'[x] = pc[x] /\ UNCHANGED crashes
  <2>1. PICK l : Goto(a, l)
    BY DEF Finish, Claim, StopMessage, AttachStopMessage, PublishCanceled, Return
  <2> QED BY <1>0, <2>1, OthersStay
          DEF Finish, Claim, StopMessage, AttachStopMessage, PublishCanceled
<1>2. faults' = 0 => faults = 0
  BY FaultsCounted DEF Finish, Claim, StopMessage, AttachStopMessage, PublishCanceled,
                       CreateMessage, CreateMessageFails, UpdateRow, AppendEvent
<1>3. row \in [Runs -> Rows] /\ row[x] \in Rows
  BY DEF TypeOK
<1>4. CASE Claim(a)
  <2>1. UNCHANGED <<messages, events>>
    BY <1>4 DEF Claim
  <2>2. CASE row' = row
    BY <1>1, <1>2, <2>1, <2>2, OutsideQuiet DEF Stored
  <2>3. CASE MayCancel(row[Of(a)]) /\ row' = [row EXCEPT ![Of(a)] = Canceled(@)]
    <3>1. CASE Of(a) = x
      <4>1. row[x].status \in ActiveStatus
        BY <1>3, <2>3, <3>1 DEF MayCancel, Rows, Statuses, ActiveStatus, TerminalStatus
      <4>2. row'[x] = Canceled(row[x])
        BY <1>3, <2>3, <3>1
      <4>3. row'[x].status = "canceled" /\ row'[x].cancelRequested
        BY <1>3, <4>2 DEF Canceled, Rows
      <4> QED BY <1>1, <1>2, <2>1, <4>1, <4>3 DEF Outside, Stored
    <3>2. CASE Of(a) # x
      <4>1. row'[x] = row[x]
        BY <1>3, <2>3, <3>2
      <4> QED BY <1>1, <1>2, <2>1, <4>1, OutsideQuiet DEF Stored
    <3> QED BY <3>1, <3>2
  <2> QED BY <1>4, <2>2, <2>3 DEF Claim
<1>5. CASE StopMessage(a)
  <2>1. UNCHANGED <<row, events>>
    BY <1>5 DEF StopMessage
  <2>2. Stored(Message(x, "answer"))' => Stored(Message(x, "answer"))
    BY <1>0, <1>5, OtherMessage DEF StopMessage, Kinds
  <2> QED BY <1>1, <1>2, <2>1, <2>2, OutsideQuiet
<1>6. CASE AttachStopMessage(a)
  <2>1. UNCHANGED <<messages, events>>
    BY <1>6 DEF AttachStopMessage
  <2>2. row' = row \/ row' = [row EXCEPT ![Of(a)] = [row[Of(a)] EXCEPT !.assistant = "stopped"]]
    BY <1>6 DEF AttachStopMessage, UpdateRow
  <2>3. row'[x].status = row[x].status /\ row'[x].cancelRequested = row[x].cancelRequested
    BY <1>0, <1>3, <2>2 DEF Rows
  <2> QED BY <1>1, <1>2, <2>1, <2>3, OutsideQuiet DEF Stored
<1>7. CASE PublishCanceled(a)
  <2>1. UNCHANGED <<messages, row>>
    BY <1>7 DEF PublishCanceled
  <2>2. events'[x] \in {events[x], Append(events[x], "canceled")}
    BY <1>7 DEF PublishCanceled, AppendEvent, TypeOK
  <2> QED BY <1>1, <1>2, <2>1, <2>2 DEF Outside, Stored
<1> QED BY <1>4, <1>5, <1>6, <1>7 DEF Finish

\* A request that marks it canceled, reads it or signals its goroutine.
LEMMA RequestOutside ==
    ASSUME TypeOK, NEW q \in Requests, NEW x \in Runs,
           RequestCancel(q) \/ ListActive(q) \/ ReadRun(q) \/ SignalRun(q)
    PROVE  Outside(x)
<1> USE DEF requestFrame
<1>0. x # q /\ q \in Actors /\ x \in Actors
  BY ChatRunsAssumption DEF Actors
<1>1. pc'[x] = pc[x] /\ UNCHANGED <<crashes, messages, events>>
  <2>1. PICK l : Goto(q, l)
    BY DEF RequestCancel, ListActive, ReadRun, SignalRun
  <2> QED BY <1>0, <2>1, OthersStay DEF RequestCancel, ListActive, ReadRun, SignalRun
<1>2. faults' = 0 => faults = 0
  BY FaultsCounted DEF RequestCancel, ListActive, ReadRun, SignalRun
<1>3. CASE RequestCancel(q)
  <2>1. PICK r \in Runs : Exists(r) /\ row' = [row EXCEPT ![r] = MarkCancelRequested(@)]
    BY <1>3 DEF RequestCancel
  <2>2. row \in [Runs -> Rows] /\ row[x] \in Rows
    BY DEF TypeOK
  <2>3. CASE r = x
    <3>1. row'[x] = MarkCancelRequested(row[x]) /\ row[x].status # "absent"
      BY <2>1, <2>2, <2>3 DEF Exists
    <3>2. /\ row'[x].cancelRequested
          /\ row'[x].status = IF row[x].status \in TerminalStatus THEN row[x].status
                                                                  ELSE "canceling"
      BY <2>2, <3>1 DEF MarkCancelRequested, Rows
    <3>3. row[x].status \notin TerminalStatus => row[x].status \in ActiveStatus
      BY <2>2, <3>1 DEF Rows, Statuses
    <3> QED BY <1>1, <1>2, <3>2, <3>3 DEF Outside, Stored
  <2>4. CASE r # x
    <3>1. row'[x] = row[x]
      BY <2>1, <2>2, <2>4
    <3> QED BY <1>1, <1>2, <3>1, OutsideQuiet DEF Stored
  <2> QED BY <2>3, <2>4
<1>4. CASE ListActive(q) \/ ReadRun(q) \/ SignalRun(q)
  <2>1. UNCHANGED row
    BY <1>4 DEF ListActive, ReadRun, SignalRun
  <2> QED BY <1>1, <1>2, <2>1, OutsideQuiet DEF Stored
<1> QED BY <1>3, <1>4

\* Any step is the run's own, an outside step, or hits all runs alike.
LEMMA OwnOrOutside ==
    ASSUME TypeOK, Next, NEW x \in Runs
    PROVE  RunStep(x) \/ Outside(x) \/ DeleteConversation \/ Crash
<1>1. ASSUME NEW r \in Runs, RunStep(r) PROVE RunStep(x) \/ Outside(x)
  BY <1>1, HandlerOutside, GoroutineOutside, FinishOutside DEF RunStep, Work, Actors
<1>2. ASSUME NEW q \in Requests, RequestStep(q) PROVE Outside(x)
  <2>1. x # q
    BY ChatRunsAssumption
  <2> QED BY <1>2, <2>1, RequestOutside, FinishOutside DEF RequestStep, Serve, Actors
<1>3. CASE Quiescent
  BY <1>3, OutsideQuiet DEF Quiescent, vars, Stored
<1> QED BY <1>1, <1>2, <1>3 DEF Next

-----------------------------------------------------------------------------
(* The outcome of a run, in its row, in its log and at its goroutine.      *)

\* The goroutine ends the run itself only on its way out, and then announces
\* it as its last step; unless a statement failed, it finds at "errorEvent"
\* that the run is not active any more, and at "doneEvent" that it is not or
\* that the answer is gone.
Settled(r) ==
    /\ row[r].status = "completed" => pc[r] \in {"doneEvent", "ended"}
    /\ row[r].status = "failed" => pc[r] \in {"errorEvent", "ended"}
    /\ row[r].status = "canceled" => row[r].cancelRequested
    /\ Published(r, "done") \/ Published(r, "error") => pc[r] = "ended"
    /\ faults = 0 =>
          /\ pc[r] = "doneEvent" /\ row[r].status \in ActiveStatus
                 => ~Stored(Message(r, "answer"))
          /\ pc[r] = "errorEvent" => row[r].status \notin ActiveStatus

\* What OutcomeMatchesRow says of one run.
Matches(r) ==
    /\ ~row[r].cancelRequested /\ faults = 0 =>
          /\ Published(r, "error") => row[r].status = "failed"
          /\ Published(r, "done") => \/ row[r].status = "completed"
                                     \/ ~Stored(Message(r, "answer"))
    /\ pc[r] = "ended" /\ row[r].status \in ActiveStatus /\ crashes = 0 /\ faults = 0 =>
          Published(r, "done") /\ ~Stored(Message(r, "answer"))

\* While no check has failed, what is about to be appended was allowed before
\* "canceled" was in the log, or is the first piece after it.
DeltaInv(r) ==
    faults = 0 =>
        /\ ~TwoDeltasAfter(events[r])
        /\ pc[r] \in {"delta", "chunkEvent"} => ~DeltaAfter(events[r])

OutcomeInv == \A r \in Runs : Settled(r) /\ Matches(r) /\ DeltaInv(r)

\* An event of another type is or is not in the log as it was before.
LEMMA PublishedAppend ==
    ASSUME TypeOK, NEW x \in Runs, NEW y \in EventTypes, NEW type,
           events'[x] = events[x] \/ events'[x] = Append(events[x], y)
    PROVE  Published(x, type)' => Published(x, type) \/ y = type
<1>1. events[x] \in Seq(EventTypes)
  BY DEF TypeOK
<1> QED BY <1>1, OccursAppend DEF Published

\* What is in the log stays there when it grows.
LEMMA PublishedStays ==
    ASSUME TypeOK, NEW x \in Runs, NEW y \in EventTypes, NEW type,
           events'[x] = events[x] \/ events'[x] = Append(events[x], y)
    PROVE  Published(x, type) => Published(x, type)'
<1>1. events[x] \in Seq(EventTypes)
  BY DEF TypeOK
<1>2. Occurs(events[x], type) => Occurs(Append(events[x], y), type)
  BY <1>1, OccursAppend
<1> QED BY <1>2 DEF Published

\* What the others do to a run does not disturb its outcome.
LEMMA OutsideOutcome ==
    ASSUME TypeOK, NEW x \in Runs, Outside(x), Settled(x), Matches(x), DeltaInv(x)
    PROVE  Settled(x)' /\ Matches(x)' /\ DeltaInv(x)'
<1>1. /\ pc'[x] = pc[x] /\ UNCHANGED crashes /\ (faults' = 0 => faults = 0)
      /\ row[x].cancelRequested => row'[x].cancelRequested
      /\ \/ row'[x].status = row[x].status
         \/ /\ row[x].status \in ActiveStatus /\ row'[x].cancelRequested
            /\ row'[x].status \in {"canceling", "canceled"}
      /\ events'[x] = events[x] \/ events'[x] = Append(events[x], "canceled")
      /\ Stored(Message(x, "answer"))' => Stored(Message(x, "answer"))
  BY DEF Outside
<1>2. "canceled" \in EventTypes /\ events[x] \in Seq(EventTypes)
  BY DEF EventTypes, TerminalEvents, TypeOK
<1>3. /\ Published(x, "done")' <=> Published(x, "done")
      /\ Published(x, "error")' <=> Published(x, "error")
  <2>1. /\ Published(x, "done")' => Published(x, "done")
        /\ Published(x, "error")' => Published(x, "error")
    BY <1>1, <1>2, PublishedAppend
  <2>2. /\ Published(x, "done") => Published(x, "done")'
        /\ Published(x, "error") => Published(x, "error")'
    BY <1>1, <1>2, PublishedStays
  <2> QED BY <2>1, <2>2
<1>4. Settled(x)'
  BY <1>1, <1>3 DEF Settled, ActiveStatus
<1>5. Matches(x)'
  BY <1>1, <1>3 DEF Matches, ActiveStatus
<1>6. DeltaInv(x)'
  <2>1. /\ DeltaAfter(events'[x]) => DeltaAfter(events[x])
        /\ TwoDeltasAfter(events'[x]) => TwoDeltasAfter(events[x])
    BY <1>1, <1>2, DeltaAppend DEF Deltas
  <2> QED BY <1>1, <2>1 DEF DeltaInv
<1> QED BY <1>4, <1>5, <1>6

\* Once "canceled" is in the log, a check that does not fail sees it.
LEMMA CheckSeesStop ==
    ASSUME TypeOK, ClaimInv, NEW x \in Runs, Settled(x), NoStopSeen(x), faults' = 0
    PROVE  ~Published(x, "canceled") /\ ~DeltaAfter(events[x])
<1>1. ~row[x].cancelRequested
  BY FaultsCounted DEF NoStopSeen, StopRequested
<1>2. row[x].status # "canceled"
  BY <1>1 DEF Settled
<1>3. ~Published(x, "canceled")
  BY <1>2 DEF ClaimInv, StopNoticeMeansCanceled
<1> QED BY <1>3 DEF Published, Occurs, DeltaAfter

Leaving == {"doneEvent", "errorEvent", "ended"}

\* A step of the goroutine that is not on its way out, changes no status,
\* and appends nothing that ends the run.
LEMMA OwnQuiet ==
    ASSUME TypeOK, NEW x \in Runs, Settled(x), Matches(x),
           pc[x] \notin Leaving, pc'[x] \notin Leaving, UNCHANGED crashes,
           faults' = 0 => faults = 0,
           row'[x].status = row[x].status \/ row'[x].status \in ActiveStatus,
           row'[x].cancelRequested = row[x].cancelRequested,
           NEW y \in EventTypes \ {"done", "error"},
           events'[x] = events[x] \/ events'[x] = Append(events[x], y)
    PROVE  Settled(x)' /\ Matches(x)'
<1>1. ~Published(x, "done")' /\ ~Published(x, "error")'
  BY PublishedAppend DEF Settled, Leaving
<1>2. Settled(x)'
  BY <1>1 DEF Settled, Leaving, ActiveStatus
<1>3. Matches(x)'
  BY <1>1 DEF Matches, Leaving
<1> QED BY <1>2, <1>3

\* A step of the goroutine that leaves the log alone and is not about to
\* append output.
LEMMA DeltaQuiet ==
    ASSUME NEW x \in Runs, DeltaInv(x), events'[x] = events[x],
           faults' = 0 => faults = 0,
           pc'[x] \in {"delta", "chunkEvent"} =>
               pc[x] = pc'[x] \/ (faults' = 0 => ~DeltaAfter(events[x]))
    PROVE  DeltaInv(x)'
BY DEF DeltaInv

\* The handler.
LEMMA HandlerOutcome ==
    ASSUME TypeOK, ClaimInv, NEW x \in Runs, Settled(x), Matches(x), DeltaInv(x),
           PostMessage(x) \/ EditMessage(x) \/ InsertRun(x) \/ Announce(x) \/ Launch(x)
    PROVE  Settled(x)' /\ Matches(x)' /\ DeltaInv(x)'
<1>0. x \in Actors /\ row \in [Runs -> Rows]
  BY DEF Actors, TypeOK
<1>1. CASE PostMessage(x) \/ EditMessage(x)
  <2>1. pc[x] = "idle" /\ pc'[x] = "insert" /\ UNCHANGED <<events, crashes, faults>>
    BY <1>0, <1>1, OthersStay DEF PostMessage, CreateMessage, EditMessage
  <2>2. row'[x].status = row[x].status /\ row'[x].cancelRequested = row[x].cancelRequested
    BY <1>0, <1>1 DEF PostMessage, EditMessage, Rows
  <2>3. Settled(x)' /\ Matches(x)'
    BY <2>1, <2>2 DEF Settled, Matches, Published
  <2>4. DeltaInv(x)'
    BY <2>1, DeltaQuiet
  <2> QED BY <2>3, <2>4
<1>2. CASE InsertRun(x)
  <2>1. pc[x] = "insert" /\ row[x].status = "absent" /\ UNCHANGED <<events, crashes>>
    BY <1>2 DEF InsertRun, ClaimInv, NotYetInserted
  <2>2. faults' = 0 => faults = 0
    BY <1>2, FaultsCounted DEF InsertRun
  <2>3. \/ pc'[x] = "run_started" /\ row'[x] = RunningRow
        \/ pc'[x] = "ended" /\ row'[x] = row[x]
    BY <1>0, <1>2, OthersStay DEF InsertRun
  <2>4. ~Published(x, "done")' /\ ~Published(x, "error")'
    BY <2>1 DEF Settled, Published
  <2>5. Settled(x)' /\ Matches(x)'
    BY <2>1, <2>2, <2>3, <2>4
       DEF Settled, Matches, RunningRow, AbsentRow, ActiveStatus
  <2>6. DeltaInv(x)'
    BY <2>1, <2>2, <2>3, DeltaQuiet
  <2> QED BY <2>5, <2>6
<1>3. CASE Announce(x) \/ Launch(x)
  <2>1. /\ pc[x] \in {"run_started", "user", "image_announce", "launch"}
        /\ pc'[x] \in {"user", "image_announce", "launch", "plan", "generate"}
        /\ UNCHANGED <<row, crashes>>
    BY <1>0, <1>3, OthersStay DEF Announce, Launch
  <2>2. faults' = 0 => faults = 0
    BY <1>3, FaultsCounted DEF Announce, Launch, AppendEvent
  <2>3. PICK y \in {"run_started", "user", "image_pending"} :
            events'[x] = events[x] \/ events'[x] = Append(events[x], y)
    BY <1>3 DEF Announce, Launch, AppendEvent, TypeOK
  <2>4. y \in EventTypes \ {"done", "error"} /\ y \notin Deltas
    BY <2>3 DEF EventTypes, Deltas
  <2>5. Settled(x)' /\ Matches(x)'
    BY <2>1, <2>2, <2>3, <2>4, OwnQuiet DEF Leaving
  <2>6. events[x] \in Seq(EventTypes)
    BY DEF TypeOK
  <2>7. TwoDeltasAfter(events'[x]) => TwoDeltasAfter(events[x])
    BY <2>3, <2>4, <2>6, DeltaAppend
  <2> QED BY <2>1, <2>2, <2>5, <2>7 DEF DeltaInv
<1> QED BY <1>1, <1>2, <1>3

\* The goroutine, before it saves anything.
LEMMA GenerateOutcome ==
    ASSUME TypeOK, ClaimInv, NEW x \in Runs, Settled(x), Matches(x), DeltaInv(x),
           \/ AcceptDelta(x) \/ SearchSources(x) \/ Upstream(x)
           \/ PlanImage(x) \/ ImagePending(x) \/ AppendDelta(x)
           \/ CheckReturned(x) \/ NextChunk(x) \/ LastChunk(x) \/ Pause(x)
           \/ FinalCheck(x) \/ CheckFailed(x) \/ SaveAnswer(x)
           \/ SaveFailure(x)
    PROVE  Settled(x)' /\ Matches(x)' /\ DeltaInv(x)'
<1> USE DEF goroutineFrame
<1>0. x \in Actors /\ events[x] \in Seq(EventTypes)
  BY DEF Actors, TypeOK
<1>1. CASE SearchSources(x) \/ ImagePending(x) \/ AppendDelta(x)
  <2>1. PICK y \in {"search_sources", "image_pending", "assistant_delta"} :
            /\ AppendEvent(x, y)
            /\ y \in Deltas => pc[x] \in {"delta", "chunkEvent"}
    BY <1>1 DEF SearchSources, ImagePending, AppendDelta, Deltas
  <2>2. /\ pc[x] \in {"generate", "image_pending", "delta", "chunkEvent"}
        /\ pc'[x] \in {"sourced", "generate", "pause"}
        /\ UNCHANGED <<row, crashes>>
    BY <1>0, <1>1, OthersStay DEF SearchSources, ImagePending, AppendDelta
  <2>3. faults' = 0 => faults = 0
    BY <2>1, FaultsCounted DEF AppendEvent
  <2>4. events'[x] = events[x] \/ events'[x] = Append(events[x], y)
    BY <2>1 DEF AppendEvent, TypeOK
  <2>5. y \in EventTypes \ {"done", "error"}
    BY <2>1 DEF EventTypes, Deltas
  <2>6. Settled(x)' /\ Matches(x)'
    BY <2>2, <2>3, <2>4, <2>5, OwnQuiet DEF Leaving
  <2>7. TwoDeltasAfter(events'[x]) =>
            TwoDeltasAfter(events[x]) \/ (y \in Deltas /\ DeltaAfter(events[x]))
    BY <1>0, <2>4, <2>5, DeltaAppend
  <2>8. DeltaInv(x)'
    BY <2>1, <2>2, <2>3, <2>7 DEF DeltaInv
  <2> QED BY <2>6, <2>8
<1>2. CASE SaveAnswer(x) \/ SaveFailure(x)
  <2>1. /\ pc[x] \in {"save", "saveFailure"} /\ pc'[x] \in {"complete", "fail"}
        /\ UNCHANGED <<row, events, crashes>>
    BY <1>0, <1>2, OthersStay DEF SaveAnswer, SaveFailure
  <2>2. faults' = 0 => faults = 0
    BY <1>2, FaultsCounted DEF SaveAnswer, SaveFailure, CreateMessage, CreateMessageFails
  <2>3. "user" \in EventTypes \ {"done", "error"}
    BY DEF EventTypes
  <2>4. Settled(x)' /\ Matches(x)'
    BY <2>1, <2>2, <2>3, OwnQuiet DEF Leaving
  <2> QED BY <2>1, <2>2, <2>4, DeltaQuiet
<1>3. CASE \/ AcceptDelta(x) \/ Upstream(x) \/ PlanImage(x) \/ CheckReturned(x)
           \/ NextChunk(x) \/ LastChunk(x) \/ Pause(x) \/ FinalCheck(x) \/ CheckFailed(x)
  <2>1. PICK l \in {"delta", "returned", "chunk", "finalCheck", "failedCheck", "claim",
                    "image_pending", "chunkEvent", "save", "saveFailure"} :
            /\ Goto(x, l)
            /\ l \in {"delta", "chunkEvent"} => NoStopSeen(x)
            /\ UNCHANGED <<row, events, crashes>>
            /\ UNCHANGED faults \/ NoStopSeen(x)
    BY <1>3 DEF AcceptDelta, Upstream, GenerateSucceeds, GenerateFails, PlanImage,
                CheckReturned, NextChunk, LastChunk, Pause, FinalCheck, CheckFailed,
                CheckThenGo
  <2>2. pc'[x] = l
    BY <1>0, <2>1, OthersStay
  <2>3. pc[x] \in {"generate", "sourced", "plan", "returned", "chunk", "pause",
                   "finalCheck", "failedCheck"}
    BY <1>3 DEF AcceptDelta, Upstream, GenerateSucceeds, GenerateFails, PlanImage,
                CheckReturned, NextChunk, LastChunk, Pause, FinalCheck, CheckFailed,
                CheckThenGo
  <2>4. faults' = 0 => faults = 0
    BY <2>1, FaultsCounted DEF NoStopSeen
  <2>5. "user" \in EventTypes \ {"done", "error"}
    BY DEF EventTypes
  <2>6. Settled(x)' /\ Matches(x)'
    BY <2>1, <2>2, <2>3, <2>4, <2>5, OwnQuiet DEF Leaving
  <2>7. DeltaInv(x)'
    BY <2>1, <2>2, <2>4, CheckSeesStop, DeltaQuiet
  <2> QED BY <2>6, <2>7
<1> QED BY <1>1, <1>2, <1>3

\* The goroutine on its way out, and its outcome.
LEMMA EndOutcome ==
    ASSUME TypeOK, ClaimInv, NEW x \in Runs, Settled(x), Matches(x), DeltaInv(x),
           CompleteRun(x) \/ FailRun(x) \/ PublishOutcome(x)
    PROVE  Settled(x)' /\ Matches(x)' /\ DeltaInv(x)'
<1> USE DEF goroutineFrame
<1>0. /\ x \in Actors /\ events[x] \in Seq(EventTypes)
      /\ row \in [Runs -> Rows] /\ row[x] \in Rows
      /\ row[x].status \in {"absent"} \cup ActiveStatus \cup TerminalStatus
  BY DEF Actors, TypeOK, Rows, Statuses
<1>1. CASE CompleteRun(x)
  <2>1. pc[x] = "complete" /\ pc'[x] = "doneEvent" /\ UNCHANGED <<events, messages, crashes>>
    BY <1>0, <1>1, OthersStay DEF CompleteRun
  <2>2. /\ ~Published(x, "done")' /\ ~Published(x, "error")'
        /\ Stored(Message(x, "answer"))' <=> Stored(Message(x, "answer"))
    BY <2>1 DEF Settled, Published, Stored
  <2>3. faults' = 0 => faults = 0
    BY <1>1, FaultsCounted DEF CompleteRun, UpdateRow
  <2>4. \/ row'[x] = Completed(row[x])
        \/ row'[x] = row[x] /\ (faults' = 0 => \/ ~MayComplete(row[x])
                                               \/ ~Stored(Message(x, "answer")))
    BY <1>0, <1>1, FaultsCounted DEF CompleteRun, UpdateRow
  <2>5. Completed(row[x]).status = "completed"
    BY <1>0 DEF Completed, Rows
  <2>6. row[x].status \notin {"completed", "failed"}
    BY <2>1 DEF Settled
  <2>7. Settled(x)'
    BY <1>0, <2>1, <2>2, <2>3, <2>4, <2>5, <2>6
       DEF Settled, MayComplete, ActiveStatus
  <2>8. Matches(x)'
    BY <2>1, <2>2 DEF Matches
  <2> QED BY <2>1, <2>3, <2>7, <2>8, DeltaQuiet
<1>2. CASE FailRun(x)
  <2>1. pc[x] = "fail" /\ pc'[x] = "errorEvent" /\ UNCHANGED <<events, messages, crashes>>
    BY <1>0, <1>2, OthersStay DEF FailRun
  <2>2. ~Published(x, "done")' /\ ~Published(x, "error")'
    BY <2>1 DEF Settled, Published
  <2>3. faults' = 0 => faults = 0
    BY <1>2, FaultsCounted DEF FailRun, UpdateRow
  <2>4. \/ row'[x] = Failed(row[x])
        \/ row'[x] = row[x] /\ (faults' = 0 => ~MayFail(row[x]))
    BY <1>0, <1>2, FaultsCounted DEF FailRun, UpdateRow
  <2>5. Failed(row[x]).status = "failed"
    BY <1>0 DEF Failed, Rows
  <2>6. row[x].status \notin {"completed", "failed"}
    BY <2>1 DEF Settled
  <2>7. Settled(x)'
    BY <1>0, <2>1, <2>2, <2>3, <2>4, <2>5, <2>6 DEF Settled, MayFail, ActiveStatus
  <2>8. Matches(x)'
    BY <2>1, <2>2 DEF Matches
  <2> QED BY <2>1, <2>3, <2>7, <2>8, DeltaQuiet
<1>3. CASE PublishOutcome(x)
  <2>1. PICK y \in {"done", "error"} :
            /\ AppendEvent(x, y)
            /\ pc[x] = IF y = "done" THEN "doneEvent" ELSE "errorEvent"
    BY <1>3 DEF PublishOutcome
  <2>2. pc'[x] = "ended" /\ UNCHANGED <<row, messages, crashes>>
    BY <1>0, <1>3, OthersStay DEF PublishOutcome
  <2>3. faults' = 0 => faults = 0
    BY <2>1, FaultsCounted DEF AppendEvent
  <2>4. y \in EventTypes /\ y \notin Deltas
    BY <2>1 DEF EventTypes, TerminalEvents, Deltas
  <2>5. events'[x] = events[x] \/ events'[x] = Append(events[x], y)
    BY <2>1 DEF AppendEvent, TypeOK
  <2>6. Published(x, "done") = FALSE /\ Published(x, "error") = FALSE
    BY <2>1 DEF Settled
  <2>7. /\ Published(x, "done")' => y = "done"
        /\ Published(x, "error")' => y = "error"
    BY <2>4, <2>5, <2>6, PublishedAppend
  <2>8. Stored(Message(x, "answer"))' <=> Stored(Message(x, "answer"))
    BY <2>2 DEF Stored
  <2>9. row[x].status # "absent" /\ faults' = 0 => Published(x, y)'
    <3>1. SUFFICES ASSUME row[x].status # "absent", faults' = 0
                   PROVE  Published(x, y)'
      OBVIOUS
    <3>2. events'[x] = Append(events[x], y)
      BY <2>1, <3>1, FaultsCounted DEF AppendEvent, Exists, TypeOK
    <3>3. Occurs(Append(events[x], y), y)
      BY <1>0, <2>4, OccursAppend
    <3> QED BY <3>2, <3>3 DEF Published
  <2>10. row[x].status = "absent" => ~Published(x, "done")' /\ ~Published(x, "error")'
    <3>1. row[x].status = "absent" => events' = events
      BY <2>1 DEF AppendEvent, Exists
    <3> QED BY <2>6, <3>1 DEF Published
  <2>11. Settled(x)'
    BY <2>1, <2>2, <2>3 DEF Settled
  <2>12. Matches(x)'
    <3>1. CASE y = "done"
      BY <1>0, <2>1, <2>2, <2>3, <2>7, <2>8, <2>9, <2>10, <3>1
         DEF Settled, Matches, ActiveStatus, TerminalStatus
    <3>2. CASE y = "error"
      BY <1>0, <2>1, <2>2, <2>3, <2>7, <2>8, <2>9, <2>10, <3>2
         DEF Settled, Matches, ActiveStatus, TerminalStatus
    <3> QED BY <2>1, <3>1, <3>2
  <2>13. TwoDeltasAfter(events'[x]) => TwoDeltasAfter(events[x])
    BY <1>0, <2>4, <2>5, DeltaAppend
  <2> QED BY <2>2, <2>3, <2>11, <2>12, <2>13 DEF DeltaInv
<1> QED BY <1>1, <1>2, <1>3

\* The goroutine finishing its own run.
LEMMA OwnFinishOutcome ==
    ASSUME TypeOK, ClaimInv, NEW x \in Runs, Settled(x), Matches(x), DeltaInv(x),
           Finish(x)
    PROVE  Settled(x)' /\ Matches(x)' /\ DeltaInv(x)'
<1>0. /\ x \in Actors /\ x \notin Requests /\ Of(x) = x /\ events[x] \in Seq(EventTypes)
      /\ row \in [Runs -> Rows] /\ row[x] \in Rows
      /\ row[x].status \in {"absent"} \cup ActiveStatus \cup TerminalStatus
  BY ChatRunsAssumption DEF Actors, TypeOK, Rows, Statuses, Of
<1>1. pc[x] \in FinishLabels /\ UNCHANGED crashes
  BY DEF Finish, Claim, StopMessage, AttachStopMessage, PublishCanceled, FinishLabels
<1>2. faults' = 0 => faults = 0
  BY FaultsCounted DEF Finish, Claim, StopMessage, AttachStopMessage, PublishCanceled,
                       CreateMessage, CreateMessageFails, UpdateRow, AppendEvent
<1>3. Return(x) => pc'[x] = "ended"
  BY <1>0, OthersStay DEF Return
<1>4. row[x].status \notin {"completed", "failed"}
      /\ ~Published(x, "done") /\ ~Published(x, "error")
  BY <1>1 DEF Settled, FinishLabels
<1>5. CASE Claim(x)
  <2>1. UNCHANGED <<events, messages>>
    BY <1>5 DEF Claim
  <2>2. CASE MayCancel(row[x]) /\ row' = [row EXCEPT ![x] = Canceled(@)] /\ Goto(x, "stopMessage")
    <3>1. row'[x].status = "canceled" /\ row'[x].cancelRequested
      BY <1>0, <2>2 DEF Canceled, Rows
    <3>2. pc'[x] = "stopMessage"
      BY <1>0, <2>2, OthersStay
    <3> QED BY <1>2, <1>4, <2>1, <3>1, <3>2, DeltaQuiet DEF Settled, Matches, Published
  <2>3. CASE Return(x) /\ row' = row /\ (~MayCancel(row[x]) \/ DbFault)
    <3>1. faults' = 0 => row[x].status \notin ActiveStatus
      BY <2>3, FaultsCounted DEF MayCancel, ActiveStatus
    <3> QED BY <1>1, <1>2, <1>3, <1>4, <2>1, <2>3, <3>1, DeltaQuiet
            DEF Settled, Matches, Published
  <2> QED BY <1>0, <1>5, <2>2, <2>3 DEF Claim
<1>6. CASE StopMessage(x) \/ AttachStopMessage(x)
  <2>1. pc'[x] \in {"attach", "canceledEvent"} /\ UNCHANGED events
    BY <1>0, <1>6, OthersStay DEF StopMessage, AttachStopMessage
  <2>2. row'[x].status = row[x].status /\ row'[x].cancelRequested = row[x].cancelRequested
    BY <1>0, <1>6 DEF StopMessage, AttachStopMessage, UpdateRow, Rows
  <2>3. "user" \in EventTypes \ {"done", "error"}
    BY DEF EventTypes
  <2>4. Settled(x)' /\ Matches(x)'
    BY <1>1, <1>2, <2>1, <2>2, <2>3, OwnQuiet DEF Leaving, FinishLabels
  <2> QED BY <1>2, <2>1, <2>4, DeltaQuiet
<1>7. CASE PublishCanceled(x)
  <2>1. pc'[x] = "ended" /\ UNCHANGED <<row, messages>>
    BY <1>3, <1>7 DEF PublishCanceled
  <2>2. "canceled" \in EventTypes /\ "canceled" \notin Deltas
    BY DEF EventTypes, TerminalEvents, Deltas
  <2>3. events'[x] = events[x] \/ events'[x] = Append(events[x], "canceled")
    BY <1>0, <1>7 DEF PublishCanceled, AppendEvent, TypeOK
  <2>4. ~Published(x, "done")' /\ ~Published(x, "error")'
    BY <1>4, <2>2, <2>3, PublishedAppend
  <2>5. Holds(x, x)
    BY <1>0, <1>7 DEF PublishCanceled, Holds
  <2>6. row[x].status \in {"absent", "canceled"}
    <3>1. CASE conversation = "deleted"
      BY <3>1 DEF ClaimInv, DeletedIsEmpty
    <3>2. CASE conversation = "open"
      BY <1>0, <2>5, <3>2 DEF ClaimInv, ClaimExclusive
    <3> QED BY <3>1, <3>2 DEF TypeOK
  <2>7. Settled(x)' /\ Matches(x)'
    BY <2>1, <2>4, <2>6 DEF Settled, Matches, ActiveStatus
  <2>8. TwoDeltasAfter(events'[x]) => TwoDeltasAfter(events[x])
    BY <1>0, <2>2, <2>3, DeltaAppend
  <2> QED BY <1>2, <2>1, <2>7, <2>8 DEF DeltaInv
<1> QED BY <1>5, <1>6, <1>7 DEF Finish

\* The end of the conversation, and a crash.
LEMMA EnvironmentOutcome ==
    ASSUME TypeOK, NEW x \in Runs, Settled(x), Matches(x), DeltaInv(x),
           DeleteConversation \/ Crash
    PROVE  Settled(x)' /\ Matches(x)' /\ DeltaInv(x)'
<1>1. CASE DeleteConversation
  <2>1. /\ row'[x] = AbsentRow /\ events'[x] = <<>> /\ messages' = <<>>
        /\ UNCHANGED <<pc, crashes, faults>>
    BY <1>1 DEF DeleteConversation
  <2>2. ~Published(x, "done")' /\ ~Published(x, "error")' /\ ~Stored(Message(x, "answer"))'
    BY <2>1, EmptyOccurs DEF Published, Stored
  <2>3. Settled(x)' /\ Matches(x)'
    BY <2>1, <2>2 DEF Settled, Matches, AbsentRow, ActiveStatus
  <2>4. ~DeltaAfter(events'[x]) /\ ~TwoDeltasAfter(events'[x])
    BY <2>1 DEF DeltaAfter, TwoDeltasAfter
  <2> QED BY <2>3, <2>4 DEF DeltaInv
<1>2. CASE Crash
  <2>1. UNCHANGED <<row, events, messages, faults>> /\ crashes' # 0
    BY <1>2 DEF Crash, TypeOK
  <2>2. pc'[x] = IF pc[x] = "idle" THEN "idle" ELSE "ended"
    BY <1>2 DEF Crash, Actors
  <2> QED BY <2>1, <2>2, DeltaQuiet DEF Settled, Matches, Published, Stored
<1> QED BY <1>1, <1>2

\* Every step keeps the outcome of every run.
LEMMA NextOutcome == TypeOK /\ ClaimInv /\ OutcomeInv /\ [Next]_vars => OutcomeInv'
<1> SUFFICES ASSUME TypeOK, ClaimInv, OutcomeInv, [Next]_vars, NEW x \in Runs
             PROVE  Settled(x)' /\ Matches(x)' /\ DeltaInv(x)'
  BY DEF OutcomeInv
<1>1. Settled(x) /\ Matches(x) /\ DeltaInv(x)
  BY DEF OutcomeInv
<1>2. CASE RunStep(x)
  BY <1>1, <1>2, HandlerOutcome, GenerateOutcome, EndOutcome, OwnFinishOutcome
     DEF RunStep, Work
<1>3. CASE Outside(x)
  BY <1>1, <1>3, OutsideOutcome
<1>4. CASE DeleteConversation \/ Crash
  BY <1>1, <1>4, EnvironmentOutcome
<1>5. CASE UNCHANGED vars
  BY <1>1, <1>5 DEF vars, Settled, Matches, DeltaInv, Published, Stored
<1> QED BY <1>2, <1>3, <1>4, <1>5, OwnOrOutside

\* No run has an outcome to begin with.
LEMMA InitOutcome == Init => OutcomeInv
<1> SUFFICES ASSUME Init, NEW x \in Runs PROVE Settled(x) /\ Matches(x) /\ DeltaInv(x)
  BY DEF OutcomeInv
<1>1. row[x].status = "absent" /\ events[x] = <<>> /\ messages = <<>>
      /\ pc[x] = "idle"
  BY DEF Init, AbsentRow, Actors
<1>2. ~Published(x, "done") /\ ~Published(x, "error")
  BY <1>1, EmptyOccurs DEF Published
<1>3. ~DeltaAfter(events[x]) /\ ~TwoDeltasAfter(events[x])
  BY <1>1 DEF DeltaAfter, TwoDeltasAfter
<1> QED BY <1>1, <1>2, <1>3 DEF Settled, Matches, DeltaInv

\* The outcome of a run, seen from its row, its log and its goroutine.
THEOREM OutcomeInvariant == Spec => []OutcomeInv
BY InitOutcome, NextOutcome, TypeCorrect, ClaimIsExclusive, PTL DEF Spec

\* publishChatRunEvent after UpdateChatRun...: the log and the row tell the
\* same outcome, and only an edit that took the answer, a crash or a failed
\* statement leaves an active row behind a goroutine that has returned.
THEOREM LogMatchesRow == Spec => []OutcomeMatchesRow
<1>1. OutcomeInv => OutcomeMatchesRow
  BY DEF OutcomeInv, Matches, OutcomeMatchesRow
<1> QED BY <1>1, OutcomeInvariant, PTL

\* onDelta, emitRunTextChunks: whatever is in flight when a run is canceled,
\* one piece of it at most follows the notice in the log.
THEOREM OutputStops == Spec => []OneDeltaAfterStop
<1>1. OutcomeInv => OneDeltaAfterStop
  BY DEF OutcomeInv, DeltaInv, OneDeltaAfterStop, TwoDeltasAfter
<1> QED BY <1>1, OutcomeInvariant, PTL

-----------------------------------------------------------------------------
(* Silence: what a run that was stopped in time never stores.              *)

\* Neither an answer nor the text of an error.
NoOutput(r) == ~Stored(Message(r, "answer")) /\ ~Stored(Message(r, "failure"))

\* Before its goroutine saves anything a run has stored no output, and a run
\* without a goroutine has no context that could be canceled.
Handling == {"idle", "insert", "run_started", "user", "image_announce", "launch"}
BeforeOutput(r) ==
    /\ pc[r] \in Handling \cup BeforeLastCheck \cup {"save", "saveFailure"} => NoOutput(r)
    /\ pc[r] \in Handling => ctx[r] = "none"
BeforeInv == \A r \in Runs : BeforeOutput(r)

\* Once it is stopped before its last check the run is silent for good: the
\* check is still to come and will see the stop, or the run is being finished.
Silenced(r) ==
    faults = 0 =>
        /\ NoOutput(r)
        /\ \/ conversation = "deleted"
           \/ pc[r] \in BeforeLastCheck /\ StopRequested(r)
           \/ pc[r] \in FinishLabels \cup {"ended"}

\* Cutting the conversation short stores nothing new.
LEMMA EditStores ==
    ASSUME TypeOK, NEW r \in Runs, EditMessage(r), NEW m
    PROVE  Stored(m)' => Stored(m)
<1>1. PICK i \in 1..Len(messages) : messages' = SubSeq(messages, 1, i)
  BY DEF EditMessage
<1>2. messages \in Seq(Messages)
  BY DEF TypeOK
<1> QED BY <1>1, <1>2, OccursPrefix DEF Stored

\* What a run has to fear from no other actor: its output, its end of the
\* conversation, and a context that is canceled stay as they are.
Apart(x) ==
    /\ UNCHANGED conversation
    /\ NoOutput(x) => NoOutput(x)'
    /\ ctx'[x] = ctx[x] \/ (ctx[x] = "live" /\ ctx'[x] = "canceled")

\* What another run's handler and goroutine do is apart from a run.
LEMMA RunApart ==
    ASSUME TypeOK, NEW r \in Runs, NEW x \in Runs \ {r}, RunStep(r), ~Finish(r)
    PROVE  Apart(x)
<1> USE DEF goroutineFrame, CheckThenGo
<1>1. CASE PostMessage(r)
  BY <1>1, OtherMessage DEF PostMessage, Apart, NoOutput, Kinds
<1>2. CASE EditMessage(r)
  BY <1>2, EditStores DEF EditMessage, Apart, NoOutput
<1>3. CASE SaveAnswer(r) \/ SaveFailure(r)
  <2>1. NoOutput(x) => NoOutput(x)'
    BY <1>3, OtherMessage DEF SaveAnswer, SaveFailure, NoOutput, Kinds
  <2> QED BY <1>3, <2>1 DEF SaveAnswer, SaveFailure, Apart
<1>4. CASE Launch(r) \/ PublishOutcome(r)
  BY <1>4 DEF Launch, PublishOutcome, Apart, NoOutput, Stored, TypeOK
<1>5. CASE UNCHANGED <<conversation, messages, ctx>>
  BY <1>5 DEF Apart, NoOutput, Stored
<1>6. \/ PostMessage(r) \/ EditMessage(r) \/ SaveAnswer(r) \/ SaveFailure(r)
      \/ Launch(r) \/ PublishOutcome(r) \/ UNCHANGED <<conversation, messages, ctx>>
  BY DEF RunStep, Upstream, Work, AcceptDelta, SearchSources, GenerateSucceeds,
         GenerateFails, InsertRun, Announce, PlanImage, ImagePending, AppendDelta,
         CheckReturned, NextChunk, LastChunk, Pause, FinalCheck, CheckFailed,
         CompleteRun, FailRun
<1> QED BY <1>1, <1>2, <1>3, <1>4, <1>5, <1>6

\* So is what whoever finishes the run does: it leaves a stop notice at most.
LEMMA FinishApart ==
    ASSUME TypeOK, NEW a \in Actors, NEW x \in Runs \ {a}, Finish(a)
    PROVE  Apart(x)
<1>0. Of(a) \in Runs
  BY OfIsRun DEF TypeOK, Finish, Claim, StopMessage, AttachStopMessage, PublishCanceled
<1>1. UNCHANGED conversation
  BY DEF Finish, Claim, StopMessage, AttachStopMessage, PublishCanceled
<1>2. NoOutput(x) => NoOutput(x)'
  <2>1. CASE StopMessage(a)
    BY <1>0, <2>1, OtherMessage DEF StopMessage, NoOutput, Kinds
  <2>2. CASE UNCHANGED messages
    BY <2>2 DEF NoOutput, Stored
  <2> QED BY <2>1, <2>2 DEF Finish, Claim, AttachStopMessage, PublishCanceled
<1>3. ctx'[x] = ctx[x]
  BY DEF Finish, Claim, StopMessage, AttachStopMessage, PublishCanceled, Return, TypeOK
<1> QED BY <1>1, <1>2, <1>3 DEF Apart

\* A request writes no message, and cancels a context that is live.
LEMMA RequestApart ==
    ASSUME TypeOK, NEW q \in Requests, NEW x \in Runs,
           RequestCancel(q) \/ ListActive(q) \/ ReadRun(q) \/ SignalRun(q)
    PROVE  Apart(x)
<1>1. UNCHANGED <<conversation, messages>>
  BY DEF RequestCancel, ListActive, ReadRun, SignalRun, requestFrame
<1>2. ctx'[x] = ctx[x] \/ (ctx[x] = "live" /\ ctx'[x] = "canceled")
  BY DEF RequestCancel, ListActive, ReadRun, SignalRun, TypeOK
<1> QED BY <1>1, <1>2 DEF Apart, NoOutput, Stored

\* Any step is the run's own, apart from it, or hits all runs alike.
LEMMA OwnOrApart ==
    ASSUME TypeOK, Next, NEW x \in Runs
    PROVE  RunStep(x) \/ (Outside(x) /\ Apart(x)) \/ DeleteConversation \/ Crash
<1>1. ASSUME NEW r \in Runs, RunStep(r), r # x PROVE Outside(x) /\ Apart(x)
  <2>1. Finish(r) => Apart(x)
    BY <1>1, FinishApart DEF Actors
  <2>2. Outside(x)
    BY <1>1, HandlerOutside, GoroutineOutside, FinishOutside DEF RunStep, Work, Actors
  <2> QED BY <1>1, <2>1, <2>2, RunApart
<1>2. ASSUME NEW q \in Requests, RequestStep(q) PROVE Outside(x) /\ Apart(x)
  <2>1. x # q /\ q \in Actors
    BY ChatRunsAssumption DEF Actors
  <2> QED BY <1>2, <2>1, RequestOutside, FinishOutside, RequestApart, FinishApart
          DEF RequestStep, Serve
<1>3. CASE Quiescent
  BY <1>3, OutsideQuiet DEF Quiescent, vars, Stored, Apart, NoOutput
<1> QED BY <1>1, <1>2, <1>3 DEF Next

\* Where a step of its goroutine takes a run that has stored nothing yet.
LEMMA OwnBefore ==
    ASSUME TypeOK, NEW x \in Runs, RunStep(x), BeforeOutput(x)
    PROVE  BeforeOutput(x)'
<1> USE DEF goroutineFrame, CheckThenGo
<1>0. x \in Actors
  BY DEF Actors
<1>1. CASE PostMessage(x)
  <2>1. pc[x] = "idle" /\ pc'[x] = "insert" /\ UNCHANGED ctx
    BY <1>0, <1>1, OthersStay DEF PostMessage
  <2>2. NoOutput(x) => NoOutput(x)'
    BY <1>1, OtherMessage DEF PostMessage, NoOutput, Kinds
  <2> QED BY <2>1, <2>2 DEF BeforeOutput, Handling
<1>2. CASE EditMessage(x)
  <2>1. pc[x] = "idle" /\ pc'[x] = "insert" /\ UNCHANGED ctx
    BY <1>0, <1>2, OthersStay DEF EditMessage
  <2>2. NoOutput(x) => NoOutput(x)'
    BY <1>2, EditStores DEF NoOutput
  <2> QED BY <2>1, <2>2 DEF BeforeOutput, Handling
<1>3. CASE InsertRun(x) \/ Announce(x)
  <2>1. /\ pc[x] \in Handling /\ UNCHANGED <<ctx, messages>>
    BY <1>3 DEF InsertRun, Announce, Handling
  <2> QED BY <2>1 DEF BeforeOutput, NoOutput, Stored
<1>4. CASE Launch(x)
  <2>1. /\ pc[x] \in Handling /\ UNCHANGED messages /\ pc'[x] \notin Handling
    BY <1>0, <1>4, OthersStay DEF Launch, Handling
  <2> QED BY <2>1 DEF BeforeOutput, NoOutput, Stored
<1>5. CASE \/ AcceptDelta(x) \/ SearchSources(x) \/ GenerateSucceeds(x) \/ GenerateFails(x)
           \/ PlanImage(x) \/ ImagePending(x) \/ AppendDelta(x) \/ CheckReturned(x)
           \/ NextChunk(x) \/ LastChunk(x) \/ Pause(x) \/ FinalCheck(x) \/ CheckFailed(x)
  <2>1. pc[x] \in BeforeLastCheck /\ UNCHANGED messages
    BY <1>5 DEF AcceptDelta, SearchSources, GenerateSucceeds, GenerateFails, PlanImage,
                ImagePending, AppendDelta, CheckReturned, NextChunk, LastChunk, Pause,
                FinalCheck, CheckFailed, BeforeLastCheck
  <2>2. pc'[x] \notin Handling
    BY <1>0, <1>5, OthersStay
       DEF AcceptDelta, SearchSources, GenerateSucceeds, GenerateFails, PlanImage,
           ImagePending, AppendDelta, CheckReturned, NextChunk, LastChunk, Pause,
           FinalCheck, CheckFailed, Handling
  <2> QED BY <2>1, <2>2 DEF BeforeOutput, NoOutput, Stored
<1>6. CASE \/ SaveAnswer(x) \/ SaveFailure(x) \/ CompleteRun(x) \/ FailRun(x)
           \/ PublishOutcome(x) \/ Finish(x)
  <2>1. PICK l \in {"complete", "fail", "doneEvent", "errorEvent", "ended", "stopMessage",
                    "attach", "canceledEvent"} : Goto(x, l)
    BY <1>6, ChatRunsAssumption
       DEF SaveAnswer, SaveFailure, CompleteRun, FailRun, PublishOutcome, Finish, Claim,
           StopMessage, AttachStopMessage, PublishCanceled, Return
  <2>2. pc'[x] = l
    BY <1>0, <2>1, OthersStay
  <2> QED BY <2>2 DEF BeforeOutput, Handling, BeforeLastCheck
<1> QED BY <1>1, <1>2, <1>3, <1>4, <1>5, <1>6 DEF RunStep, Upstream, Work

\* Nobody but its goroutine saves output for a run, and it does so at the two
\* places it gets to after the last check.
LEMMA NextBefore == TypeOK /\ BeforeInv /\ [Next]_vars => BeforeInv'
<1> SUFFICES ASSUME TypeOK, BeforeInv, [Next]_vars, NEW x \in Runs PROVE BeforeOutput(x)'
  BY DEF BeforeInv
<1>0. BeforeOutput(x)
  BY DEF BeforeInv
<1>1. CASE RunStep(x)
  BY <1>0, <1>1, OwnBefore
<1>2. CASE Outside(x) /\ Apart(x)
  BY <1>0, <1>2 DEF Outside, Apart, BeforeOutput
<1>3. CASE DeleteConversation
  <2>1. messages' = <<>> /\ UNCHANGED <<pc, ctx>>
    BY <1>3 DEF DeleteConversation
  <2>2. NoOutput(x)'
    BY <2>1, EmptyOccurs DEF NoOutput, Stored
  <2> QED BY <1>0, <2>1, <2>2 DEF BeforeOutput
<1>4. CASE Crash
  <2>1. /\ pc'[x] \in {"idle", "ended"} /\ (pc'[x] = "idle" => pc[x] = "idle")
        /\ ctx'[x] = "none" /\ UNCHANGED messages
    BY <1>4 DEF Crash, Actors
  <2> QED BY <1>0, <2>1 DEF BeforeOutput, Handling, BeforeLastCheck, NoOutput, Stored
<1>5. CASE UNCHANGED vars
  BY <1>0, <1>5 DEF vars, BeforeOutput, NoOutput, Stored
<1> QED BY <1>1, <1>2, <1>3, <1>4, <1>5, OwnOrApart

\* There are no messages to begin with.
LEMMA InitBefore == Init => BeforeInv
<1> SUFFICES ASSUME Init, NEW x \in Runs PROVE BeforeOutput(x)
  BY DEF BeforeInv
<1>1. messages = <<>> /\ ctx[x] = "none"
  BY DEF Init
<1> QED BY <1>1, EmptyOccurs DEF BeforeOutput, NoOutput, Stored

\* A check that does not fail turns a stopped goroutine away.
LEMMA OwnSilent ==
    ASSUME TypeOK, NEW x \in Runs, RunStep(x), BeforeOutput(x), faults' = 0,
           pc[x] \in BeforeLastCheck, StopRequested(x)
    PROVE  /\ UNCHANGED <<conversation, messages>>
           /\ \/ pc'[x] \in BeforeLastCheck /\ StopRequested(x)'
              \/ pc'[x] = "claim"
<1> USE DEF goroutineFrame
<1>0. x \in Actors /\ ~NoStopSeen(x)
  BY FaultsCounted DEF Actors, NoStopSeen, StopRequested
<1>1. CASE Announce(x) \/ Launch(x)
  <2>1. /\ UNCHANGED <<conversation, messages, row>> /\ pc[x] \in Handling
    BY <1>1 DEF Announce, Launch, Handling
  <2>2. row[x].cancelRequested
    BY <2>1 DEF BeforeOutput, StopRequested
  <2>3. pc'[x] \in BeforeLastCheck
    BY <1>0, <1>1, OthersStay DEF Announce, Launch, BeforeLastCheck
  <2> QED BY <2>1, <2>2, <2>3 DEF StopRequested
<1>2. CASE \/ SearchSources(x) \/ GenerateSucceeds(x) \/ GenerateFails(x)
           \/ ImagePending(x) \/ AppendDelta(x) \/ LastChunk(x) \/ Pause(x)
  <2>1. UNCHANGED <<conversation, messages, row, ctx>>
    BY <1>2 DEF SearchSources, GenerateSucceeds, GenerateFails, ImagePending, AppendDelta,
                LastChunk, Pause
  <2>2. pc'[x] \in BeforeLastCheck \cup {"claim"}
    BY <1>0, <1>2, OthersStay
       DEF SearchSources, GenerateSucceeds, GenerateFails, ImagePending, AppendDelta,
           LastChunk, Pause, BeforeLastCheck
  <2> QED BY <2>1, <2>2 DEF StopRequested
<1>3. CASE \/ PlanImage(x) \/ CheckReturned(x) \/ NextChunk(x) \/ FinalCheck(x)
           \/ CheckFailed(x)
  <2>1. UNCHANGED <<conversation, messages>> /\ Goto(x, "claim")
    BY <1>0, <1>3 DEF PlanImage, CheckReturned, NextChunk, FinalCheck, CheckFailed, CheckThenGo
  <2> QED BY <1>0, <2>1, OthersStay
<1>4. ~AcceptDelta(x)
  BY <1>0 DEF AcceptDelta
<1>5. /\ ~PostMessage(x) /\ ~EditMessage(x) /\ ~InsertRun(x)
      /\ ~SaveAnswer(x) /\ ~SaveFailure(x) /\ ~CompleteRun(x) /\ ~FailRun(x)
      /\ ~PublishOutcome(x) /\ ~Finish(x)
  BY DEF PostMessage, EditMessage, InsertRun, SaveAnswer, SaveFailure, CompleteRun, FailRun,
         PublishOutcome, Finish, Claim, StopMessage, AttachStopMessage, PublishCanceled,
         BeforeLastCheck
<1> QED BY <1>1, <1>2, <1>3, <1>4, <1>5 DEF RunStep, Upstream, Work

\* On its way out it leaves a stop notice at most.
LEMMA LeavingSilent ==
    ASSUME TypeOK, NEW x \in Runs, RunStep(x), pc[x] \in FinishLabels \cup {"ended"},
           NoOutput(x)
    PROVE  NoOutput(x)' /\ pc'[x] \in FinishLabels \cup {"ended"}
<1>0. x \in Actors /\ x \notin Requests /\ Of(x) = x
  BY ChatRunsAssumption DEF Actors, Of
<1>1. Finish(x)
  BY DEF RunStep, Upstream, Work, PostMessage, EditMessage, InsertRun, Announce, Launch,
         PlanImage, ImagePending, AcceptDelta, AppendDelta, SearchSources, GenerateSucceeds,
         GenerateFails, CheckReturned, NextChunk, LastChunk, Pause, FinalCheck, CheckFailed,
         SaveAnswer, SaveFailure, CompleteRun, FailRun, PublishOutcome, CheckThenGo,
         FinishLabels
<1>2. pc'[x] \in FinishLabels \cup {"ended"}
  <2>1. PICK l \in {"ended", "stopMessage", "attach", "canceledEvent"} : Goto(x, l)
    BY <1>0, <1>1 DEF Finish, Claim, StopMessage, AttachStopMessage, PublishCanceled, Return
  <2> QED BY <1>0, <2>1, OthersStay DEF FinishLabels
<1>3. NoOutput(x)'
  <2>1. CASE StopMessage(x)
    BY <1>0, <2>1, OtherMessage DEF StopMessage, NoOutput, Kinds
  <2>2. CASE UNCHANGED messages
    BY <2>2 DEF NoOutput, Stored
  <2> QED BY <1>1, <2>1, <2>2 DEF Finish, Claim, AttachStopMessage, PublishCanceled
<1> QED BY <1>2, <1>3

\* Nobody writes into a conversation that is deleted.
LEMMA DeletedSilent ==
    ASSUME TypeOK, DeletedIsEmpty, NEW x \in Runs, RunStep(x), conversation = "deleted"
    PROVE  UNCHANGED <<conversation, messages>>
<1>1. messages = <<>>
  BY DEF DeletedIsEmpty
<1>2. ~EditMessage(x)
  BY <1>1 DEF EditMessage
<1> QED
  BY <1>2 DEF RunStep, Upstream, Work, PostMessage, InsertRun, Announce, Launch, PlanImage,
         ImagePending, AcceptDelta, AppendDelta, SearchSources, GenerateSucceeds,
         GenerateFails, CheckReturned, NextChunk, LastChunk, Pause, FinalCheck, CheckFailed,
         SaveAnswer, SaveFailure, CompleteRun, FailRun, PublishOutcome, CheckThenGo,
         Finish, Claim, StopMessage, AttachStopMessage, PublishCanceled, CreateMessage,
         CreateMessageFails, goroutineFrame

\* Silence is kept by every step.
LEMMA StaysSilent ==
    ASSUME NEW x \in Runs, TypeOK, ClaimInv, BeforeInv, [Next]_vars, Silenced(x)
    PROVE  Silenced(x)'
<1>0. SUFFICES ASSUME faults' = 0
               PROVE  /\ NoOutput(x)'
                      /\ \/ conversation' = "deleted"
                         \/ pc'[x] \in BeforeLastCheck /\ StopRequested(x)'
                         \/ pc'[x] \in FinishLabels \cup {"ended"}
  BY DEF Silenced
<1>1. BeforeOutput(x)
  BY DEF BeforeInv
<1>2. CASE RunStep(x)
  <2>1. faults = 0
    BY <1>0, <1>2, FaultsCounted
       DEF RunStep, Upstream, Work, PostMessage, EditMessage, InsertRun, Announce, Launch,
           PlanImage, ImagePending, AcceptDelta, AppendDelta, SearchSources,
           GenerateSucceeds, GenerateFails, CheckReturned, NextChunk, LastChunk, Pause,
           FinalCheck, CheckFailed, SaveAnswer, SaveFailure, CompleteRun, FailRun,
           PublishOutcome, CheckThenGo, Finish, Claim, StopMessage, AttachStopMessage,
           PublishCanceled, CreateMessage, CreateMessageFails, AppendEvent, UpdateRow,
           NoStopSeen
  <2>2. CASE conversation = "deleted"
    BY <1>2, <2>1, <2>2, DeletedSilent DEF Silenced, ClaimInv, NoOutput, Stored
  <2>3. CASE pc[x] \in BeforeLastCheck /\ StopRequested(x)
    <3>1. /\ UNCHANGED <<conversation, messages>>
          /\ \/ pc'[x] \in BeforeLastCheck /\ StopRequested(x)'
             \/ pc'[x] = "claim"
      BY <1>0, <1>1, <1>2, <2>3, OwnSilent
    <3> QED BY <2>1, <3>1 DEF Silenced, NoOutput, Stored, FinishLabels
  <2>4. CASE pc[x] \in FinishLabels \cup {"ended"}
    BY <1>2, <2>1, <2>4, LeavingSilent DEF Silenced
  <2> QED BY <2>1, <2>2, <2>3, <2>4 DEF Silenced
<1>3. CASE Outside(x) /\ Apart(x)
  <2>1. /\ faults = 0 /\ pc'[x] = pc[x] /\ UNCHANGED conversation
        /\ row[x].cancelRequested => row'[x].cancelRequested
        /\ ctx[x] = "canceled" => ctx'[x] = "canceled"
        /\ NoOutput(x) => NoOutput(x)'
    BY <1>0, <1>3 DEF Outside, Apart
  <2> QED BY <2>1 DEF Silenced, StopRequested
<1>4. CASE DeleteConversation
  <2>1. messages' = <<>> /\ conversation' = "deleted"
    BY <1>4 DEF DeleteConversation
  <2> QED BY <2>1, EmptyOccurs DEF NoOutput, Stored
<1>5. CASE Crash
  <2>1. /\ pc'[x] = IF pc[x] = "idle" THEN "idle" ELSE "ended"
        /\ UNCHANGED <<messages, conversation, faults>>
    BY <1>5 DEF Crash, Actors
  <2> QED BY <1>0, <2>1 DEF Silenced, NoOutput, Stored, BeforeLastCheck, FinishLabels
<1>6. CASE UNCHANGED vars
  BY <1>0, <1>6 DEF vars, Silenced, NoOutput, Stored, StopRequested
<1> QED BY <1>2, <1>3, <1>4, <1>5, <1>6, OwnOrApart

\* A stop that the goroutine can still see leaves neither an answer nor the
\* text of an error behind, then or later, unless a check fails
\* (runChatGeneration, runChatImageGeneration).
THEOREM StopIsSilent == Spec => StopSilencesRun
<1> SUFFICES ASSUME NEW r \in Runs
             PROVE  Spec => [](/\ StopRequested(r)
                               /\ pc[r] \in BeforeLastCheck
                               => [](faults = 0 => /\ ~Stored(Message(r, "answer"))
                                                   /\ ~Stored(Message(r, "failure"))))
  BY DEF StopSilencesRun
<1>1. BeforeInv /\ StopRequested(r) /\ pc[r] \in BeforeLastCheck => Silenced(r)
  BY DEF BeforeInv, BeforeOutput, Silenced
<1>2. Silenced(r) => (faults = 0 => /\ ~Stored(Message(r, "answer"))
                                    /\ ~Stored(Message(r, "failure")))
  BY DEF Silenced, NoOutput
<1>3. TypeOK /\ ClaimInv /\ BeforeInv /\ [Next]_vars /\ Silenced(r) => Silenced(r)'
  BY StaysSilent
<1>4. Spec => []BeforeInv
  BY InitBefore, NextBefore, TypeCorrect, PTL DEF Spec
<1> QED
  BY <1>1, <1>2, <1>3, <1>4, TypeCorrect, ClaimIsExclusive, PTL DEF Spec

-----------------------------------------------------------------------------
(* The refinement: each step of ChatRuns is one of ChatRunLifecycle, or    *)
(* leaves what the observer sees of the runs as it is.                     *)

\* The phase of a run, from the row and the conversation it is in.
Phase(open, status) ==
    IF ~open THEN "gone"
    ELSE IF status = "absent" THEN "none"
    ELSE IF status \in ActiveStatus THEN "active"
    ELSE status

\* The mapping, before and after a step.
LEMMA Mapping ==
    ASSUME TypeOK, TypeOK'
    PROVE  /\ phaseOf = [r \in Runs |-> Phase(conversation = "open", row[r].status)]
           /\ phaseOf' = [r \in Runs |-> Phase(conversation' = "open", row'[r].status)]
           /\ announcedOf = [r \in Runs |-> Ends(events[r])]
           /\ announcedOf' = [r \in Runs |-> Ends(events'[r])]
<1>1. conversation \in {"open", "deleted"} /\ conversation' \in {"open", "deleted"}
  BY DEF TypeOK
<1>2. phaseOf = [r \in Runs |-> Phase(conversation = "open", row[r].status)]
  BY <1>1 DEF phaseOf, Phase, ActiveStatus
<1>3. phaseOf' = [r \in Runs |-> Phase(conversation' = "open", row'[r].status)]
  BY <1>1 DEF phaseOf, Phase, ActiveStatus
<1>4. announcedOf = [r \in Runs |-> Ends(events[r])]
  BY DEF announcedOf, Ends
<1>5. announcedOf' = [r \in Runs |-> Ends(events'[r])]
  BY DEF announcedOf, Ends
<1> QED BY <1>2, <1>3, <1>4, <1>5

SameStatus(r) ==
    \/ row'[r].status = row[r].status
    \/ row[r].status \in ActiveStatus /\ row'[r].status \in ActiveStatus

\* The observer sees nothing of a change between "running" and "canceling".
LEMMA SamePhases ==
    ASSUME TypeOK, TypeOK', UNCHANGED conversation, \A r \in Runs : SameStatus(r)
    PROVE  phaseOf' = phaseOf
BY Mapping DEF SameStatus, Phase, ActiveStatus

\* Nor of an event that ends nothing.
LEMMA SameEnds ==
    ASSUME TypeOK, TypeOK',
           \/ UNCHANGED events
           \/ \E r \in Runs, y \in EventTypes \ TerminalEvents : AppendEvent(r, y)
    PROVE  announcedOf' = announcedOf
<1>1. CASE UNCHANGED events
  BY <1>1, Mapping
<1>2. CASE \E r \in Runs, y \in EventTypes \ TerminalEvents : AppendEvent(r, y)
  <2>1. PICK r \in Runs, y \in EventTypes \ TerminalEvents : AppendEvent(r, y)
    BY <1>2
  <2>2. ASSUME NEW x \in Runs PROVE Ends(events'[x]) = Ends(events[x])
    <3>1. events'[x] = events[x] \/ events'[x] = Append(events[x], y)
      BY <2>1, AppendEventEffect
    <3>2. events[x] \in Seq(EventTypes)
      BY DEF TypeOK
    <3> QED BY <3>1, <3>2, EndsAppend
  <2> QED BY <2>2, Mapping
<1> QED BY <1>1, <1>2

\* A run that gets an outcome: a step of End.
LEMMA EndStep ==
    ASSUME TypeOK, TypeOK', DeletedIsEmpty, NEW r \in Runs, UNCHANGED <<conversation, events>>,
           row[r].status \in ActiveStatus, row'[r].status \in TerminalStatus,
           \A x \in Runs \ {r} : row'[x] = row[x]
    PROVE  Lifecycle!End(r)
<1>1. conversation = "open"
  BY DEF DeletedIsEmpty, TypeOK, ActiveStatus
<1>2. phaseOf[r] = "active"
  BY <1>1, Mapping DEF Phase, ActiveStatus
<1>3. PICK outcome \in {"completed", "failed", "canceled"} : row'[r].status = outcome
  BY DEF TerminalStatus
<1>4. phaseOf' = [phaseOf EXCEPT ![r] = outcome]
  BY <1>1, <1>3, Mapping DEF Phase, ActiveStatus
<1>5. announcedOf' = announcedOf
  BY Mapping
<1> QED BY <1>2, <1>4, <1>5 DEF Lifecycle!End, Lifecycle!Outcomes

\* An end that is announced for the first time: a step of Announce.
LEMMA AnnounceStep ==
    ASSUME TypeOK, TypeOK', DeletedIsEmpty, NEW r \in Runs, NEW y \in TerminalEvents,
           UNCHANGED <<conversation, row>>,
           row[r].status # "absent",
           y = "canceled" => row[r].status = "canceled" /\ ~Published(r, "canceled"),
           y # "canceled" => ~Published(r, "done") /\ ~Published(r, "error"),
           events' = [events EXCEPT ![r] = Append(@, y)]
    PROVE  Lifecycle!Announce(r, y)
<1>0. /\ conversation = "open" /\ y \in EventTypes
      /\ events[r] \in Seq(EventTypes) /\ events'[r] = Append(events[r], y)
  BY DEF DeletedIsEmpty, TypeOK, EventTypes
<1> DEFINE new == [position |-> Len(events[r]) + 1, type |-> y]
<1>1. announcedOf[r] = Ends(events[r]) /\ announcedOf'[r] = Ends(events[r]) \cup {new}
  BY <1>0, EndsAppend, Mapping
<1>2. announcedOf' = [announcedOf EXCEPT ![r] = @ \cup {new}]
  BY <1>0, <1>1, Mapping
<1>3. \A e \in announcedOf[r] : e.position < new.position /\ Published(r, e.type)
  BY <1>0, <1>1, EndsAppend DEF Published
<1>4. \A e \in announcedOf[r] : e.type \in TerminalEvents
  BY <1>1 DEF Ends
<1>5. \A e \in announcedOf[r] : (y = "canceled") # (e.type = "canceled")
  BY <1>3, <1>4 DEF TerminalEvents
<1>6. phaseOf[r] \notin {"none", "gone"} /\ (y = "canceled" => phaseOf[r] = "canceled")
  <2>1. phaseOf[r] = Phase(TRUE, row[r].status)
    BY <1>0, Mapping
  <2>2. row[r].status \in ActiveStatus \cup TerminalStatus
    <3>1. row[r] \in Rows
      BY DEF TypeOK
    <3> QED BY <3>1 DEF Rows, Statuses
  <2>3. phaseOf[r] \notin {"none", "gone"}
    BY <2>1, <2>2 DEF Phase, ActiveStatus, TerminalStatus
  <2>4. y = "canceled" => phaseOf[r] = "canceled"
    BY <2>1 DEF Phase, ActiveStatus
  <2> QED BY <2>3, <2>4
<1>7. phaseOf' = phaseOf
  BY Mapping
<1>8. new.type = y /\ new.position \in Nat /\ new \in announcedOf'[r]
  BY <1>0, <1>1
<1> HIDE DEF new
<1> QED BY <1>2, <1>3, <1>5, <1>6, <1>7, <1>8 DEF Lifecycle!Announce

\* The steps of a goroutine and its handler.
LEMMA RunRefines ==
    ASSUME TypeOK, TypeOK', ClaimInv, OutcomeInv, NEW r \in Runs,
           RunStep(r), ~Finish(r)
    PROVE  [Lifecycle!Next]_(Lifecycle!vars)
<1> USE DEF goroutineFrame, requestVars
<1>0. /\ DeletedIsEmpty /\ row \in [Runs -> Rows] /\ row[r] \in Rows
      /\ events \in [Runs -> Seq(EventTypes)]
  BY DEF ClaimInv, TypeOK
<1>1. CASE InsertRun(r)
  <2>1. CASE UNCHANGED row
    <3>1. UNCHANGED <<conversation, events>>
      BY <1>1 DEF InsertRun
    <3> QED BY <2>1, <3>1, Mapping DEF Lifecycle!vars
  <2>2. CASE conversation = "open" /\ row' = [row EXCEPT ![r] = RunningRow]
    <3>1. UNCHANGED <<conversation, events>> /\ row[r].status = "absent"
      BY <1>1 DEF InsertRun, ClaimInv, NotYetInserted
    <3>2. row'[r].status = "running" /\ \A x \in Runs \ {r} : row'[x] = row[x]
      BY <1>0, <2>2 DEF RunningRow, AbsentRow
    <3>3. phaseOf[r] = "none" /\ phaseOf' = [phaseOf EXCEPT ![r] = "active"]
      BY <2>2, <3>1, <3>2, Mapping DEF Phase, ActiveStatus
    <3>4. announcedOf' = announcedOf
      BY <3>1, Mapping
    <3> QED BY <3>3, <3>4 DEF Lifecycle!Next, Lifecycle!Create
  <2> QED BY <1>1, <2>1, <2>2 DEF InsertRun
<1>2. CASE CompleteRun(r) \/ FailRun(r)
  <2>1. UNCHANGED <<conversation, events>>
    BY <1>2 DEF CompleteRun, FailRun
  <2>2. \/ row' = row
        \/ /\ row[r].status \notin {"absent", "canceled"}
           /\ \/ row' = [row EXCEPT ![r] = Completed(row[r])]
              \/ row' = [row EXCEPT ![r] = Failed(row[r])]
    BY <1>2 DEF CompleteRun, FailRun, UpdateRow, MayComplete, MayFail
  <2>3. row[r].status \notin {"completed", "failed"}
    BY <1>2 DEF OutcomeInv, Settled, CompleteRun, FailRun
  <2>4. CASE row' = row
    BY <2>1, <2>4, Mapping DEF Lifecycle!vars
  <2>5. CASE row' # row
    <3>1. row[r].status \in ActiveStatus
      BY <1>0, <2>2, <2>3, <2>5 DEF Rows, Statuses, TerminalStatus
    <3>2. row'[r].status \in TerminalStatus /\ \A x \in Runs \ {r} : row'[x] = row[x]
      BY <1>0, <2>2, <2>5 DEF Completed, Failed, Rows, TerminalStatus
    <3> QED BY <1>0, <2>1, <3>1, <3>2, EndStep DEF Lifecycle!Next
  <2> QED BY <2>4, <2>5
<1>3. CASE PublishOutcome(r)
  <2>1. PICK y \in {"done", "error"} :
            AppendEvent(r, y) /\ pc[r] \in {"doneEvent", "errorEvent"}
    BY <1>3 DEF PublishOutcome
  <2>2. UNCHANGED <<conversation, row>>
    BY <1>3 DEF PublishOutcome
  <2>3. ~Published(r, "done") /\ ~Published(r, "error")
    BY <2>1 DEF OutcomeInv, Settled
  <2>4. CASE events' = events
    BY <2>2, <2>4, Mapping DEF Lifecycle!vars
  <2>5. CASE events' = [events EXCEPT ![r] = Append(@, y)] /\ Exists(r)
    BY <1>0, <2>2, <2>3, <2>5, AnnounceStep
       DEF Lifecycle!Next, Lifecycle!Announcements, TerminalEvents, Exists
  <2> QED BY <2>1, <2>4, <2>5 DEF AppendEvent
<1>4. CASE PostMessage(r) \/ EditMessage(r)
  <2>1. UNCHANGED <<conversation, events>>
    BY <1>4 DEF PostMessage, EditMessage
  <2>2. \A x \in Runs : row'[x].status = row[x].status
    <3>1. CASE PostMessage(r)
      BY <3>1 DEF PostMessage
    <3>2. CASE EditMessage(r)
      <4> SUFFICES ASSUME NEW x \in Runs PROVE row'[x].status = row[x].status
        OBVIOUS
      <4>1. row'[x] \in {row[x], [row[x] EXCEPT !.assistant = "none"]}
        BY <3>2 DEF EditMessage
      <4>2. row[x] \in Rows
        BY <1>0
      <4>3. [row[x] EXCEPT !.assistant = "none"].status = row[x].status
        BY <4>2 DEF Rows
      <4> QED BY <4>1, <4>3
    <3> QED BY <1>4, <3>1, <3>2
  <2> QED BY <2>1, <2>2, SamePhases, SameEnds DEF SameStatus, Lifecycle!vars
<1>5. CASE \/ Announce(r) \/ Launch(r)
           \/ AcceptDelta(r) \/ SearchSources(r) \/ Upstream(r)
           \/ PlanImage(r) \/ ImagePending(r) \/ AppendDelta(r)
           \/ CheckReturned(r) \/ NextChunk(r) \/ LastChunk(r) \/ Pause(r)
           \/ FinalCheck(r) \/ CheckFailed(r) \/ SaveAnswer(r) \/ SaveFailure(r)
  <2>1. UNCHANGED <<conversation, row>>
    BY <1>5 DEF Announce, Launch, AcceptDelta, SearchSources, Upstream,
                GenerateSucceeds, GenerateFails, PlanImage, ImagePending,
                AppendDelta, CheckReturned, NextChunk, LastChunk, Pause,
                FinalCheck, CheckFailed, CheckThenGo, SaveAnswer, SaveFailure
  <2>2. \/ UNCHANGED events
        \/ \E y \in {"run_started", "user", "image_pending", "search_sources",
                     "assistant_delta"} : AppendEvent(r, y)
    BY <1>5 DEF Announce, Launch, AcceptDelta, SearchSources, Upstream,
                GenerateSucceeds, GenerateFails, PlanImage, ImagePending,
                AppendDelta, CheckReturned, NextChunk, LastChunk, Pause,
                FinalCheck, CheckFailed, CheckThenGo, SaveAnswer, SaveFailure
  <2>3. {"run_started", "user", "image_pending", "search_sources", "assistant_delta"}
            \subseteq EventTypes \ TerminalEvents
    BY DEF EventTypes, TerminalEvents, Deltas
  <2>4. announcedOf' = announcedOf
    BY <2>2, <2>3, SameEnds
  <2> QED BY <2>1, <2>4, SamePhases DEF SameStatus, Lifecycle!vars
<1> QED BY <1>1, <1>2, <1>3, <1>4, <1>5 DEF RunStep, Work

\* The steps that finish a canceled run: the claim is its end, and there is
\* one announcement for it.
LEMMA FinishRefines ==
    ASSUME TypeOK, TypeOK', ClaimInv, NEW a \in Actors, Finish(a)
    PROVE  [Lifecycle!Next]_(Lifecycle!vars)
<1>0. Of(a) \in Runs
  BY OfIsRun DEF TypeOK, Finish, Claim, StopMessage, AttachStopMessage, PublishCanceled
<1>1. PICK r \in Runs : r = Of(a)
  BY <1>0
<1>2. /\ DeletedIsEmpty /\ row \in [Runs -> Rows] /\ row[r] \in Rows
      /\ events \in [Runs -> Seq(EventTypes)]
  BY DEF ClaimInv, TypeOK
<1>3. CASE Claim(a)
  <2>1. UNCHANGED <<conversation, events>>
    BY <1>3 DEF Claim
  <2>2. CASE row' = row
    BY <2>1, <2>2, Mapping DEF Lifecycle!vars
  <2>3. CASE MayCancel(row[r]) /\ row' = [row EXCEPT ![r] = Canceled(@)]
    <3>1. row[r].status \in ActiveStatus
      BY <1>2, <2>3 DEF MayCancel, Rows, Statuses, TerminalStatus
    <3>2. row'[r].status \in TerminalStatus /\ \A x \in Runs \ {r} : row'[x] = row[x]
      BY <1>2, <2>3 DEF Canceled, Rows, TerminalStatus
    <3> QED BY <1>2, <2>1, <3>1, <3>2, EndStep DEF Lifecycle!Next
  <2> QED BY <1>1, <1>3, <2>2, <2>3 DEF Claim
<1>4. CASE StopMessage(a) \/ AttachStopMessage(a)
  <2>1. UNCHANGED <<conversation, events>>
    BY <1>4 DEF StopMessage, AttachStopMessage
  <2>2. row' = row \/ row' = [row EXCEPT ![r] = [row[r] EXCEPT !.assistant = "stopped"]]
    BY <1>1, <1>4 DEF StopMessage, AttachStopMessage, UpdateRow
  <2>3. ASSUME NEW x \in Runs PROVE row'[x].status = row[x].status
    <3>1. CASE row' = row
      BY <3>1
    <3>2. CASE row' = [row EXCEPT ![r] = [row[r] EXCEPT !.assistant = "stopped"]]
      <4>1. [row[r] EXCEPT !.assistant = "stopped"].status = row[r].status
        BY <1>2 DEF Rows
      <4> QED BY <1>2, <3>2, <4>1
    <3> QED BY <2>2, <3>1, <3>2
  <2> QED BY <2>1, <2>3, SamePhases, SameEnds DEF SameStatus, Lifecycle!vars
<1>5. CASE PublishCanceled(a)
  <2>1. UNCHANGED <<conversation, row>> /\ AppendEvent(r, "canceled")
    BY <1>1, <1>5 DEF PublishCanceled
  <2>2. Holds(a, r)
    BY <1>1, <1>5 DEF PublishCanceled, Holds
  <2>3. CASE events' = events
    BY <2>1, <2>3, Mapping DEF Lifecycle!vars
  <2>4. CASE events' = [events EXCEPT ![r] = Append(@, "canceled")] /\ Exists(r)
    <3>1. conversation = "open"
      BY <1>2, <2>4 DEF Exists, DeletedIsEmpty, TypeOK
    <3>2. row[r].status = "canceled" /\ ~Published(r, "canceled")
      BY <2>2, <3>1 DEF ClaimInv, ClaimExclusive
    <3> QED BY <1>2, <2>1, <2>4, <3>2, AnnounceStep
            DEF Lifecycle!Next, Lifecycle!Announcements, TerminalEvents
  <2> QED BY <2>1, <2>3, <2>4 DEF AppendEvent
<1> QED BY <1>3, <1>4, <1>5 DEF Finish

\* The other requests mark a run canceled, which the observer does not see.
LEMMA RequestRefines ==
    ASSUME TypeOK, TypeOK', NEW q \in Requests,
           RequestCancel(q) \/ ListActive(q) \/ ReadRun(q) \/ SignalRun(q)
    PROVE  UNCHANGED Lifecycle!vars
<1>1. UNCHANGED <<conversation, events>>
  BY DEF RequestCancel, ListActive, ReadRun, SignalRun, requestFrame
<1>2. \A x \in Runs : SameStatus(x)
  <2>1. CASE RequestCancel(q)
    <3>1. PICK r \in Runs : Exists(r) /\ row' = [row EXCEPT ![r] = MarkCancelRequested(@)]
      BY <2>1 DEF RequestCancel
    <3>2. row \in [Runs -> Rows] /\ row[r] \in Rows /\ row[r].status # "absent"
      BY <3>1 DEF TypeOK, Exists
    <3>3. row'[r].status = IF row[r].status \in TerminalStatus THEN row[r].status
                                                               ELSE "canceling"
      BY <3>1, <3>2 DEF MarkCancelRequested, Rows
    <3>4. SameStatus(r)
      BY <3>2, <3>3 DEF SameStatus, Rows, Statuses, ActiveStatus
    <3> QED BY <3>1, <3>2, <3>4 DEF SameStatus
  <2>2. CASE UNCHANGED row
    BY <2>2 DEF SameStatus
  <2> QED BY <2>1, <2>2 DEF ListActive, ReadRun, SignalRun
<1> QED BY <1>1, <1>2, SamePhases, SameEnds DEF Lifecycle!vars

\* The end of the conversation, a crash, and standing still.
LEMMA EnvironmentRefines ==
    ASSUME TypeOK, TypeOK', DeleteConversation \/ Crash \/ UNCHANGED vars
    PROVE  [Lifecycle!Next]_(Lifecycle!vars)
<1>1. CASE DeleteConversation
  <2>1. phaseOf' = [r \in Runs |-> "gone"]
    BY <1>1, Mapping DEF DeleteConversation, Phase
  <2>2. announcedOf' = [r \in Runs |-> {}]
    <3>1. Ends(<<>>) = {}
      BY DEF Ends
    <3> QED BY <1>1, <3>1, Mapping DEF DeleteConversation
  <2> QED BY <2>1, <2>2 DEF Lifecycle!Next, Lifecycle!Remove
<1>2. CASE Crash \/ UNCHANGED vars
  BY <1>2, Mapping DEF Crash, vars, Lifecycle!vars
<1> QED BY <1>1, <1>2

\* Every run, whatever interleaves, lives the life ChatRunLifecycle allows:
\* one outcome, kept, and each end of it announced once, in the right order.
THEOREM LifecycleRefined == Spec => ImplementsLifecycle
<1>1. Init => Lifecycle!Init
  <2> SUFFICES ASSUME Init PROVE Lifecycle!Init
    OBVIOUS
  <2>1. phaseOf = [r \in Runs |-> "none"]
    <3>1. conversation = "open" /\ \A r \in Runs : row[r].status = "absent"
      BY DEF Init, AbsentRow
    <3>2. phaseOf = [r \in Runs |-> Phase(conversation = "open", row[r].status)]
      BY <3>1 DEF phaseOf, Phase, ActiveStatus
    <3> QED BY <3>1, <3>2 DEF Phase
  <2>2. announcedOf = [r \in Runs |-> {}]
    <3>1. ASSUME NEW r \in Runs PROVE Ends(events[r]) = {}
      BY DEF Init, Ends
    <3>2. announcedOf = [r \in Runs |-> Ends(events[r])]
      BY DEF announcedOf, Ends
    <3> QED BY <3>1, <3>2
  <2> QED BY <2>1, <2>2 DEF Lifecycle!Init
<1>2. /\ TypeOK /\ TypeOK' /\ ClaimInv /\ OutcomeInv /\ [Next]_vars
      => [Lifecycle!Next]_(Lifecycle!vars)
  <2> SUFFICES ASSUME TypeOK, TypeOK', ClaimInv, OutcomeInv, [Next]_vars
               PROVE  [Lifecycle!Next]_(Lifecycle!vars)
    OBVIOUS
  <2>1. ASSUME NEW r \in Runs, RunStep(r) PROVE [Lifecycle!Next]_(Lifecycle!vars)
    BY <2>1, RunRefines, FinishRefines DEF Actors
  <2>2. ASSUME NEW q \in Requests, RequestStep(q) PROVE [Lifecycle!Next]_(Lifecycle!vars)
    BY <2>2, RequestRefines, FinishRefines DEF RequestStep, Serve, Actors
  <2>3. CASE DeleteConversation \/ Crash \/ UNCHANGED vars
    BY <2>3, EnvironmentRefines
  <2> QED BY <2>1, <2>2, <2>3 DEF Next, Quiescent
<1> QED BY <1>1, <1>2, TypeCorrect, ClaimIsExclusive, OutcomeInvariant, PTL
        DEF Spec, ImplementsLifecycle, Lifecycle!Spec
=============================================================================
