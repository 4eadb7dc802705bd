--------------------------- MODULE ModelRouting ----------------------------
(***************************************************************************)
(* A call of a model route: its endpoints one after the other, all at once *)
(* with the first answer kept, or streamed one after the other.  An        *)
(* attempt that is not streamed has a timeout and is made twice when the   *)
(* error is one of connectivity; a streamed one has neither.               *)
(*                                                                         *)
(* Who called may give up: the context of the call is done.  The reader of *)
(* a streamed call is the worker of a chat run or a client of the API.  A  *)
(* run may be stopped and its worker miss the signal that ends the         *)
(* context: onDelta asks the row then, piece by piece.                     *)
(***************************************************************************)
EXTENDS EndpointAdaptation

CONSTANT
    Routes  \* what the route may be: [size, concurrent, anthropic, calls,
            \* streamed], its number of endpoints and its calls among them

ASSUME RoutesAssumption ==
    Routes \subseteq [size : 1..NumEndpoints, concurrent : BOOLEAN, anthropic : BOOLEAN,
                      calls : SUBSET Calls, streamed : SUBSET Calls]

VARIABLES
    route,    \* the model route all calls take, fixed
    phase,    \* "new", "running", "ok", "failed", "lost" with its process
    next,     \* the endpoint a call of one endpoint after the other is at
    attempts, \* attempts callProvider has made, per thread
    canceled, \* the calls whose caller gave up
    taken     \* the threads whose result the call has seen, or never will

routeVars == <<route, phase, next, attempts, canceled, taken>>
vars == <<endpointVars, routeVars>>

Concurrent == route.concurrent
Streamed(c) == c \in route.streamed /\ ~Concurrent
ThreadsOf(c) == {c} \X (1..route.size)
Active(c) == phase[c] = "running"
AttemptLimit(c) == IF Streamed(c) THEN 1 ELSE 2

Init ==
    /\ EndpointInit
    /\ route \in Routes
    /\ \A e \in Endpoints : e > route.size => upstream[e] = upstream[1]
    /\ phase = [c \in Calls |-> "new"]
    /\ next = [c \in Calls |-> 1]
    /\ attempts = [x \in Threads |-> 0]
    /\ canceled = {} /\ taken = {}

-----------------------------------------------------------------------------
(* callProvider and callProviderStream at one endpoint.                    *)

\* generateSequential, generateConcurrent, generateAIResponseEnvelopeStream.
Start(c) ==
    /\ c \in route.calls /\ phase[c] = "new"
    /\ phase' = [phase EXCEPT ![c] = "running"]
    /\ UNCHANGED <<endpointVars, route, next, attempts, canceled, taken>>

\* The threads of a concurrent call run, or did, whatever became of the call.
Reached(x) ==
    LET c == Call(x)
    IN  /\ x \in ThreadsOf(c)
        /\ IF Concurrent THEN phase[c] \in {"running", "ok", "failed"}
           ELSE Active(c) /\ next[c] = Endpoint(x)

\* shouldRetryProviderCall.
MayTryAgain(x) == At(x, "retry") /\ attempts[x] < AttemptLimit(Call(x)) /\ x \notin over

\* The first attempt, or the second 350 ms after the first.  The context is
\* looked at before each; it may be done by the time of the request.
Attempt(x) ==
    /\ Reached(x) /\ x \notin over
    /\ attempts[x] = 0 \/ MayTryAgain(x)
    /\ Begin(x, Streamed(Call(x)), route.anthropic)
    /\ attempts' = [attempts EXCEPT ![x] = @ + 1]
    /\ UNCHANGED <<route, phase, next, canceled, taken>>

\* callProvider has returned.
Returned(x) ==
    /\ Reached(x) /\ ~Running(x) /\ ~MayTryAgain(x)
    /\ attempts[x] > 0 \/ x \in over

-----------------------------------------------------------------------------
(* The call.                                                               *)

\* One endpoint after the other: the first that returns no error, or the
\* next.  A streamed call looks at the context before it goes on; at the
\* others the next call of callProvider does.
TakeNext(c) ==
    LET x == <<c, next[c]>>
    IN  /\ Active(c) /\ ~Concurrent /\ Returned(x)
        /\ taken' = taken \cup {x}
        /\ \/ /\ work[x].at \in {"ok", "empty"}
              /\ phase' = [phase EXCEPT ![c] = "ok"] /\ UNCHANGED next
           \/ /\ work[x].at \notin {"ok", "empty"}
              /\ next[c] < route.size /\ ~(Streamed(c) /\ x \in over)
              /\ next' = [next EXCEPT ![c] = @ + 1] /\ UNCHANGED phase
           \/ /\ work[x].at \notin {"ok", "empty"}
              /\ next[c] = route.size \/ (Streamed(c) /\ x \in over)
              /\ phase' = [phase EXCEPT ![c] = "failed"] /\ UNCHANGED next
        /\ UNCHANGED <<endpointVars, route, attempts, canceled>>

\* Mutant of GoodEnough: the first result is the result.
AnyResult(x) == work[x].at \in Ended

\* An answer with text.
GoodEnough(x) == At(x, "ok")

\* All at once: the first good answer ends the call and the context of the
\* rest, and is given to the reader in one piece if there is one, who may not
\* take it.  With the context done a result may be dropped instead.
TakeAny(x) ==
    LET c == Call(x)
        read == c \in route.streamed
        ends(outcome) == phase' = [phase EXCEPT ![c] = outcome]
    IN  /\ Active(c) /\ Concurrent /\ Returned(x) /\ x \notin taken
        /\ taken' = taken \cup {x}
        /\ \/ /\ GoodEnough(x) /\ over' = over \cup ThreadsOf(c)
              /\ \/ /\ ends(IF At(x, "ok") THEN "ok" ELSE "failed")
                    /\ IF read THEN Takes(x) /\ Give(x) ELSE Quiet /\ UNCHANGED reader
                 \/ /\ read /\ c \in deaf \cup canceled
                    /\ ends("failed") /\ Quiet /\ UNCHANGED reader
           \/ /\ GoodEnough(x) => x \in over
              /\ Quiet /\ UNCHANGED <<phase, over, reader>>
        /\ UNCHANGED <<work, memory, table, deaf, external, route, next, attempts, canceled>>

\* wg.Wait and the channel is closed.
AllTaken(c) ==
    /\ Active(c) /\ Concurrent /\ ThreadsOf(c) \subseteq taken
    /\ phase' = [phase EXCEPT ![c] = "failed"]
    /\ UNCHANGED <<endpointVars, route, next, attempts, canceled, taken>>

\* The client is gone, the router's 90 s are over, or a run is stopped.
Cancel(c) ==
    /\ Active(c) /\ canceled' = canceled \cup {c}
    /\ over' = over \cup ThreadsOf(c)
    /\ UNCHANGED <<work, memory, table, deaf, reader, faults, disturbed, external,
                   route, phase, next, attempts, taken>>

\* A run is stopped, and its worker can learn it from the row alone.
StopUnheard(c) ==
    /\ Active(c) /\ c \in route.streamed /\ deaf' = deaf \cup {c}
    /\ UNCHANGED <<work, memory, table, over, reader, faults, disturbed, external, routeVars>>

Restart ==
    /\ RestartMemory
    /\ phase' = [c \in Calls |-> IF phase[c] = "new" THEN "new" ELSE "lost"]
    /\ UNCHANGED <<route, next, attempts, canceled, taken>>

Thread(x) == ThreadStep(x) /\ UNCHANGED routeVars

Next ==
    \/ \E x \in Threads : Thread(x) \/ Attempt(x) \/ TakeAny(x)
    \/ \E c \in Calls :
          Start(c) \/ TakeNext(c) \/ AllTaken(c) \/ Cancel(c) \/ StopUnheard(c)
    \/ \E e \in 1..route.size : UpstreamChanges(e) /\ UNCHANGED routeVars
    \/ Restart

Spec == Init /\ [][Next]_vars

\* The code runs, timeouts and canceled contexts end requests.  No upstream
\* has to answer, and no stream to end.
GoesOn(x) ==
    \/ Attempt(x) \/ TakeAny(x)
    \/ /\ Remember(x) \/ Save(x) \/ GiveWhole(x) \/ TimeOut(x) \/ Interrupt(x)
       /\ UNCHANGED routeVars

Fairness ==
    /\ \A x \in Threads : WF_vars(GoesOn(x))
    /\ \A c \in Calls : WF_vars(TakeNext(c) \/ AllTaken(c))

FairSpec == Spec /\ Fairness

-----------------------------------------------------------------------------
(* Properties.                                                             *)

\* callOpenAICompatibleStream, generateAIResponseEnvelopeStream: a reader is
\* given text of one upstream request, never the beginning of an answer and
\* then another answer, when a stream breaks, nor when the run is stopped,
\* although the call goes on to the next endpoint then.  Unless a check after
\* the stop failed: then the text that check let through may be a second one.
\* Whitespace is no text: what a stream of nothing else brought is with the
\* reader when the next endpoint is asked.
OutputNotRepeated == \A c \in Calls \ missed : given[c] <= 1

\* All three strategies: a call whose context lives fails only after every
\* endpoint was asked, until no error was left that is worth another try,
\* and none had an answer.
FailsOnlyWhenAllFail ==
    \A c \in Calls \ (deaf \cup canceled) : phase[c] = "failed" =>
        \A x \in ThreadsOf(c) :
            work[x].at \in {"retry", "fail", "empty"} /\ ~MayTryAgain(x)

\* providerRequestTimeout: every call that is not streamed ends, and one that
\* is streamed ends once its context is done; all threads of a call end then.
\* There are finitely many calls, and what ended stays so.
OwedAnEnd(c) ==
    \/ Active(c) /\ (Streamed(c) => c \in canceled)
    \/ ~Active(c) /\ \E x \in ThreadsOf(c) : Running(x)

CallsEnd == <>[](\A c \in Calls : ~OwedAnEnd(c))
=============================================================================
