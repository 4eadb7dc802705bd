------------------------ MODULE EndpointAdaptation -------------------------
(***************************************************************************)
(* One call of one upstream endpoint, as callProvider and                  *)
(* callProviderStream make it, and what the process learns from it.        *)
(*                                                                         *)
(* An OpenAI-compatible endpoint may serve whole answers, streamed answers *)
(* or the responses API, each with or without /v1 in its URL.  A call      *)
(* tries these ways one after the other, what is remembered of the         *)
(* endpoint first, and moves on by the kind of the error.  The way that    *)
(* worked is kept in a map of the process, then written to a table, which  *)
(* is read when a process starts.  An Anthropic endpoint has one way.      *)
(*                                                                         *)
(* A thread is a call and one of its endpoints; ModelRouting composes the  *)
(* threads of a call.  The upstream is external: it serves what "upstream" *)
(* says, except that MaxFaults of all requests fail, and it may change.    *)
(***************************************************************************)
EXTENDS Naturals, Sequences

CONSTANTS
    Calls, NumEndpoints,
    Upstreams,  \* what an endpoint may serve: [kinds, place, hint], hint
                \* when its errors name the responses API
    MaxFaults,  \* failed requests and statements, crashes
    MaxChanges  \* times an endpoint comes to serve something else

ASSUME EndpointAssumption ==
    /\ NumEndpoints \in Nat \ {0}
    /\ Upstreams \subseteq [kinds : (SUBSET {"chat", "stream", "responses"}) \ {{}},
                            place : {"v1", "bare"}, hint : BOOLEAN]

VARIABLES
    work,     \* per thread: the request it is at and those left to try
    memory,   \* openAIAdapterCache
    table,    \* endpoint_adaptations
    upstream, \* what each endpoint serves
    over,     \* the threads whose context is done
    deaf,     \* the calls that are stopped, which onDelta reads from the row
    given,    \* per call: the requests whose text onDelta took
    missed,   \* history: the calls it took text for although stopped
    faults, changes,
    disturbed \* history: the threads something went wrong for on the way

endpointVars == <<work, memory, table, upstream, over, deaf, given, missed, faults, changes, disturbed>>
external == <<upstream, changes>>
reader == <<given, missed>>

Endpoints == 1..NumEndpoints
Threads == Calls \X Endpoints
Call(x) == x[1]
Endpoint(x) == x[2]

Nothing == [kind |-> "nothing", url |-> "nothing"]

\* openAIEndpointCandidates, ...WithPreferred: a URL is named by its place.
Candidates == <<"v1", "bare">>
Preferred(url) == <<url, CHOOSE other \in {"v1", "bare"} : other # url>>
CandidatesOf(e, kinds) ==
    IF memory[e].kind \in kinds THEN Preferred(memory[e].url) ELSE Candidates

\* A thread is idle, has sent a request, reads a stream, with text or only
\* whitespace so far, is about to remember or save the way that worked or to
\* give the reader what came in one piece, or ended with an answer, an empty
\* one, an error that may be tried again or one that may not.
Idle == [at |-> "idle", stage |-> "none", kind |-> "none", first |-> "none", urls |-> <<>>,
         streamed |-> FALSE, kept |-> FALSE, text |-> TRUE, began |-> Nothing]
Ended == {"ok", "empty", "retry", "fail"}

At(x, p) == work[x].at = p
Waiting(x) == work[x].at \in {"sent", "reading"}
Running(x) == Waiting(x) \/ work[x].at \in {"remember", "save", "give"}
End(x, outcome) == work' = [work EXCEPT ![x] = [Idle EXCEPT
    !.at = outcome, !.began = work[x].began, !.streamed = work[x].streamed]]
Change(x, w) == work' = [work EXCEPT ![x] = w]
Fault(x) ==
    /\ faults < MaxFaults /\ faults' = faults + 1
    /\ disturbed' = disturbed \cup {x}
Quiet == UNCHANGED <<faults, disturbed>>

EndpointInit ==
    /\ work = [x \in Threads |-> Idle]
    /\ memory = [e \in Endpoints |-> Nothing]
    /\ table = memory
    /\ upstream \in [Endpoints -> Upstreams]
    /\ over = {} /\ deaf = {} /\ missed = {} /\ disturbed = {}
    /\ given = [c \in Calls |-> 0]
    /\ faults = 0 /\ changes = 0

-----------------------------------------------------------------------------
(* What the upstream answers to the request of a thread.                   *)

Request(x) == [kind |-> work[x].kind, url |-> Head(work[x].urls)]

\* 404; 400 and the like for a stream; an error that names the responses
\* API; 502 or 504 for an answer that takes too long in one piece.
ErrorOf(u, r) ==
    IF r.url # u.place \/ r.kind = "responses" THEN "notfound"
    ELSE IF u.kinds = {"responses"} THEN (IF u.hint THEN "useresponses" ELSE "notfound")
    ELSE IF r.kind = "stream" THEN "nostream" ELSE "gateway"

Serves(u, r) == r.kind = "messages" \/ (r.kind \in u.kinds /\ r.url = u.place)
Served(x) == Serves(upstream[Endpoint(x)], Request(x))

\* A connection that is refused or breaks, an overloaded gateway, a request
\* that is turned down, an answer without text.
Mishaps == {"broken", "gateway", "rejected", "empty"}

-----------------------------------------------------------------------------
(* The ladder: where each error leads.                                     *)

Retryable(error) == error \in {"broken", "gateway"}  \* isUpstreamConnectivityError

\* tryOpenAIResponsesAfterChatFailure and openAIResponsesFallbackError.
ToResponses(w, error) ==
    /\ w.kind \in {"chat", "stream"}
    /\ error \in {"useresponses", "gateway"}
    /\ ~(w.kind = "chat" /\ error = "gateway" /\ ~w.streamed)
    /\ ~(w.stage = "cached" /\ w.streamed /\ error = "gateway")

\* A stream that was tried because the whole answer met a busy gateway.
ToResponsesAfterAll(w, error) == w.stage = "retry" /\ w.kind = "stream"

\* shouldTryOpenAIChatStreamFallback.
ToStream(w, error) == ~w.streamed /\ w.kind = "chat" /\ error = "gateway"

\* shouldFallbackFromOpenAIChatStreamError.
ToChat(w, error) == w.stage = "scan" /\ w.kind = "stream" /\ error = "nostream"

\* openAIChatCompletionsErrorShouldContinue; the loops over /responses.
ToNextURL(w, error) ==
    /\ Len(w.urls) > 1
    /\ \/ w.stage = "scan" /\ error = "notfound" /\ ~(w.streamed /\ w.kind = "chat")
       \/ w.kind = "responses" /\ error \in {"notfound", "empty"}

\* Mutant of ToScan: an error of what was remembered is final.
NeverScan(w, error) == FALSE

\* What was remembered did not work, and its error lets the call start over.
ToScan(w, error) ==
    /\ w.stage = "cached" /\ ~ToNextURL(w, error)
    /\ \/ w.kind = "responses" /\ w.streamed /\ error = "notfound"
       \/ w.kind # "responses" /\ w.streamed /\ error \in {"nostream", "gateway"}
       \/ w.kind # "responses" /\ ~w.streamed /\ error \notin {"useresponses", "gateway"}

Onward(w, error) ==
    \/ ToResponses(w, error) \/ ToResponsesAfterAll(w, error)
    \/ ToStream(w, error) \/ ToChat(w, error)
    \/ ToNextURL(w, error) \/ ToScan(w, error)

-----------------------------------------------------------------------------
(* The steps of a thread.                                                  *)

\* A thread that scans the URLs of /chat/completions.  Between the last answer
\* and this look at the memory nothing is waited for.
Scan(w, e) ==
    LET first == IF ~w.streamed /\ memory[e].kind = "chat" THEN "chat" ELSE "stream"
    IN  [w EXCEPT !.stage = "scan", !.kind = first, !.first = first,
                  !.urls = IF w.streamed THEN Candidates
                           ELSE CandidatesOf(e, {"chat", "stream"})]

\* A thread that has read the memory, "cached" in the code.
FromMemory(w, e) ==
    LET known == memory[e]
    IN  CASE known = Nothing -> Scan(w, e)
          [] known # Nothing /\ known.kind = "responses" ->
                [w EXCEPT !.stage = "cached", !.kind = "responses",
                          !.urls = Preferred(known.url)]
          [] OTHER ->
                [w EXCEPT !.stage = "cached", !.urls = <<known.url>>,
                          !.kind = IF w.streamed THEN "stream" ELSE known.kind]

\* callAnthropic: one URL, nothing remembered.
Messages(w) == [w EXCEPT !.stage = "only", !.kind = "messages", !.urls = <<"bare">>]

Begin(x, streamed, anthropic) ==
    /\ LET e == Endpoint(x)
           w == [Idle EXCEPT !.at = "sent", !.streamed = streamed, !.began = memory[e]]
       IN Change(x, IF anthropic THEN Messages(w) ELSE FromMemory(w, e))
    /\ disturbed' = disturbed \ {x}
    /\ UNCHANGED <<memory, table, over, deaf, reader, faults, external>>

\* The answer is complete.  Only what an OpenAI endpoint served is remembered.
Succeed(x, text) ==
    IF work[x].kind = "messages"
    THEN End(x, IF text THEN "ok" ELSE "empty")
    ELSE Change(x, [work[x] EXCEPT !.at = "remember", !.text = text])

\* An error, and where it leads.
Sending(w) == [w EXCEPT !.at = "sent"]
Fail(x, error) ==
    LET w == Sending(work[x])
    IN  \/ /\ \/ ToResponses(w, error)
              \/ ToResponsesAfterAll(w, error)
           /\ Change(x, [w EXCEPT !.stage = "responses", !.kind = "responses",
                                  !.urls = CandidatesOf(Endpoint(x), {"responses"}),
                                  !.kept = w.stage = "retry" \/ error = "gateway"])
        \/ ToStream(w, error) /\ Change(x, [w EXCEPT !.stage = "retry", !.kind = "stream"])
        \/ ToChat(w, error) /\ Change(x, [w EXCEPT !.kind = "chat"])
        \/ ToNextURL(w, error)
           /\ Change(x, [w EXCEPT !.urls = Tail(w.urls),
                                  !.kind = IF w.stage = "scan" THEN w.first ELSE w.kind])
        \/ ToScan(w, error) /\ Change(x, Scan(w, Endpoint(x)))
        \/ /\ ~Onward(w, error)
           /\ End(x, IF Retryable(error) \/ (w.kept /\ error = "notfound")
                     THEN "retry" ELSE "fail")

InOnePiece(x) ==
    work[x].kind = "chat" \/ (work[x].kind = "messages" /\ ~work[x].streamed)
Piecewise(x) == work[x].streamed /\ ~InOnePiece(x)

\* onDelta takes a piece: the run is not stopped, or the SELECT that would
\* tell fails or finds no row, the conversation being deleted.
Takes(x) == IF Call(x) \in deaf THEN Fault(x) ELSE Quiet

\* The first piece of a request that is text.
Give(x) ==
    /\ given' = [given EXCEPT ![Call(x)] = @ + 1]
    /\ missed' = missed \cup ({Call(x)} \cap deaf)

\* The upstream answers as it is meant to, with an error or in one piece.
Answer(x) ==
    /\ At(x, "sent") /\ x \notin over
    /\ \/ ~Served(x) /\ Fail(x, ErrorOf(upstream[Endpoint(x)], Request(x)))
       \/ Served(x) /\ ~Piecewise(x) /\ Succeed(x, TRUE)
    /\ Quiet /\ UNCHANGED <<memory, table, over, deaf, reader, external>>

\* Or in pieces.  Whitespace may come before the text, and is a piece.
Streams(x) == At(x, "sent") /\ Served(x) /\ Piecewise(x)
Read(x, text) == Change(x, [work[x] EXCEPT !.at = "reading", !.text = text])

Piece(x) ==
    /\ Streams(x) \/ (At(x, "reading") /\ ~work[x].text)
    /\ x \notin over /\ Takes(x)
    /\ \/ Read(x, TRUE) /\ Give(x)
       \/ At(x, "sent") /\ Read(x, FALSE) /\ UNCHANGED reader
    /\ UNCHANGED <<memory, table, over, deaf, external>>

\* onDelta does not take the next piece.
Refused(x) ==
    /\ Streams(x) \/ At(x, "reading")
    /\ x \notin over /\ Call(x) \in deaf
    /\ End(x, "fail")
    /\ Quiet /\ UNCHANGED <<memory, table, over, deaf, reader, external>>

\* The upstream does not answer as it is meant to.  An answer without text is
\* an answer if it is in one piece; a stream that breaks is one without a
\* reader as well, if it has brought something.
Misbehave(x) ==
    /\ At(x, "sent") /\ x \notin over /\ Fault(x)
    /\ \/ \E error \in Mishaps : Fail(x, error) /\ (error = "empty" => ~InOnePiece(x))
       \/ InOnePiece(x) /\ Succeed(x, FALSE)
       \/ work[x].kind = "stream" /\ ~work[x].streamed /\ Served(x) /\ End(x, "ok")
    /\ UNCHANGED <<memory, table, over, deaf, reader, external>>

\* Mutant of EndOfStream: a stream that breaks has failed.
RetryBrokenStream(x) ==
    /\ At(x, "reading") /\ x \notin over
    /\ \/ work[x].text /\ Succeed(x, TRUE) /\ Quiet
       \/ Fail(x, "broken") /\ Fault(x)
    /\ UNCHANGED <<memory, table, over, deaf, reader, external>>

\* A stream ends with text; with whitespace alone, which is an error although
\* the reader has it; or breaks: what came is the answer then, whitespace or
\* not, but the way it came is not remembered.
EndOfStream(x) ==
    /\ At(x, "reading") /\ x \notin over
    /\ \/ work[x].text /\ Succeed(x, TRUE) /\ Quiet
       \/ ~work[x].text /\ Fail(x, "empty") /\ Fault(x)
       \/ End(x, "ok") /\ Fault(x)
    /\ UNCHANGED <<memory, table, over, deaf, reader, external>>

\* rememberOpenAIEndpointAdaptation: under the mutex, then
\* persistOpenAIEndpointAdaptation with a context of its own, whose error is
\* dropped.
Remember(x) ==
    /\ At(x, "remember")
    /\ memory' = [memory EXCEPT ![Endpoint(x)] = Request(x)]
    /\ Change(x, [work[x] EXCEPT !.at = "save"])
    /\ UNCHANGED <<table, over, deaf, reader, faults, disturbed, external>>

Upsert(e, way) == table' = [table EXCEPT ![e] = way]

Save(x) ==
    /\ At(x, "save")
    /\ \/ Upsert(Endpoint(x), Request(x)) /\ Quiet
       \/ Fault(x) /\ UNCHANGED table
    /\ IF work[x].streamed /\ work[x].kind = "chat" /\ work[x].text
       THEN Change(x, [work[x] EXCEPT !.at = "give"])
       ELSE End(x, IF work[x].text THEN "ok" ELSE "empty")
    /\ UNCHANGED <<memory, over, deaf, reader, external>>

\* An answer in one piece that a streamed call fell back to is given to the
\* reader at the end.
GiveWhole(x) ==
    /\ At(x, "give")
    /\ \/ Takes(x) /\ Give(x) /\ End(x, "ok")
       \/ Call(x) \in deaf /\ End(x, "fail") /\ Quiet /\ UNCHANGED reader
    /\ UNCHANGED <<memory, table, over, deaf, external>>

\* Mutant of TimeOut: the attempt gets the context of the call.
NoTimeOut(x) == FALSE

\* providerRequestTimeout: an attempt that is not streamed takes two minutes
\* at most.
TimeOut(x) ==
    /\ At(x, "sent") /\ ~work[x].streamed /\ x \notin over
    /\ End(x, "retry")
    /\ disturbed' = disturbed \cup {x}
    /\ UNCHANGED <<memory, table, over, deaf, reader, faults, external>>

\* The request of a thread whose context is done returns, and a worker's
\* onDelta takes nothing more.
Interrupt(x) ==
    /\ Waiting(x) \/ At(x, "give")
    /\ x \in over
    /\ End(x, "fail")
    /\ disturbed' = disturbed \cup {x}
    /\ UNCHANGED <<memory, table, over, deaf, reader, faults, external>>

ThreadStep(x) ==
    \/ Answer(x) \/ Piece(x) \/ Refused(x) \/ Misbehave(x) \/ EndOfStream(x)
    \/ Remember(x) \/ Save(x) \/ GiveWhole(x) \/ TimeOut(x) \/ Interrupt(x)

-----------------------------------------------------------------------------
(* The endpoint comes to serve something else; the process is restarted    *)
(* and runs loadEndpointAdaptations.                                       *)

UpstreamChanges(e) ==
    /\ changes < MaxChanges /\ changes' = changes + 1
    /\ \E u \in Upstreams \ {upstream[e]} : upstream' = [upstream EXCEPT ![e] = u]
    /\ disturbed' = disturbed \cup {x \in Threads : Endpoint(x) = e}
    /\ UNCHANGED <<work, memory, table, over, deaf, reader, faults>>

RestartMemory ==
    /\ faults < MaxFaults /\ faults' = faults + 1
    /\ memory' = table
    /\ work' = [x \in Threads |-> Idle]
    /\ over' = {} /\ disturbed' = {} /\ deaf' = {}
    /\ UNCHANGED <<table, reader, external>>

-----------------------------------------------------------------------------
(* Properties.                                                             *)

\* What an undisturbed call, one without mishap, timeout or change of the
\* upstream while it ran, cannot get over: an answer in one piece when the
\* responses API is remembered but gone; a stream when the remembered URL
\* answers 404; an upstream that serves the responses API alone and does not
\* say so elsewhere.
BeyondRepair(x) ==
    LET u == upstream[Endpoint(x)]
        w == work[x]
    IN  \/ ~w.streamed /\ w.began.kind = "responses" /\ ~Serves(u, w.began)
        \/ w.streamed /\ w.began.kind \in {"chat", "stream"} /\ w.began.url # u.place
        \/ u.kinds = {"responses"} /\ ~u.hint

\* callOpenAICompatible, ...Stream: in every other case a call finds the way
\* the endpoint serves, whatever was remembered, by whichever call, before
\* the process started or since, and whatever others remember meanwhile.
AdaptationRecovers ==
    \A x \in Threads :
        /\ work[x].at \in {"retry", "fail"}
        /\ x \notin disturbed /\ Call(x) \notin deaf
        => BeyondRepair(x)
=============================================================================
