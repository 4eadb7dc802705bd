------------------------ MODULE ModelRouting_proofs ------------------------
(***************************************************************************)
(* That a reader is given one answer, that a call fails only after all its *)
(* endpoints did, and that an attempt finds the way its endpoint serves,   *)
(* for all parameters.                                                     *)
(*                                                                         *)
(* Three arguments share one invariant.  A thread runs only for the call   *)
(* that is at it (CallInv), so the one that gives text is the one all      *)
(* earlier text came from, and a thread that has delivered text gives no   *)
(* more and fails only where the run is stopped, so that the text of       *)
(* another request can come only through a failed check (GivenInv).  What a living call has put aside is hopeless: it      *)
(* failed and its attempts are used up (AsideInv).  And an undisturbed     *)
(* attempt is where the way its endpoint serves is still to be tried       *)
(* (LadderInv), which every error of the endpoint's own keeps true.        *)
(***************************************************************************)
EXTENDS ModelRouting, TLAPS

Places == {"v1", "bare"}
Ways == [kind : {"chat", "stream", "responses"}, url : Places] \cup {Nothing}
Lists == {<<"v1", "bare">>, <<"bare", "v1">>, <<"v1">>, <<"bare">>}
Stages == {"scan", "cached", "retry", "responses", "only"}
Works == [at : {"idle", "sent", "reading", "remember", "save", "give"} \cup Ended,
          stage : Stages \cup {"none"}, kind : {"chat", "stream", "responses", "messages", "none"},
          first : {"chat", "stream", "none"}, urls : Lists \cup {<<>>},
          streamed : BOOLEAN, kept : BOOLEAN, text : BOOLEAN, began : Ways]

\* Every variable has its type.
TypeOK ==
    /\ work \in [Threads -> Works]
    /\ memory \in [Endpoints -> Ways] /\ table \in [Endpoints -> Ways]
    /\ upstream \in [Endpoints -> Upstreams]
    /\ over \in SUBSET Threads /\ deaf \in SUBSET Calls
    /\ given \in [Calls -> Nat] /\ missed \in SUBSET Calls
    /\ faults \in Nat /\ changes \in Nat
    /\ disturbed \in SUBSET Threads
    /\ route \in Routes
    /\ phase \in [Calls -> {"new", "running", "ok", "failed", "lost"}]
    /\ next \in [Calls -> Nat] /\ \A c \in Calls : next[c] \in 1..route.size
    /\ attempts \in [Threads -> Nat]
    /\ canceled \in SUBSET Calls /\ taken \in SUBSET Threads

\* A thread that runs has a request to make.
Underway(w) ==
    /\ w.stage \in Stages /\ w.kind # "none" /\ w.urls # <<>>
    /\ w.kind = "messages" <=> w.stage = "only"
    /\ w.stage = "scan" => w.first # "none"
    /\ w.at \in {"remember", "save", "give"} => w.kind # "messages"
    /\ w.at = "give" => w.streamed
    /\ w.at = "reading" => w.streamed /\ w.kind # "chat"
WorkInv == \A x \in Threads : Running(x) => Underway(work[x])

\* A thread works for a call that runs, or for one of all its endpoints at
\* once; it has begun exactly if it was attempted.
CallInv ==
    \A x \in Threads : LET c == Call(x) IN
        /\ Running(x) => /\ work[x].streamed = Streamed(c)
                         /\ ~Concurrent => Active(c) /\ next[c] = Endpoint(x)
        /\ phase[c] # "lost" => (At(x, "idle") <=> attempts[x] = 0)
        /\ phase[c] = "new" => attempts[x] = 0 /\ x \notin taken /\ next[c] = 1
        /\ x \in over => c \in canceled \/ phase[c] \in {"ok", "failed", "lost"}

\* The text the reader of a call has got, it has got from the thread that the
\* call is at, which will give no more; or the run is stopped, and only a check
\* that fails lets text through.
Delivered(x) ==
    \/ At(x, "reading") /\ work[x].text
    \/ At(x, "ok")
    \/ work[x].at \in {"remember", "save"} /\ work[x].kind # "chat" /\ work[x].text
    \/ At(x, "fail") /\ x \in over
Once(c) ==
    given[c] # 0 /\ c \notin missed =>
        /\ given[c] = 1
        /\ Concurrent => phase[c] \in {"ok", "lost"}
        /\ Active(c) => Streamed(c) /\ (c \in deaf \/ Delivered(<<c, next[c]>>))
        /\ phase[c] # "new"
GivenInv == \A c \in Calls : Once(c)

\* What a call of a living context has put aside is a failure.
Hopeless(x) == work[x].at \in {"retry", "fail", "empty"} /\ ~MayTryAgain(x)
AsideInv ==
    \A x \in Threads : LET c == Call(x) IN
        Active(c) /\ c \notin canceled =>
            /\ Concurrent /\ x \in taken => Hopeless(x)
            /\ ~Concurrent /\ Endpoint(x) < next[c] => Hopeless(x)

\* Where a thread that nothing disturbs can be: the way its endpoint serves
\* is still to be tried.
LeftToTry(w, u) == Head(w.urls) = u.place \/ Len(w.urls) = 2
Hidden(u) == u.kinds = {"responses"} /\ ~u.hint
Next1(w) == [kind |-> w.kind, url |-> Head(w.urls)]
OnLadder(w, u) ==
    /\ w.stage = "cached" =>
           \/ /\ w.kind = "responses" /\ w.began.kind = "responses"
              /\ Serves(u, w.began) => Head(w.urls) = w.began.url
           \/ /\ w.kind \in {"chat", "stream"} /\ w.began.kind \in {"chat", "stream"}
              /\ w.urls = <<w.began.url>>
              /\ w.streamed => w.kind = "stream"
    /\ w.stage = "scan" =>
           /\ LeftToTry(w, u) \/ Hidden(u)
           /\ w.kind = w.first \/ (w.kind = "chat" /\ Serves(u, Next1(w)))
           /\ w.streamed => w.first = "stream"
    /\ w.stage = "retry" => w.kind = "stream" /\ Serves(u, Next1(w))
    /\ w.stage = "responses" =>
           w.kind = "responses" /\ u.kinds = {"responses"} /\ LeftToTry(w, u)
LadderInv ==
    \A x \in Threads : At(x, "sent") /\ x \notin disturbed /\ Call(x) \notin deaf =>
        OnLadder(work[x], upstream[Endpoint(x)])

IInv ==
    /\ TypeOK /\ WorkInv /\ CallInv
    /\ GivenInv /\ AsideInv /\ FailsOnlyWhenAllFail
    /\ LadderInv /\ AdaptationRecovers

-----------------------------------------------------------------------------
\* What the constants are, in the form the proofs use.
LEMMA Constants ==
    /\ Nothing \in Ways /\ Nothing.kind = "nothing"
    /\ \A m \in Ways : m # Nothing => m.kind \in {"chat", "stream", "responses"} /\ m.url \in Places
    /\ \A u \in Upstreams :
           /\ u.kinds \in SUBSET {"chat", "stream", "responses"} /\ u.kinds # {}
           /\ u.place \in Places /\ u.hint \in BOOLEAN
    /\ Endpoints \subseteq Nat
<1>1. Nothing \in Ways /\ Nothing.kind = "nothing"
  BY DEF Nothing, Ways
<1>2. \A m \in Ways : m # Nothing => m.kind \in {"chat", "stream", "responses"} /\ m.url \in Places
  BY DEF Ways
<1>3. ASSUME NEW u \in Upstreams
      PROVE  /\ u.kinds \in SUBSET {"chat", "stream", "responses"} /\ u.kinds # {}
             /\ u.place \in Places /\ u.hint \in BOOLEAN
  <2>1. u \in [kinds : (SUBSET {"chat", "stream", "responses"}) \ {{}},
               place : {"v1", "bare"}, hint : BOOLEAN]
    BY EndpointAssumption
  <2> QED BY <2>1 DEF Places
<1>4. Endpoints \subseteq Nat
  BY EndpointAssumption DEF Endpoints
<1> QED BY <1>1, <1>2, <1>3, <1>4

\* A thread is a call and an endpoint.
LEMMA Pairs ==
    /\ \A x \in Threads : Call(x) \in Calls /\ Endpoint(x) \in Endpoints /\ x = <<Call(x), Endpoint(x)>>
    /\ \A c \in Calls, e \in Endpoints :
           <<c, e>> \in Threads /\ Call(<<c, e>>) = c /\ Endpoint(<<c, e>>) = e
BY DEF Threads, Call, Endpoint

\* The lists of URLs a thread can have, and what is left of them after one URL.
LEMMA ListFacts ==
    /\ Candidates \in Lists /\ Len(Candidates) = 2
    /\ \A url \in Places : /\ Preferred(url) \in Lists /\ Head(Preferred(url)) = url
                           /\ Len(Preferred(url)) = 2
                           /\ <<url>> \in Lists /\ Head(<<url>>) = url /\ Len(<<url>>) = 1
    /\ \A l \in Lists :
           /\ l # <<>> /\ Head(l) \in Places /\ Len(l) \in {1, 2}
           /\ Len(l) > 1 => Tail(l) \in Lists /\ Len(Tail(l)) = 1 /\ Head(Tail(l)) # Head(l)
<1>1. Preferred("v1") = <<"v1", "bare">> /\ Preferred("bare") = <<"bare", "v1">>
  BY DEF Preferred
<1> QED BY <1>1 DEF Candidates, Lists, Places

\* Both URLs are tried, in an order the memory may turn around.
LEMMA CandidateFacts ==
    ASSUME TypeOK, NEW e \in Endpoints, NEW kinds \in SUBSET {"chat", "stream", "responses"}
    PROVE  CandidatesOf(e, kinds) \in Lists /\ Len(CandidatesOf(e, kinds)) = 2
<1>1. memory[e].kind \in kinds => memory[e].url \in Places
  BY Constants DEF TypeOK
<1> QED BY <1>1, ListFacts DEF CandidatesOf

\* A step of one thread leaves what the others do.
Others(x) ==
    /\ work' \in [Threads -> Works]
    /\ \A y \in Threads \ {x} : work'[y] = work[y]

\* A new record for one thread leaves those of the others.
LEMMA ChangeMoves ==
    ASSUME TypeOK, NEW x \in Threads, NEW w \in Works, Change(x, w)
    PROVE  Others(x) /\ work'[x] = w
BY DEF Change, TypeOK, Others

\* The record of a thread that does nothing.
LEMMA IdleTyped == Idle \in Works /\ Idle.at = "idle"
BY Constants DEF Idle, Works

\* The end of an attempt keeps how it began.
LEMMA EndMoves ==
    ASSUME TypeOK, NEW x \in Threads, NEW outcome \in Ended, End(x, outcome)
    PROVE  /\ Others(x) /\ work'[x].at = outcome
           /\ work'[x].began = work[x].began /\ work'[x].streamed = work[x].streamed
<1> DEFINE w == [Idle EXCEPT !.at = outcome, !.began = work[x].began, !.streamed = work[x].streamed]
<1>1. work[x] \in Works
  BY DEF TypeOK
<1>2. w \in Works /\ w.at = outcome /\ w.began = work[x].began /\ w.streamed = work[x].streamed
  BY <1>1, IdleTyped DEF Works
<1>3. Change(x, w)
  BY DEF End, Change
<1> HIDE DEF w
<1> QED BY <1>2, <1>3, ChangeMoves

\* A thread that stays with its call.
Stays(w, v) == v \in Works /\ v.streamed = w.streamed /\ v.began = w.began

\* A scan tries both URLs of /chat/completions, in pieces if the call is streamed.
LEMMA ScanTyped ==
    ASSUME TypeOK, NEW e \in Endpoints, NEW w \in Works
    PROVE  /\ Stays(w, Scan(w, e)) /\ Scan(w, e).at = w.at
           /\ Scan(w, e).stage = "scan" /\ Scan(w, e).kind = Scan(w, e).first
           /\ Scan(w, e).first \in {"chat", "stream"}
           /\ w.streamed => Scan(w, e).first = "stream"
           /\ Scan(w, e).urls \in Lists /\ Len(Scan(w, e).urls) = 2
<1> DEFINE first == IF ~w.streamed /\ memory[e].kind = "chat" THEN "chat" ELSE "stream"
           urls == IF w.streamed THEN Candidates ELSE CandidatesOf(e, {"chat", "stream"})
           v == [w EXCEPT !.stage = "scan", !.kind = first, !.first = first, !.urls = urls]
<1>1. Scan(w, e) = v
  BY DEF Scan
<1>2. first \in {"chat", "stream"} /\ (w.streamed => first = "stream")
  OBVIOUS
<1>3. urls \in Lists /\ Len(urls) = 2
  <2>1. {"chat", "stream"} \in SUBSET {"chat", "stream", "responses"}
    OBVIOUS
  <2> QED BY <2>1, ListFacts, CandidateFacts
<1> HIDE DEF first, urls
<1>4. /\ v \in Works /\ v.streamed = w.streamed /\ v.began = w.began /\ v.at = w.at
      /\ v.stage = "scan" /\ v.kind = first /\ v.first = first /\ v.urls = urls
  BY <1>2, <1>3 DEF Works, Stages
<1> HIDE DEF v
<1> QED BY <1>1, <1>2, <1>3, <1>4 DEF Stays

\* callOpenAICompatible: an attempt begins with what is remembered, on the ladder.
LEMMA MemoryTyped ==
    ASSUME TypeOK, NEW e \in Endpoints, NEW w \in Works, w.at = "sent", w.began = memory[e]
    PROVE  /\ Stays(w, FromMemory(w, e)) /\ FromMemory(w, e).at = "sent" /\ Underway(FromMemory(w, e))
           /\ \A u \in Upstreams : OnLadder(FromMemory(w, e), u)
<1> DEFINE known == memory[e]
           v == FromMemory(w, e)
<1>1. CASE known = Nothing
  <2>1. v = Scan(w, e)
    BY <1>1, Constants DEF FromMemory
  <2>2. Underway(v)
    BY <2>1, ScanTyped, ListFacts DEF Underway, Stages
  <2>3. \A u : OnLadder(v, u)
    BY <2>1, ScanTyped DEF OnLadder, LeftToTry, Stays
  <2> QED BY <2>1, <2>2, <2>3, ScanTyped
<1>2. CASE known # Nothing /\ known.kind = "responses"
  <2>1. v = [w EXCEPT !.stage = "cached", !.kind = "responses", !.urls = Preferred(known.url)]
    BY <1>2 DEF FromMemory
  <2>2. known.url \in Places /\ Preferred(known.url) \in Lists /\ Head(Preferred(known.url)) = known.url
    BY <1>2, Constants, ListFacts DEF TypeOK
  <2>3. /\ v \in Works /\ v.streamed = w.streamed /\ v.began = w.began /\ v.at = w.at
        /\ v.stage = "cached" /\ v.kind = "responses" /\ v.urls = Preferred(known.url)
    BY <2>1, <2>2 DEF Works, Stages
  <2> HIDE DEF v
  <2>4. Underway(v)
    BY <2>2, <2>3, ListFacts DEF Underway, Stages
  <2>5. \A u : OnLadder(v, u)
    BY <2>2, <2>3, <1>2 DEF OnLadder
  <2> QED BY <2>3, <2>4, <2>5 DEF Stays, v
<1>3. CASE known # Nothing /\ known.kind # "responses"
  <2> DEFINE kind == IF w.streamed THEN "stream" ELSE known.kind
  <2>1. v = [w EXCEPT !.stage = "cached", !.urls = <<known.url>>, !.kind = kind]
    BY <1>3 DEF FromMemory
  <2>2. /\ known.url \in Places /\ <<known.url>> \in Lists /\ known.kind \in {"chat", "stream"}
        /\ kind \in {"chat", "stream"} /\ (w.streamed => kind = "stream")
    BY <1>3, Constants, ListFacts DEF TypeOK
  <2> HIDE DEF kind
  <2>3. /\ v \in Works /\ v.streamed = w.streamed /\ v.began = w.began /\ v.at = w.at
        /\ v.stage = "cached" /\ v.kind = kind /\ v.urls = <<known.url>>
    BY <2>1, <2>2 DEF Works, Stages
  <2> HIDE DEF v
  <2>4. Underway(v)
    BY <2>2, <2>3, ListFacts DEF Underway, Stages
  <2>5. \A u : OnLadder(v, u)
    BY <2>2, <2>3 DEF OnLadder
  <2> QED BY <2>3, <2>4, <2>5 DEF Stays, v
<1> QED BY <1>1, <1>2, <1>3

\* The start of an attempt.
LEMMA BeginMoves ==
    ASSUME TypeOK, NEW x \in Threads, NEW streamed \in BOOLEAN, NEW anthropic, Begin(x, streamed, anthropic)
    PROVE  /\ Others(x) /\ work'[x].at = "sent" /\ work'[x].streamed = streamed
           /\ Underway(work'[x]) /\ \A u \in Upstreams : OnLadder(work'[x], u)
<1> DEFINE e == Endpoint(x)
           w == [Idle EXCEPT !.at = "sent", !.streamed = streamed, !.began = memory[e]]
<1>1. e \in Endpoints
  BY Pairs
<1>2. w \in Works /\ w.at = "sent" /\ w.streamed = streamed /\ w.began = memory[e]
  BY <1>1, IdleTyped DEF Works, TypeOK
<1>3. Change(x, IF anthropic THEN Messages(w) ELSE FromMemory(w, e))
  BY DEF Begin
<1> HIDE DEF w, e
<1>4. CASE anthropic
  <2>1. /\ Messages(w) \in Works /\ Messages(w).at = "sent" /\ Messages(w).streamed = streamed
        /\ Messages(w).stage = "only" /\ Messages(w).kind = "messages" /\ Messages(w).urls = <<"bare">>
    BY <1>2 DEF Messages, Works, Stages, Lists
  <2>2. Underway(Messages(w)) /\ \A u : OnLadder(Messages(w), u)
    BY <2>1 DEF Underway, OnLadder, Stages
  <2> QED BY <1>3, <1>4, <2>1, <2>2, ChangeMoves
<1>5. CASE ~anthropic
  <2>1. /\ FromMemory(w, e) \in Works /\ FromMemory(w, e).at = "sent"
        /\ FromMemory(w, e).streamed = streamed
        /\ Underway(FromMemory(w, e)) /\ \A u \in Upstreams : OnLadder(FromMemory(w, e), u)
    BY <1>1, <1>2, MemoryTyped DEF Stays
  <2> QED BY <1>3, <1>5, <2>1, ChangeMoves
<1> QED BY <1>4, <1>5

\* Where an error leads.
Outcome(w, error, v) ==
    \/ /\ ToResponses(w, error) \/ ToResponsesAfterAll(w, error)
       /\ v.at = w.at /\ v.stage = "responses" /\ v.kind = "responses"
       /\ v.urls \in Lists /\ Len(v.urls) = 2
    \/ /\ ToStream(w, error)
       /\ v.at = w.at /\ v.stage = "retry" /\ v.kind = "stream" /\ v.urls = w.urls
    \/ /\ ToChat(w, error)
       /\ v.at = w.at /\ v.stage = w.stage /\ v.kind = "chat" /\ v.urls = w.urls /\ v.first = w.first
    \/ /\ ToNextURL(w, error)
       /\ v.at = w.at /\ v.stage = w.stage /\ v.urls = Tail(w.urls) /\ v.first = w.first
       /\ v.kind = IF w.stage = "scan" THEN w.first ELSE w.kind
    \/ /\ ToScan(w, error)
       /\ v.at = w.at /\ v.stage = "scan" /\ v.kind = v.first /\ v.first \in {"chat", "stream"}
       /\ w.streamed => v.first = "stream"
       /\ v.urls \in Lists /\ Len(v.urls) = 2
    \/ ~Onward(w, error) /\ v.at \in {"retry", "fail"}

\* A thread as if it had just sent its request, which its error finds it as.
LEMMA SendingTyped ==
    ASSUME TypeOK, NEW x \in Threads, Waiting(x), Underway(work[x])
    PROVE  /\ Sending(work[x]) \in Works /\ Sending(work[x]).at = "sent" /\ Underway(Sending(work[x]))
           /\ Sending(work[x]).streamed = work[x].streamed /\ Sending(work[x]).began = work[x].began
           /\ At(x, "sent") => Sending(work[x]) = work[x]
<1> DEFINE w == work[x]
           v == [w EXCEPT !.at = "sent"]
<1>1. w \in Works /\ Underway(w)
  BY DEF TypeOK
<1> HIDE DEF w
<1>2. /\ v \in Works /\ v.at = "sent" /\ v.stage = w.stage /\ v.kind = w.kind /\ v.urls = w.urls
      /\ v.first = w.first /\ v.streamed = w.streamed /\ v.began = w.began
  BY <1>1 DEF Works
<1>3. w.at = "sent" => v = w
  BY <1>1 DEF Works
<1> HIDE DEF v
<1>4. Underway(v)
  BY <1>1, <1>2 DEF Underway
<1> QED BY <1>2, <1>3, <1>4 DEF Sending, At, v, w

\* An error leads to one of the six places Outcome lists.
LEMMA FailMoves ==
    ASSUME TypeOK, NEW x \in Threads, Waiting(x), Underway(work[x]), NEW error, Fail(x, error)
    PROVE  Others(x) /\ Stays(work[x], work'[x]) /\ Outcome(Sending(work[x]), error, work'[x])
<1> DEFINE w == Sending(work[x])
           e == Endpoint(x)
<1>0. /\ w \in Works /\ Underway(w) /\ w.streamed = work[x].streamed /\ w.began = work[x].began
      /\ w.at = "sent"
  BY SendingTyped
<1>1. w \in Works /\ e \in Endpoints /\ w.urls \in Lists
  BY <1>0, Pairs DEF Underway, Works
<1>2. CASE /\ ToResponses(w, error) \/ ToResponsesAfterAll(w, error)
           /\ Change(x, [w EXCEPT !.stage = "responses", !.kind = "responses",
                                  !.urls = CandidatesOf(e, {"responses"}),
                                  !.kept = w.stage = "retry" \/ error = "gateway"])
  <2> DEFINE urls == CandidatesOf(e, {"responses"})
             kept == w.stage = "retry" \/ error = "gateway"
             v == [w EXCEPT !.stage = "responses", !.kind = "responses", !.urls = urls, !.kept = kept]
  <2>1. urls \in Lists /\ Len(urls) = 2
    BY <1>1, CandidateFacts
  <2>2. kept \in BOOLEAN
    OBVIOUS
  <2> HIDE DEF w, urls, kept
  <2>3. /\ v \in Works /\ v.streamed = w.streamed /\ v.began = w.began /\ v.at = w.at
        /\ v.stage = "responses" /\ v.kind = "responses" /\ v.urls = urls
    BY <1>1, <2>1, <2>2 DEF Works, Stages
  <2>4. Change(x, v)
    BY <1>2 DEF w, urls, kept
  <2> HIDE DEF v
  <2>5. Others(x) /\ work'[x] = v
    BY <2>3, <2>4, ChangeMoves
  <2>6. Stays(w, v) /\ Outcome(w, error, v)
    BY <1>2, <2>1, <2>3 DEF Stays, Outcome
  <2> QED BY <1>0, <2>5, <2>6 DEF w, Stays
<1>3. CASE ToStream(w, error) /\ Change(x, [w EXCEPT !.stage = "retry", !.kind = "stream"])
  <2> DEFINE v == [w EXCEPT !.stage = "retry", !.kind = "stream"]
  <2> HIDE DEF w
  <2>1. /\ v \in Works /\ v.streamed = w.streamed /\ v.began = w.began /\ v.at = w.at
        /\ v.stage = "retry" /\ v.kind = "stream" /\ v.urls = w.urls
    BY <1>1 DEF Works, Stages
  <2>2. Change(x, v)
    BY <1>3
  <2> HIDE DEF v
  <2>3. Others(x) /\ work'[x] = v
    BY <2>1, <2>2, ChangeMoves
  <2>4. Stays(w, v) /\ Outcome(w, error, v)
    BY <1>3, <2>1 DEF Stays, Outcome
  <2> QED BY <1>0, <2>3, <2>4 DEF w, Stays
<1>4. CASE ToChat(w, error) /\ Change(x, [w EXCEPT !.kind = "chat"])
  <2> DEFINE v == [w EXCEPT !.kind = "chat"]
  <2> HIDE DEF w
  <2>1. /\ v \in Works /\ v.streamed = w.streamed /\ v.began = w.began /\ v.at = w.at
        /\ v.stage = w.stage /\ v.kind = "chat" /\ v.urls = w.urls /\ v.first = w.first
    BY <1>1 DEF Works
  <2>2. Change(x, v)
    BY <1>4
  <2> HIDE DEF v
  <2>3. Others(x) /\ work'[x] = v
    BY <2>1, <2>2, ChangeMoves
  <2>4. Stays(w, v) /\ Outcome(w, error, v)
    BY <1>4, <2>1 DEF Stays, Outcome
  <2> QED BY <1>0, <2>3, <2>4 DEF w, Stays
<1>5. CASE /\ ToNextURL(w, error)
           /\ Change(x, [w EXCEPT !.urls = Tail(w.urls),
                                  !.kind = IF w.stage = "scan" THEN w.first ELSE w.kind])
  <2> DEFINE kind == IF w.stage = "scan" THEN w.first ELSE w.kind
             v == [w EXCEPT !.urls = Tail(w.urls), !.kind = kind]
  <2> HIDE DEF w
  <2>0. Tail(w.urls) \in Lists
    BY <1>1, <1>5, ListFacts DEF ToNextURL
  <2>1. kind \in {"chat", "stream", "responses", "messages", "none"}
    BY <1>1 DEF Works
  <2> HIDE DEF kind
  <2>2. /\ v \in Works /\ v.streamed = w.streamed /\ v.began = w.began /\ v.at = w.at
        /\ v.stage = w.stage /\ v.kind = kind /\ v.urls = Tail(w.urls) /\ v.first = w.first
    BY <1>1, <2>0, <2>1 DEF Works
  <2>3. Change(x, v)
    BY <1>5 DEF kind
  <2> HIDE DEF v
  <2>4. Others(x) /\ work'[x] = v
    BY <2>2, <2>3, ChangeMoves
  <2>5. Stays(w, v) /\ Outcome(w, error, v)
    BY <1>5, <2>2 DEF Stays, Outcome, kind
  <2> QED BY <1>0, <2>4, <2>5 DEF w, Stays
<1>6. CASE ToScan(w, error) /\ Change(x, Scan(w, e))
  <2> DEFINE v == Scan(w, e)
  <2> HIDE DEF w
  <2>1. /\ Stays(w, v) /\ v.at = w.at /\ v.stage = "scan" /\ v.kind = v.first
        /\ v.first \in {"chat", "stream"} /\ (w.streamed => v.first = "stream")
        /\ v.urls \in Lists /\ Len(v.urls) = 2
    BY <1>1, ScanTyped
  <2>2. Change(x, v)
    BY <1>6
  <2> HIDE DEF v
  <2>3. Others(x) /\ work'[x] = v
    BY <2>1, <2>2, ChangeMoves DEF Stays
  <2>4. Outcome(w, error, v)
    BY <1>6, <2>1 DEF Outcome
  <2> QED BY <1>0, <2>1, <2>3, <2>4 DEF w, Stays
<1>7. CASE ~Onward(w, error) /\ \E outcome \in {"retry", "fail"} : End(x, outcome)
  <2>1. PICK outcome \in {"retry", "fail"} : End(x, outcome)
    BY <1>7
  <2>2. /\ Others(x) /\ work'[x].at = outcome
        /\ work'[x].began = work[x].began /\ work'[x].streamed = work[x].streamed
    BY <2>1, EndMoves DEF Ended
  <2>3. work'[x] \in Works
    BY <2>2 DEF Others
  <2> QED BY <1>7, <2>2, <2>3 DEF Stays, Outcome
<1> QED BY <1>2, <1>3, <1>4, <1>5, <1>6, <1>7 DEF Fail, w

\* Wherever it leads, there is a request to make, or the attempt is over.
LEMMA OutcomeUnderway ==
    ASSUME NEW w \in Works, NEW v \in Works, NEW error, w.at = "sent", Underway(w), Outcome(w, error, v)
    PROVE  \/ v.at = "sent" /\ Underway(v)
           \/ v.at \in {"retry", "fail"}
<1>1. CASE ToNextURL(w, error) /\ v.at = w.at /\ v.stage = w.stage /\ v.urls = Tail(w.urls) /\ v.first = w.first
           /\ v.kind = IF w.stage = "scan" THEN w.first ELSE w.kind
  <2>1. v.urls # <<>>
    BY <1>1, ListFacts DEF ToNextURL, Works, Underway
  <2> QED BY <1>1, <2>1 DEF Underway, Stages, Works
<1> QED BY <1>1, ListFacts DEF Outcome, Underway, Stages, ToStream, ToChat

\* Which error the upstream answers, when it does not serve a request, and what
\* it does serve then.
LEMMA ErrorFacts ==
    ASSUME NEW u \in Upstreams, NEW r, r.kind \in {"chat", "stream", "responses"}, ~Serves(u, r)
    PROVE  /\ r.kind = "responses" => ErrorOf(u, r) = "notfound"
           /\ r.url # u.place => ErrorOf(u, r) = "notfound"
           /\ r.kind # "responses" /\ r.url = u.place =>
                  \/ u.kinds = {"responses"} /\ u.hint /\ ErrorOf(u, r) = "useresponses"
                  \/ Hidden(u) /\ ErrorOf(u, r) = "notfound"
                  \/ u.kinds # {"responses"} /\ r.kind = "stream" /\ ErrorOf(u, r) = "nostream"
                     /\ "chat" \in u.kinds
                  \/ u.kinds # {"responses"} /\ r.kind = "chat" /\ ErrorOf(u, r) = "gateway"
                     /\ "stream" \in u.kinds
<1>1. u.kinds \in SUBSET {"chat", "stream", "responses"} /\ u.kinds # {} /\ u.hint \in BOOLEAN
  BY Constants
<1>2. r.kind = "responses" \/ r.url # u.place => ErrorOf(u, r) = "notfound"
  BY DEF ErrorOf
<1>3. CASE r.kind # "responses" /\ r.url = u.place /\ u.kinds = {"responses"}
  BY <1>1, <1>3 DEF ErrorOf, Hidden
<1>4. CASE r.kind = "stream" /\ r.url = u.place /\ u.kinds # {"responses"}
  <2>1. "stream" \notin u.kinds
    BY <1>4 DEF Serves
  <2>2. "chat" \in u.kinds
    BY <1>1, <1>4, <2>1
  <2>3. ErrorOf(u, r) = "nostream"
    BY <1>4 DEF ErrorOf
  <2> QED BY <1>4, <2>2, <2>3
<1>5. CASE r.kind = "chat" /\ r.url = u.place /\ u.kinds # {"responses"}
  <2>1. "chat" \notin u.kinds
    BY <1>5 DEF Serves
  <2>2. "stream" \in u.kinds
    BY <1>1, <1>5, <2>1
  <2>3. ErrorOf(u, r) = "gateway"
    BY <1>5 DEF ErrorOf
  <2> QED BY <1>5, <2>2, <2>3
<1> QED BY <1>2, <1>3, <1>4, <1>5

\* BeyondRepair, of what a thread has and what its endpoint serves.
Beyond(w, u) ==
    \/ ~w.streamed /\ w.began.kind = "responses" /\ ~Serves(u, w.began)
    \/ w.streamed /\ w.began.kind \in {"chat", "stream"} /\ w.began.url # u.place
    \/ u.kinds = {"responses"} /\ ~u.hint

\* The heart of AdaptationRecovers.  An attempt that nothing disturbs meets only
\* the error its endpoint gives by design; that error leads to where what the
\* endpoint serves is still to be tried, or the attempt was beyond repair.
LEMMA Ladder ==
    ASSUME NEW u \in Upstreams, NEW w \in Works, NEW v \in Works, w.at = "sent", Underway(w),
           OnLadder(w, u), ~Serves(u, Next1(w)), Stays(w, v), Outcome(w, ErrorOf(u, Next1(w)), v)
    PROVE  /\ v.at = "sent" => OnLadder(v, u)
           /\ v.at \in {"retry", "fail"} => Beyond(v, u)
<1> DEFINE error == ErrorOf(u, Next1(w))
           url == Head(w.urls)
<1>1. w.urls \in Lists /\ url \in Places /\ Len(w.urls) \in {1, 2} /\ u.place \in Places
  BY Constants, ListFacts DEF Works, Underway
<1>2. Len(w.urls) > 1 => Tail(w.urls) \in Lists /\ Len(Tail(w.urls)) = 1
                         /\ (url # u.place => Head(Tail(w.urls)) = u.place)
  BY <1>1, ListFacts DEF Places
<1>3. Next1(w).kind = w.kind /\ Next1(w).url = url
  BY DEF Next1
<1>4. \A k, l : Serves(u, [kind |-> k, url |-> l]) <=> k = "messages" \/ (k \in u.kinds /\ l = u.place)
  BY DEF Serves
<1>5. v.streamed = w.streamed /\ v.began = w.began
  BY DEF Stays
<1>6. w.stage # "only"
  BY <1>3 DEF Underway, Serves
<1>7. w.kind \in {"chat", "stream", "responses"}
  BY <1>6 DEF Underway, Works
<1>e. /\ w.kind = "responses" => error = "notfound"
      /\ url # u.place => error = "notfound"
      /\ w.kind # "responses" /\ url = u.place =>
             \/ u.kinds = {"responses"} /\ u.hint /\ error = "useresponses"
             \/ Hidden(u) /\ error = "notfound"
             \/ u.kinds # {"responses"} /\ w.kind = "stream" /\ error = "nostream" /\ "chat" \in u.kinds
             \/ u.kinds # {"responses"} /\ w.kind = "chat" /\ error = "gateway" /\ "stream" \in u.kinds
  BY <1>3, <1>7, ErrorFacts
<1>o. Outcome(w, error, v)
  OBVIOUS
<1> HIDE DEF error, url
<1>n. w.kind = "responses" => ~(u.place = url /\ "responses" \in u.kinds)
  BY <1>3 DEF Serves
<1>s. ~(w.kind \in u.kinds /\ url = u.place)
  BY <1>3 DEF Serves
<1>8. ASSUME ToResponses(w, error) \/ ToResponsesAfterAll(w, error)
      PROVE  u.kinds = {"responses"} /\ w.stage # "retry"
  <2>1. w.stage # "retry"
    BY <1>3 DEF OnLadder
  <2>2. ToResponses(w, error)
    BY <1>8, <2>1 DEF ToResponsesAfterAll
  <2>3. error \in {"useresponses", "gateway"} /\ w.kind \in {"chat", "stream"}
    BY <2>2 DEF ToResponses
  <2>4. CASE error = "useresponses"
    BY <2>1, <2>3, <2>4, <1>e
  <2>5. CASE error = "gateway"
    <3>1. w.kind = "chat" /\ u.kinds # {"responses"} /\ url = u.place
      BY <2>3, <2>5, <1>e
    <3>2. w.streamed
      BY <2>2, <2>5, <3>1 DEF ToResponses
    <3>3. w.stage = "scan"
      BY <2>1, <3>1, <3>2, <1>6 DEF OnLadder, Underway, Stages
    <3>4. FALSE
      BY <3>1, <3>2, <3>3, <1>3 DEF OnLadder
    <3> QED BY <3>4
  <2> QED BY <2>3, <2>4, <2>5
<1>9. ASSUME ToStream(w, error)
      PROVE  "stream" \in u.kinds /\ url = u.place
  BY <1>9, <1>e DEF ToStream
<1>10. ASSUME ToChat(w, error)
       PROVE  "chat" \in u.kinds /\ url = u.place
  BY <1>10, <1>e DEF ToChat
<1>11. ASSUME v.at = "sent"
       PROVE  OnLadder(v, u)
  <2>1. CASE /\ ToResponses(w, error) \/ ToResponsesAfterAll(w, error)
             /\ v.stage = "responses" /\ v.kind = "responses"
             /\ v.urls \in Lists /\ Len(v.urls) = 2
    BY <2>1, <1>8, <1>11 DEF OnLadder, LeftToTry
  <2>2. CASE ToStream(w, error) /\ v.stage = "retry" /\ v.kind = "stream" /\ v.urls = w.urls
    BY <2>2, <1>9, <1>11 DEF OnLadder, Serves, Next1, url
  <2>3. CASE /\ ToChat(w, error)
             /\ v.stage = w.stage /\ v.kind = "chat" /\ v.urls = w.urls /\ v.first = w.first
    BY <2>3, <1>10, <1>5, <1>11 DEF OnLadder, LeftToTry, Serves, Next1, url, ToChat
  <2>4. CASE /\ ToNextURL(w, error)
             /\ v.stage = w.stage /\ v.urls = Tail(w.urls) /\ v.first = w.first
             /\ v.kind = IF w.stage = "scan" THEN w.first ELSE w.kind
    <3>1. Len(w.urls) > 1 /\ (w.stage = "scan" \/ w.kind = "responses")
      BY <2>4 DEF ToNextURL
    <3>2. CASE w.stage = "scan"
      <4>1. url # u.place \/ Hidden(u)
        <5>1. w.kind # "responses"
          BY <3>2, <1>s, <1>3 DEF OnLadder, Underway, Works
        <5> QED BY <2>4, <5>1, <1>e, <1>7 DEF ToNextURL
      <4>2. LeftToTry(v, u) \/ Hidden(u)
        BY <4>1, <2>4, <3>1, <1>2 DEF LeftToTry
      <4> QED BY <4>2, <2>4, <3>2, <1>5 DEF OnLadder
    <3>3. CASE w.stage = "cached"
      <4>1. w.kind = "responses" /\ w.began.kind = "responses" /\ ~Serves(u, w.began)
        BY <3>1, <3>3, <1>n DEF OnLadder, Serves, url
      <4> QED BY <4>1, <2>4, <3>3, <1>5 DEF OnLadder
    <3>4. CASE w.stage = "responses"
      <4>1. w.kind = "responses" /\ u.kinds = {"responses"} /\ url # u.place
        BY <3>4, <1>n DEF OnLadder
      <4>2. LeftToTry(v, u)
        BY <4>1, <2>4, <3>1, <1>2 DEF LeftToTry
      <4> QED BY <4>1, <4>2, <2>4, <3>4 DEF OnLadder
    <3> QED BY <3>1, <3>2, <3>3, <3>4, <1>6 DEF Underway, Stages, OnLadder
  <2>5. CASE /\ ToScan(w, error)
             /\ v.stage = "scan" /\ v.kind = v.first /\ v.first \in {"chat", "stream"}
             /\ w.streamed => v.first = "stream"
             /\ v.urls \in Lists /\ Len(v.urls) = 2
    BY <2>5, <1>5 DEF OnLadder, LeftToTry
  <2> QED BY <1>o, <1>11, <2>1, <2>2, <2>3, <2>4, <2>5 DEF Outcome
<1>12. ASSUME v.at \in {"retry", "fail"}
       PROVE  Beyond(v, u)
  <2>1. ~Onward(w, error)
    BY <1>o, <1>12 DEF Outcome
  <2>2. /\ ~ToResponses(w, error) /\ ~ToStream(w, error) /\ ~ToChat(w, error)
        /\ ~ToNextURL(w, error) /\ ~ToScan(w, error)
    BY <2>1 DEF Onward
  <2>3. SUFFICES ASSUME ~Hidden(u)
                 PROVE  Beyond(w, u)
    BY <1>5, <1>12 DEF Beyond, Hidden
  <2>4. CASE w.stage = "cached" /\ w.kind = "responses"
    <3>1. w.began.kind = "responses" /\ ~Serves(u, w.began) /\ error = "notfound"
      BY <2>4, <1>n, <1>e DEF OnLadder, Serves, url
    <3>2. ~w.streamed
      BY <2>2, <2>4, <3>1 DEF ToScan
    <3> QED BY <3>1, <3>2 DEF Beyond
  <2>5. CASE w.stage = "cached" /\ w.kind # "responses"
    <3>1. /\ w.kind \in {"chat", "stream"} /\ w.began.kind \in {"chat", "stream"}
          /\ url = w.began.url /\ (w.streamed => w.kind = "stream")
      BY <2>5, ListFacts DEF OnLadder, url
    <3>2. CASE error = "notfound"
      <4>1. w.streamed /\ url # u.place
        BY <3>1, <3>2, <2>2, <2>3, <2>5, <1>e DEF ToScan, Works
      <4> QED BY <4>1, <3>1 DEF Beyond
    <3>3. error # "useresponses"
      BY <2>2, <3>1 DEF ToResponses
    <3>4. error # "nostream"
      BY <2>2, <2>5, <3>1 DEF ToScan, Works
    <3>5. error # "gateway"
      BY <2>2, <3>1, <1>e DEF ToStream, Works
    <3> QED BY <3>1, <3>2, <3>3, <3>4, <3>5, <1>e
  <2>6. CASE w.stage = "scan"
    <3>1. /\ LeftToTry(w, u) /\ w.kind \in {"chat", "stream"}
          /\ (w.kind = w.first) /\ (w.streamed => w.first = "stream")
      BY <2>6, <2>3, <1>7, <1>s DEF OnLadder, Serves, Next1, Underway, Works
    <3>2. error # "useresponses"
      BY <2>2, <3>1 DEF ToResponses
    <3>3. error # "nostream"
      BY <2>2, <2>6, <3>1, <1>e DEF ToChat
    <3>4. error # "gateway"
      BY <2>2, <3>1, <1>e DEF ToStream, Works
    <3>5. url # u.place /\ error = "notfound"
      BY <2>3, <3>1, <3>2, <3>3, <3>4, <1>e
    <3>6. Len(w.urls) = 2
      BY <3>1, <3>5 DEF LeftToTry, url
    <3>7. ~(w.streamed /\ w.kind = "chat")
      BY <3>1
    <3> QED BY <2>2, <2>6, <3>5, <3>6, <3>7 DEF ToNextURL
  <2>7. CASE w.stage = "retry"
    BY <2>7 DEF OnLadder
  <2>8. CASE w.stage = "responses"
    <3>1. w.kind = "responses" /\ u.kinds = {"responses"} /\ url # u.place /\ error = "notfound"
      BY <2>8, <1>n, <1>e DEF OnLadder
    <3>2. Len(w.urls) = 2
      BY <2>8, <3>1 DEF LeftToTry, OnLadder, url
    <3> QED BY <2>2, <3>1, <3>2 DEF ToNextURL
  <2> QED BY <2>4, <2>5, <2>6, <2>7, <2>8, <1>6 DEF Underway, Stages
<1> QED BY <1>11, <1>12

-----------------------------------------------------------------------------
\* A complete answer ends the attempt, or is remembered first.
LEMMA SucceedMoves ==
    ASSUME TypeOK, NEW x \in Threads, Waiting(x), Underway(work[x]),
           NEW text \in BOOLEAN, Succeed(x, text)
    PROVE  /\ Others(x) /\ Stays(work[x], work'[x])
           /\ \/ /\ work[x].kind = "messages"
                 /\ work'[x].at = IF text THEN "ok" ELSE "empty"
              \/ /\ work[x].kind # "messages" /\ work'[x].at = "remember"
                 /\ work'[x].kind = work[x].kind /\ work'[x].text = text
                 /\ Underway(work'[x])
<1>1. work[x] \in Works
  BY DEF TypeOK
<1>2. CASE work[x].kind = "messages"
  <2>1. PICK outcome \in {"ok", "empty"} :
            outcome = (IF text THEN "ok" ELSE "empty") /\ End(x, outcome)
    BY <1>2 DEF Succeed
  <2>2. Others(x) /\ work'[x].at = outcome
        /\ work'[x].began = work[x].began /\ work'[x].streamed = work[x].streamed
    BY <2>1, EndMoves DEF Ended
  <2> QED BY <1>2, <2>1, <2>2 DEF Stays, Others
<1>3. CASE work[x].kind # "messages"
  <2> DEFINE w == work[x]
             v == [w EXCEPT !.at = "remember", !.text = text]
  <2>1. Change(x, v) /\ w \in Works /\ Underway(w)
    BY <1>1, <1>3 DEF Succeed
  <2> HIDE DEF w
  <2>2. /\ v \in Works /\ v.streamed = w.streamed /\ v.began = w.began
        /\ v.at = "remember" /\ v.kind = w.kind /\ v.text = text /\ v.stage = w.stage
        /\ v.urls = w.urls /\ v.first = w.first
    BY <2>1 DEF Works
  <2> HIDE DEF v
  <2>3. Others(x) /\ work'[x] = v
    BY <2>1, <2>2, ChangeMoves
  <2>4. w.kind # "messages"
    BY <1>3 DEF w
  <2>5. Underway(v)
    BY <2>1, <2>2, <2>4 DEF Underway
  <2> QED BY <2>2, <2>3, <2>4, <2>5 DEF w, Stays
<1> QED BY <1>2, <1>3

\* What a step of a thread does to its work.
WorkMoves(x) ==
    /\ Others(x) /\ Stays(work[x], work'[x]) /\ work'[x].at # "idle"
    /\ work'[x].at \in {"sent", "reading", "remember", "save", "give"} => Underway(work'[x])

\* To what the process knows and what has gone wrong.
FrameMoves(x) ==
    /\ memory' \in [Endpoints -> Ways] /\ table' \in [Endpoints -> Ways]
    /\ faults' \in Nat /\ disturbed' \in SUBSET Threads /\ disturbed \subseteq disturbed'
    /\ UNCHANGED <<over, deaf, upstream, changes>>

\* To what the reader has got.
GivenMoves(x) ==
    \/ UNCHANGED reader /\ (Delivered(x) => Delivered(x)' \/ Call(x) \in deaf)
    \/ Give(x) /\ ~Delivered(x) /\ Delivered(x)' /\ work[x].streamed

\* To the search of a way that serves.
LadderMoves(x) ==
    x \notin disturbed' /\ Call(x) \notin deaf =>
        /\ work'[x].at = "sent" => OnLadder(work'[x], upstream[Endpoint(x)])
        /\ work'[x].at \in {"retry", "fail"} => Beyond(work'[x], upstream[Endpoint(x)])

Moved(x) == WorkMoves(x) /\ FrameMoves(x) /\ GivenMoves(x) /\ LadderMoves(x)

\* The counters of what went wrong.
LEMMA FaultTyped ==
    ASSUME TypeOK, NEW x \in Threads, Fault(x) \/ Quiet
    PROVE  faults' \in Nat /\ disturbed' \in SUBSET Threads /\ disturbed \subseteq disturbed'
BY DEF TypeOK, Fault, Quiet

\* The end of an attempt, as a step of a thread.
LEMMA EndWork ==
    ASSUME TypeOK, NEW x \in Threads, NEW outcome \in Ended, End(x, outcome)
    PROVE  WorkMoves(x) /\ work'[x].at = outcome
<1>1. Others(x) /\ work'[x].at = outcome
      /\ work'[x].began = work[x].began /\ work'[x].streamed = work[x].streamed
  BY EndMoves
<1> QED BY <1>1 DEF WorkMoves, Stays, Others, Ended

\* An error, as a step of a thread.
LEMMA FailWork ==
    ASSUME TypeOK, NEW x \in Threads, Waiting(x), Underway(work[x]), NEW error, Fail(x, error)
    PROVE  WorkMoves(x) /\ work'[x].at \in {"sent", "retry", "fail"}
<1>1. Others(x) /\ Stays(work[x], work'[x]) /\ Outcome(Sending(work[x]), error, work'[x])
  BY FailMoves
<1>2. /\ Sending(work[x]) \in Works /\ Underway(Sending(work[x])) /\ Sending(work[x]).at = "sent"
      /\ work'[x] \in Works
  BY <1>1, SendingTyped DEF Stays
<1>3. (work'[x].at = "sent" /\ Underway(work'[x])) \/ work'[x].at \in {"retry", "fail"}
  BY <1>1, <1>2, OutcomeUnderway
<1> QED BY <1>1, <1>3 DEF WorkMoves

\* The upstream answers as it is meant to: the only step that may send the next
\* request of an undisturbed attempt.
LEMMA AnswerMoves ==
    ASSUME TypeOK, WorkInv, LadderInv, NEW x \in Threads, Answer(x)
    PROVE  Moved(x)
<1> DEFINE u == upstream[Endpoint(x)]
<1>1. /\ At(x, "sent") /\ Waiting(x) /\ Underway(work[x]) /\ work[x] \in Works /\ ~Delivered(x)
      /\ u \in Upstreams /\ Sending(work[x]) = work[x] /\ UNCHANGED reader
  <2>1. At(x, "sent") /\ Waiting(x) /\ Underway(work[x]) /\ UNCHANGED reader
    BY DEF Answer, At, WorkInv, Running, Waiting
  <2> QED BY <2>1, Pairs, SendingTyped DEF At, TypeOK, Delivered
<1>2. FrameMoves(x)
  BY FaultTyped DEF FrameMoves, Answer, TypeOK, external
<1>3. GivenMoves(x)
  BY <1>1 DEF GivenMoves
<1>4. CASE ~Served(x) /\ Fail(x, ErrorOf(u, Request(x)))
  <2>1. WorkMoves(x)
    BY <1>1, <1>4, FailWork
  <2>3. Stays(work[x], work'[x]) /\ Outcome(work[x], ErrorOf(u, Request(x)), work'[x])
    BY <1>1, <1>4, FailMoves
  <2>4. Request(x) = Next1(work[x]) /\ ~Serves(u, Next1(work[x]))
    BY <1>4 DEF Request, Next1, Served
  <2>5. ASSUME x \notin disturbed', Call(x) \notin deaf
        PROVE  /\ work'[x].at = "sent" => OnLadder(work'[x], u)
               /\ work'[x].at \in {"retry", "fail"} => Beyond(work'[x], u)
    <3>1. OnLadder(work[x], u)
      BY <1>1, <1>2, <2>5 DEF LadderInv, FrameMoves
    <3>2. work[x].at = "sent" /\ work'[x] \in Works
      BY <1>1, <2>3 DEF At, Stays
    <3> HIDE DEF u
    <3> QED BY <1>1, <2>3, <2>4, <3>1, <3>2, Ladder
  <2>6. LadderMoves(x)
    BY <2>5 DEF LadderMoves
  <2> QED BY <1>2, <1>3, <2>1, <2>6 DEF Moved
<1>5. CASE Succeed(x, TRUE)
  <2>1. /\ Others(x) /\ Stays(work[x], work'[x])
        /\ work'[x].at = "ok" \/ (work'[x].at = "remember" /\ Underway(work'[x]))
    BY <1>1, <1>5, SucceedMoves
  <2>2. WorkMoves(x) /\ LadderMoves(x)
    BY <2>1 DEF WorkMoves, LadderMoves
  <2> QED BY <1>2, <1>3, <2>2 DEF Moved
<1> QED BY <1>4, <1>5 DEF Answer

\* A piece of a stream: the first text is given by a thread that has given none.
LEMMA PieceMoves ==
    ASSUME TypeOK, WorkInv, NEW x \in Threads, Piece(x)
    PROVE  Moved(x)
<1>1. PICK text \in BOOLEAN :
          /\ Read(x, text)
          /\ text => Give(x)
          /\ ~text => UNCHANGED reader
  BY DEF Piece
<1> DEFINE w == work[x]
           v == [w EXCEPT !.at = "reading", !.text = text]
<1>2. Running(x) /\ ~Delivered(x)
  BY DEF Piece, Streams, At, Running, Waiting, Delivered
<1>3. w \in Works /\ Underway(w) /\ w.streamed /\ w.kind # "chat"
  <2>1. w \in Works /\ Underway(w)
    BY <1>2 DEF TypeOK, WorkInv
  <2>2. CASE Streams(x)
    BY <2>1, <2>2 DEF Streams, Piecewise, InOnePiece
  <2>3. CASE At(x, "reading")
    BY <2>1, <2>3 DEF At, Underway
  <2> QED BY <2>1, <2>2, <2>3 DEF Piece
<1>4. FrameMoves(x)
  <2>1. Fault(x) \/ Quiet
    BY DEF Piece, Takes
  <2> QED BY <2>1, FaultTyped DEF FrameMoves, Piece, TypeOK, external
<1>5. Change(x, v)
  BY <1>1 DEF Read
<1> HIDE DEF w
<1>6. /\ v \in Works /\ v.streamed = w.streamed /\ v.began = w.began
      /\ v.at = "reading" /\ v.kind = w.kind /\ v.stage = w.stage
      /\ v.urls = w.urls /\ v.first = w.first /\ v.text = text
  BY <1>3 DEF Works
<1> HIDE DEF v
<1>7. Others(x) /\ work'[x] = v
  BY <1>5, <1>6, ChangeMoves
<1>8. Underway(v)
  BY <1>3, <1>6 DEF Underway
<1>9. WorkMoves(x) /\ LadderMoves(x)
  BY <1>6, <1>7, <1>8 DEF w, Stays, WorkMoves, LadderMoves
<1>10. GivenMoves(x)
  BY <1>1, <1>2, <1>3, <1>6, <1>7 DEF w, GivenMoves, Delivered, At
<1> QED BY <1>4, <1>9, <1>10 DEF Moved

\* It does not: the attempt is disturbed.
LEMMA MisbehaveMoves ==
    ASSUME TypeOK, WorkInv, NEW x \in Threads, Misbehave(x)
    PROVE  Moved(x)
<1>1. At(x, "sent") /\ Waiting(x) /\ Underway(work[x]) /\ ~Delivered(x)
  BY DEF Misbehave, At, WorkInv, Running, Waiting, Delivered
<1>2. FrameMoves(x) /\ x \in disturbed' /\ UNCHANGED reader
  BY FaultTyped DEF FrameMoves, Misbehave, TypeOK, external, Fault
<1>3. GivenMoves(x) /\ LadderMoves(x)
  BY <1>1, <1>2 DEF GivenMoves, LadderMoves
<1>4. CASE \E error \in Mishaps : Fail(x, error)
  BY <1>1, <1>4, FailWork, <1>2, <1>3 DEF Moved
<1>5. CASE Succeed(x, FALSE)
  <2>1. /\ Others(x) /\ Stays(work[x], work'[x])
        /\ work'[x].at = "empty" \/ (work'[x].at = "remember" /\ Underway(work'[x]))
    BY <1>1, <1>5, SucceedMoves
  <2> QED BY <1>2, <1>3, <2>1 DEF WorkMoves, Moved
<1>6. CASE End(x, "ok")
  BY <1>2, <1>3, <1>6, EndWork DEF Ended, Moved
<1> QED BY <1>4, <1>5, <1>6 DEF Misbehave

\* What was delivered stays the answer when the stream ends or breaks; one that
\* fails has delivered no text.
LEMMA EndOfStreamMoves ==
    ASSUME TypeOK, WorkInv, NEW x \in Threads, EndOfStream(x)
    PROVE  Moved(x)
<1>1. At(x, "reading") /\ Waiting(x) /\ Underway(work[x]) /\ work[x].kind # "chat"
  BY DEF EndOfStream, At, WorkInv, Running, Waiting, Underway
<1>2. FrameMoves(x) /\ UNCHANGED reader
  BY FaultTyped DEF FrameMoves, EndOfStream, TypeOK, external
<1>3. CASE Succeed(x, TRUE)
  <2>1. /\ Others(x) /\ Stays(work[x], work'[x])
        /\ \/ work'[x].at = "ok"
           \/ /\ work'[x].at = "remember" /\ Underway(work'[x])
              /\ work'[x].kind = work[x].kind /\ work'[x].text
    BY <1>1, <1>3, SucceedMoves
  <2>2. GivenMoves(x)
    BY <1>1, <1>2, <2>1 DEF GivenMoves, Delivered, At
  <2> QED BY <1>2, <2>1, <2>2 DEF WorkMoves, LadderMoves, Moved
<1>4. CASE ~work[x].text /\ Fail(x, "empty") /\ Fault(x)
  <2>1. WorkMoves(x)
    BY <1>1, <1>4, FailWork
  <2>2. ~Delivered(x) /\ x \in disturbed'
    BY <1>1, <1>4 DEF Delivered, At, Fault
  <2> QED BY <1>2, <2>1, <2>2 DEF GivenMoves, LadderMoves, Moved
<1>5. CASE End(x, "ok")
  <2>1. WorkMoves(x) /\ work'[x].at = "ok"
    BY <1>5, EndWork DEF Ended
  <2> QED BY <1>2, <2>1 DEF GivenMoves, Delivered, At, LadderMoves, Moved
<1> QED BY <1>3, <1>4, <1>5 DEF EndOfStream

\* onDelta does not take the next piece.
LEMMA RefusedMoves ==
    ASSUME TypeOK, NEW x \in Threads, Refused(x)
    PROVE  Moved(x)
<1>1. FrameMoves(x) /\ UNCHANGED reader /\ Call(x) \in deaf
  BY FaultTyped DEF FrameMoves, Refused, TypeOK, external
<1>2. WorkMoves(x)
  BY EndWork DEF Refused, Ended
<1> QED BY <1>1, <1>2 DEF GivenMoves, LadderMoves, Moved

\* What is remembered is a way of an OpenAI endpoint.
LEMMA RequestTyped ==
    ASSUME TypeOK, WorkInv, NEW x \in Threads, work[x].at \in {"remember", "save"}
    PROVE  Request(x) \in Ways /\ Underway(work[x]) /\ work[x] \in Works
<1>1. Underway(work[x]) /\ work[x] \in Works
  BY DEF TypeOK, WorkInv, Running
<1>2. work[x].kind \in {"chat", "stream", "responses"} /\ work[x].urls \in Lists
  BY <1>1 DEF Underway, Works
<1> QED BY <1>1, <1>2, ListFacts DEF Request, Ways

\* The memory of the process.
LEMMA RememberMoves ==
    ASSUME TypeOK, WorkInv, NEW x \in Threads, Remember(x)
    PROVE  Moved(x)
<1> DEFINE w == work[x]
           v == [w EXCEPT !.at = "save"]
<1>1. /\ w.at = "remember" /\ Underway(w) /\ w \in Works /\ Request(x) \in Ways
      /\ Change(x, v)
  BY RequestTyped DEF Remember, At
<1>2. FrameMoves(x) /\ UNCHANGED reader
  BY <1>1, Pairs DEF FrameMoves, Remember, TypeOK, external
<1> HIDE DEF w
<1>3. /\ v \in Works /\ v.streamed = w.streamed /\ v.began = w.began
      /\ v.at = "save" /\ v.kind = w.kind /\ v.stage = w.stage /\ v.text = w.text
      /\ v.urls = w.urls /\ v.first = w.first
  BY <1>1 DEF Works
<1> HIDE DEF v
<1>4. Others(x) /\ work'[x] = v
  BY <1>1, <1>3, ChangeMoves
<1>5. Underway(v)
  BY <1>1, <1>3 DEF Underway
<1>6. WorkMoves(x) /\ LadderMoves(x)
  BY <1>3, <1>4, <1>5 DEF w, Stays, WorkMoves, LadderMoves
<1>7. GivenMoves(x)
  BY <1>1, <1>2, <1>3, <1>4 DEF w, GivenMoves, Delivered, At
<1> QED BY <1>2, <1>6, <1>7 DEF Moved

\* The table; the answer in one piece a streamed call fell back to is with
\* nobody yet.
LEMMA SaveMoves ==
    ASSUME TypeOK, WorkInv, NEW x \in Threads, Save(x)
    PROVE  Moved(x)
<1> DEFINE w == work[x]
           gives == w.streamed /\ w.kind = "chat" /\ w.text
           v == [w EXCEPT !.at = "give"]
<1>1. w.at = "save" /\ Underway(w) /\ w \in Works /\ Request(x) \in Ways
  BY RequestTyped DEF Save, At
<1>2. FrameMoves(x) /\ UNCHANGED reader
  <2>1. Endpoint(x) \in Endpoints
    BY Pairs
  <2>2. table' \in [Endpoints -> Ways]
    BY <1>1, <2>1 DEF Save, Upsert, TypeOK
  <2>3. Fault(x) \/ Quiet
    BY DEF Save
  <2> QED BY <2>2, <2>3, FaultTyped DEF FrameMoves, Save, TypeOK, external
<1>3. Delivered(x) => w.text /\ ~gives
  BY <1>1 DEF Delivered, At
<1>4. CASE gives
  <2>1. Change(x, v)
    BY <1>4 DEF Save
  <2> HIDE DEF w
  <2>2. /\ v \in Works /\ v.streamed = w.streamed /\ v.began = w.began
        /\ v.at = "give" /\ v.kind = w.kind /\ v.stage = w.stage
        /\ v.urls = w.urls /\ v.first = w.first
    BY <1>1 DEF Works
  <2> HIDE DEF v
  <2>3. Others(x) /\ work'[x] = v
    BY <2>1, <2>2, ChangeMoves
  <2>4. Underway(v)
    BY <1>1, <1>4, <2>2 DEF Underway
  <2>5. WorkMoves(x) /\ LadderMoves(x)
    BY <2>2, <2>3, <2>4 DEF w, Stays, WorkMoves, LadderMoves
  <2> QED BY <1>2, <1>3, <1>4, <2>5 DEF GivenMoves, Moved
<1>5. CASE ~gives
  <2>1. PICK outcome \in {"empty", "ok"} : End(x, outcome) /\ outcome = IF w.text THEN "ok" ELSE "empty"
    BY <1>5 DEF Save
  <2>2. WorkMoves(x) /\ work'[x].at = outcome
    BY <2>1, EndWork DEF Ended
  <2>3. GivenMoves(x) /\ LadderMoves(x)
    BY <1>2, <1>3, <2>1, <2>2 DEF GivenMoves, LadderMoves, Delivered, At
  <2> QED BY <1>2, <2>2, <2>3 DEF Moved
<1> QED BY <1>4, <1>5

\* The reader gets an answer in one piece only when nothing was given before.
LEMMA GiveWholeMoves ==
    ASSUME TypeOK, WorkInv, NEW x \in Threads, GiveWhole(x)
    PROVE  Moved(x)
<1>1. Running(x) /\ ~Delivered(x) /\ work[x].streamed
  BY DEF GiveWhole, At, Running, Delivered, WorkInv, Underway
<1>2. FrameMoves(x)
  <2>1. Fault(x) \/ Quiet
    BY DEF GiveWhole, Takes
  <2> QED BY <2>1, FaultTyped DEF FrameMoves, GiveWhole, TypeOK, external
<1>3. PICK outcome \in {"ok", "fail"} :
          /\ End(x, outcome)
          /\ outcome = "ok" => Give(x)
          /\ outcome = "fail" => Call(x) \in deaf /\ UNCHANGED reader
  BY DEF GiveWhole
<1>4. WorkMoves(x) /\ work'[x].at = outcome
  BY <1>3, EndWork DEF Ended
<1> QED BY <1>1, <1>2, <1>3, <1>4 DEF GivenMoves, LadderMoves, Delivered, At, Moved

\* An attempt that takes too long.
LEMMA TimeOutMoves ==
    ASSUME TypeOK, NEW x \in Threads, TimeOut(x)
    PROVE  Moved(x)
<1>1. FrameMoves(x) /\ UNCHANGED reader /\ x \in disturbed' /\ ~Delivered(x)
  BY DEF FrameMoves, TimeOut, TypeOK, external, Delivered, At
<1>2. WorkMoves(x)
  BY EndWork DEF TimeOut, Ended
<1> QED BY <1>1, <1>2 DEF GivenMoves, LadderMoves, Moved

\* One whose context is done.
LEMMA InterruptMoves ==
    ASSUME TypeOK, NEW x \in Threads, Interrupt(x)
    PROVE  Moved(x)
<1>1. FrameMoves(x) /\ UNCHANGED reader /\ x \in disturbed' /\ x \in over /\ over' = over
  BY DEF FrameMoves, Interrupt, TypeOK, external
<1>2. WorkMoves(x) /\ work'[x].at = "fail"
  BY EndWork DEF Interrupt, Ended
<1> QED BY <1>1, <1>2 DEF GivenMoves, LadderMoves, Moved, Delivered, At

\* The steps of a thread.
LEMMA ThreadMoves ==
    ASSUME TypeOK, WorkInv, LadderInv, NEW x \in Threads, ThreadStep(x)
    PROVE  Running(x) /\ Moved(x)
<1>1. Running(x)
  BY DEF ThreadStep, Running, Waiting, At, Answer, Piece, Streams, Misbehave, EndOfStream, Refused,
         Remember, Save, GiveWhole, TimeOut, Interrupt
<1> QED BY <1>1, AnswerMoves, PieceMoves, MisbehaveMoves, EndOfStreamMoves, RefusedMoves, RememberMoves,
           SaveMoves, GiveWholeMoves, TimeOutMoves, InterruptMoves DEF ThreadStep

-----------------------------------------------------------------------------
RouteFacts ==
    /\ route.size \in 1..NumEndpoints /\ route.calls \in SUBSET Calls
    /\ route.streamed \in SUBSET Calls /\ route.concurrent \in BOOLEAN

\* The threads of a call are those of the endpoints of the route.
LEMMA RouteTyped ==
    ASSUME TypeOK
    PROVE  /\ RouteFacts
           /\ \A c \in Calls : /\ ThreadsOf(c) \subseteq Threads
                               /\ \A x \in Threads : x \in ThreadsOf(c) <=>
                                      Call(x) = c /\ Endpoint(x) <= route.size
           /\ \A c \in Calls : <<c, next[c]>> \in ThreadsOf(c)
<1>1. RouteFacts
  BY RoutesAssumption DEF TypeOK, RouteFacts
<1>2. ASSUME NEW c \in Calls
      PROVE  /\ ThreadsOf(c) \subseteq Threads
             /\ \A x \in Threads : x \in ThreadsOf(c) <=> Call(x) = c /\ Endpoint(x) <= route.size
             /\ <<c, next[c]>> \in ThreadsOf(c)
  <2>1. 1..route.size \subseteq Endpoints /\ Endpoints = 1..NumEndpoints /\ NumEndpoints \in Nat
    BY <1>1, EndpointAssumption DEF RouteFacts, Endpoints
  <2>2. ThreadsOf(c) \subseteq Threads
    BY <2>1 DEF ThreadsOf, Threads
  <2>3. ASSUME NEW x \in Threads
        PROVE  x \in ThreadsOf(c) <=> Call(x) = c /\ Endpoint(x) <= route.size
    <3>1. Endpoint(x) \in 1..NumEndpoints /\ x = <<Call(x), Endpoint(x)>>
      BY <2>1, Pairs
    <3>2. Endpoint(x) \in 1..route.size <=> Endpoint(x) <= route.size
      BY <1>1, <2>1, <3>1 DEF RouteFacts
    <3> QED BY <3>1, <3>2 DEF ThreadsOf
  <2>4. <<c, next[c]>> \in ThreadsOf(c)
    BY DEF ThreadsOf, TypeOK
  <2> QED BY <2>2, <2>3, <2>4
<1> QED BY <1>1, <1>2

\* BeyondRepair, in the form of the ladder.
LEMMA BeyondIs ==
    \A x \in Threads : BeyondRepair(x) <=> Beyond(work[x], upstream[Endpoint(x)])
BY DEF BeyondRepair, Beyond

\* Work that is left alone stays on the ladder.
LEMMA LadderKept ==
    ASSUME LadderInv, AdaptationRecovers, UNCHANGED <<work, upstream>>,
           disturbed \subseteq disturbed', deaf \subseteq deaf'
    PROVE  LadderInv' /\ AdaptationRecovers'
<1>1. LadderInv'
  BY DEF LadderInv, At
<1>2. AdaptationRecovers'
  BY DEF AdaptationRecovers, BeyondRepair
<1> QED BY <1>1, <1>2

\* A thread gives text only when its call has none yet: it runs, so the call is
\* at it, and what the call had got would have come from this very thread.
LEMMA ThreadKeeps ==
    ASSUME IInv, NEW x \in Threads, Thread(x)
    PROVE  IInv'
<1>1. Running(x) /\ Moved(x)
  BY ThreadMoves DEF IInv, Thread
<1>2. /\ UNCHANGED routeVars /\ Others(x) /\ work'[x] \in Works /\ work'[x].streamed = work[x].streamed
      /\ UNCHANGED <<over, deaf, upstream>> /\ work'[x].at # "idle"
      /\ disturbed \subseteq disturbed'
  BY <1>1 DEF Thread, Moved, WorkMoves, FrameMoves, Stays
<1>3. Call(x) \in Calls
  BY Pairs
<1>4. \A y \in Threads : y # x => work'[y] = work[y]
  BY <1>2 DEF Others
<1>5. TypeOK'
  <2>1. given' \in [Calls -> Nat] /\ missed' \in SUBSET Calls
    BY <1>1, <1>3 DEF Moved, GivenMoves, Give, IInv, TypeOK, reader
  <2>2. work' \in [Threads -> Works]
    BY <1>2 DEF Others
  <2> QED BY <1>1, <1>2, <2>1, <2>2 DEF Moved, FrameMoves, IInv, TypeOK, routeVars
<1>6. WorkInv'
  <2>1. ASSUME NEW y \in Threads, Running(y)'
        PROVE  Underway(work'[y])
    BY <1>1, <1>4, <2>1 DEF Moved, WorkMoves, WorkInv, IInv, Running, Waiting
  <2> QED BY <2>1 DEF WorkInv
<1>7. CallInv'
  <2>1. ASSUME NEW y \in Threads
        PROVE  /\ Running(y)' => Running(y)
               /\ work'[y].streamed = work[y].streamed
               /\ work'[y].at = "idle" <=> work[y].at = "idle"
    BY <1>1, <1>2, <1>4 DEF Running, Waiting
  <2> QED BY <1>2, <2>1 DEF CallInv, IInv, routeVars, At, Active, Streamed, Concurrent
<1>8. GivenInv'
  <2>1. CASE UNCHANGED reader /\ (Delivered(x) => Delivered(x)' \/ Call(x) \in deaf)
    <3>0. UNCHANGED <<given, missed>>
      BY <2>1 DEF reader
    <3>1. ASSUME NEW c \in Calls, given[c] # 0, c \notin missed, Active(c), c \notin deaf
          PROVE  Delivered(<<c, next[c]>>)'
      <4>1. Delivered(<<c, next[c]>>) /\ <<c, next[c]>> \in Threads
        BY <3>1, RouteTyped DEF GivenInv, Once, IInv
      <4>2. CASE <<c, next[c]>> = x
        BY <2>1, <3>1, <4>1, <4>2, <1>2 DEF Call, routeVars
      <4>3. CASE <<c, next[c]>> # x
        BY <4>1, <4>3, <1>2, <1>4 DEF Delivered, At, routeVars
      <4> QED BY <4>2, <4>3
    <3> QED BY <3>0, <3>1, <1>2 DEF GivenInv, Once, IInv, routeVars, Active, Streamed, Concurrent
  <2>2. CASE Give(x) /\ ~Delivered(x) /\ Delivered(x)' /\ work[x].streamed
    <3> DEFINE k == Call(x)
    <3>1. Streamed(k) /\ ~Concurrent /\ Active(k) /\ next[k] = Endpoint(x) /\ x = <<k, next[k]>>
      BY <1>1, <2>2, Pairs DEF CallInv, IInv, Streamed
    <3>2. given' = [given EXCEPT ![k] = given[k] + 1] /\ missed' = missed \cup ({k} \cap deaf)
      BY <2>2 DEF Give
    <3>3. ASSUME k \notin missed'
          PROVE  given[k] = 0 /\ given'[k] = 1
      <4>1. k \notin missed /\ k \notin deaf
        BY <3>2, <3>3
      <4>2. given[k] = 0
        BY <2>2, <3>1, <4>1, <1>3 DEF GivenInv, Once, IInv
      <4> QED BY <3>2, <4>2, <1>3 DEF IInv, TypeOK
    <3>4. \A c \in Calls : c # k => given'[c] = given[c] /\ (c \in missed' <=> c \in missed)
      BY <3>2 DEF IInv, TypeOK
    <3>5. ASSUME NEW c \in Calls
          PROVE  Once(c)'
      <4>1. CASE c = k
        BY <4>1, <2>2, <3>1, <3>3, <1>2 DEF Once, routeVars, Active, Streamed, Concurrent
      <4>2. CASE c # k
        <5>1. Once(c) /\ given'[c] = given[c] /\ (c \in missed' <=> c \in missed)
          BY <4>2, <3>4 DEF GivenInv, IInv
        <5>2. <<c, next[c]>> \in Threads /\ <<c, next[c]>> # x
          BY <4>2, RouteTyped DEF Call, IInv
        <5>3. Delivered(<<c, next[c]>>) => Delivered(<<c, next[c]>>)'
          BY <5>2, <1>2, <1>4 DEF Delivered, At, routeVars
        <5> QED BY <5>1, <5>3, <1>2 DEF Once, routeVars, Active, Streamed, Concurrent
      <4> QED BY <4>1, <4>2
    <3> QED BY <3>5 DEF GivenInv
  <2> QED BY <1>1, <2>1, <2>2 DEF Moved, GivenMoves
<1>9. ASSUME NEW y \in Threads, Hopeless(y)
      PROVE  Hopeless(y)'
  <2>1. y # x
    BY <1>1, <1>9 DEF Hopeless, Running, Waiting
  <2> QED BY <1>2, <1>4, <1>9, <2>1 DEF Hopeless, MayTryAgain, At, AttemptLimit, Streamed, Concurrent, routeVars
<1>10. AsideInv'
  BY <1>2, <1>9 DEF AsideInv, IInv, routeVars, Active, Concurrent
<1>11. FailsOnlyWhenAllFail'
  <2>1. ASSUME NEW c \in Calls, c \notin deaf \cup canceled, phase[c] = "failed", NEW y \in ThreadsOf(c)
        PROVE  Hopeless(y)'
    <3>1. y \in Threads /\ Hopeless(y)
      BY <2>1, RouteTyped DEF FailsOnlyWhenAllFail, IInv, Hopeless
    <3> QED BY <3>1, <1>9
  <2> QED BY <2>1, <1>2 DEF FailsOnlyWhenAllFail, Hopeless, routeVars, ThreadsOf
<1>12. LadderInv'
  <2>1. ASSUME NEW y \in Threads, (At(y, "sent") /\ y \notin disturbed /\ Call(y) \notin deaf)'
        PROVE  OnLadder(work'[y], upstream[Endpoint(y)])
    <3>1. CASE y = x
      BY <1>1, <1>2, <2>1, <3>1 DEF Moved, LadderMoves, At
    <3>2. CASE y # x
      BY <1>2, <1>4, <2>1, <3>2 DEF LadderInv, IInv, At
    <3> QED BY <3>1, <3>2
  <2> QED BY <2>1, <1>2 DEF LadderInv
<1>13. AdaptationRecovers'
  <2>1. ASSUME NEW y \in Threads, work'[y].at \in {"retry", "fail"}, y \notin disturbed', Call(y) \notin deaf
        PROVE  Beyond(work'[y], upstream[Endpoint(y)])
    <3>1. CASE y = x
      BY <1>1, <2>1, <3>1 DEF Moved, LadderMoves
    <3>2. CASE y # x
      BY <1>2, <1>4, <2>1, <3>2, BeyondIs DEF AdaptationRecovers, IInv
    <3> QED BY <3>1, <3>2
  <2> QED BY <2>1, <1>2 DEF AdaptationRecovers, BeyondRepair, Beyond
<1> QED BY <1>5, <1>6, <1>7, <1>8, <1>10, <1>11, <1>12, <1>13 DEF IInv

\* An attempt begins at a thread that is not hopeless and has delivered nothing.
LEMMA AttemptKeeps ==
    ASSUME IInv, NEW x \in Threads, Attempt(x)
    PROVE  IInv'
<1> DEFINE k == Call(x)
<1>1. k \in Calls /\ Endpoint(x) \in Endpoints /\ x = <<k, Endpoint(x)>>
  BY Pairs
<1>2. /\ UNCHANGED <<route, phase, next, canceled, taken, memory, table, over, deaf, given, missed,
                     faults, upstream, changes>>
      /\ attempts' = [attempts EXCEPT ![x] = attempts[x] + 1]
      /\ disturbed' = disturbed \ {x}
  BY DEF Attempt, Begin, external, reader
<1>3. Streamed(k) \in BOOLEAN
  BY DEF Streamed
<1>4. /\ Others(x) /\ work'[x].at = "sent" /\ work'[x].streamed = Streamed(k)
      /\ Underway(work'[x]) /\ \A u \in Upstreams : OnLadder(work'[x], u)
  BY <1>3, BeginMoves DEF Attempt, IInv
<1>5. \A y \in Threads : y # x => work'[y] = work[y] /\ attempts'[y] = attempts[y]
  BY <1>2, <1>4 DEF Others, IInv, TypeOK
<1>6. attempts[x] \in Nat /\ attempts'[x] = attempts[x] + 1
  BY <1>2 DEF IInv, TypeOK
<1>7. /\ phase[k] \in {"running", "ok", "failed"}
      /\ ~Concurrent => Active(k) /\ next[k] = Endpoint(x)
  BY DEF Attempt, Reached, Active
<1>8. ~Hopeless(x)
  <2>1. attempts[x] = 0 => At(x, "idle")
    BY <1>7 DEF IInv, CallInv
  <2> QED BY <2>1 DEF Attempt, Hopeless, At
<1>9. attempts[x] = 0 \/ At(x, "retry")
  BY DEF Attempt, MayTryAgain
<1>10. ~Delivered(x)
  <2>1. attempts[x] = 0 => At(x, "idle")
    BY <1>7 DEF IInv, CallInv
  <2> QED BY <1>9, <2>1 DEF Delivered, At
<1>11. TypeOK'
  <2>1. attempts' \in [Threads -> Nat]
    BY <1>2 DEF IInv, TypeOK
  <2> QED BY <1>2, <1>4, <2>1 DEF IInv, TypeOK, Others
<1>12. WorkInv'
  BY <1>4, <1>5 DEF WorkInv, IInv, Running, Waiting
<1>13. CallInv'
  <2>1. ASSUME NEW y \in Threads
        PROVE  (LET c == Call(y) IN
                   /\ Running(y) => /\ work[y].streamed = Streamed(c)
                                    /\ ~Concurrent => Active(c) /\ next[c] = Endpoint(y)
                   /\ phase[c] # "lost" => (At(y, "idle") <=> attempts[y] = 0)
                   /\ phase[c] = "new" => attempts[y] = 0 /\ y \notin taken /\ next[c] = 1
                   /\ y \in over => c \in canceled \/ phase[c] \in {"ok", "failed", "lost"})'
    <3>1. CASE y = x
      BY <3>1, <1>2, <1>4, <1>6, <1>7 DEF IInv, CallInv, At, Streamed, Concurrent, Active
    <3>2. CASE y # x
      BY <3>2, <1>2, <1>5 DEF IInv, CallInv, At, Running, Waiting, Streamed, Concurrent, Active
    <3> QED BY <3>1, <3>2
  <2> QED BY <2>1 DEF CallInv
<1>14. GivenInv'
  <2>1. ASSUME NEW c \in Calls, given[c] # 0, c \notin missed, Active(c), c \notin deaf
        PROVE  Delivered(<<c, next[c]>>)'
    <3>1. Delivered(<<c, next[c]>>) /\ <<c, next[c]>> \in Threads
      BY <2>1, RouteTyped DEF GivenInv, Once, IInv
    <3>2. <<c, next[c]>> # x
      BY <3>1, <1>10
    <3> QED BY <3>1, <3>2, <1>2, <1>5 DEF Delivered, At
  <2> QED BY <2>1, <1>2 DEF GivenInv, Once, IInv, Active, Streamed, Concurrent
<1>15. ASSUME NEW y \in Threads, Hopeless(y)
       PROVE  Hopeless(y)'
  <2>1. y # x
    BY <1>8, <1>15
  <2> QED BY <1>2, <1>5, <1>15, <2>1 DEF Hopeless, MayTryAgain, At, AttemptLimit, Streamed, Concurrent
<1>16. AsideInv'
  BY <1>2, <1>15 DEF AsideInv, IInv, Active, Concurrent
<1>17. FailsOnlyWhenAllFail'
  <2>1. ASSUME NEW c \in Calls, c \notin deaf \cup canceled, phase[c] = "failed", NEW y \in ThreadsOf(c)
        PROVE  Hopeless(y)'
    <3>1. y \in Threads /\ Hopeless(y)
      BY <2>1, RouteTyped DEF FailsOnlyWhenAllFail, IInv, Hopeless
    <3> QED BY <3>1, <1>15
  <2> QED BY <2>1, <1>2 DEF FailsOnlyWhenAllFail, Hopeless, ThreadsOf
<1>18. LadderInv'
  <2>1. upstream[Endpoint(x)] \in Upstreams
    BY <1>1 DEF IInv, TypeOK
  <2> QED BY <2>1, <1>2, <1>4, <1>5 DEF LadderInv, IInv, At
<1>19. AdaptationRecovers'
  <2>1. ASSUME NEW y \in Threads, work'[y].at \in {"retry", "fail"}, y \notin disturbed', Call(y) \notin deaf
        PROVE  Beyond(work'[y], upstream[Endpoint(y)])
    <3>1. y # x
      BY <1>4, <2>1
    <3> QED BY <1>2, <1>5, <2>1, <3>1, BeyondIs DEF AdaptationRecovers, IInv
  <2> QED BY <2>1, <1>2 DEF AdaptationRecovers, BeyondRepair, Beyond
<1> QED BY <1>11, <1>12, <1>13, <1>14, <1>16, <1>17, <1>18, <1>19 DEF IInv

\* A step of a call, which leaves the work of its threads alone and at most
\* closes contexts.
CallStep ==
    /\ UNCHANGED <<work, memory, table, upstream, changes, route, attempts>>
    /\ faults' \in Nat /\ disturbed \subseteq disturbed' /\ disturbed' \in SUBSET Threads
    /\ over \subseteq over' /\ over' \in SUBSET Threads
    /\ deaf \subseteq deaf' /\ deaf' \in SUBSET Calls
    /\ canceled \subseteq canceled' /\ canceled' \in SUBSET Calls
    /\ taken \subseteq taken' /\ taken' \in SUBSET Threads

\* The calls it does not concern.
Aloof(c) ==
    /\ phase'[c] = phase[c] /\ next'[c] = next[c]
    /\ given'[c] = given[c] /\ (c \in missed' <=> c \in missed)
    /\ \A x \in Threads : Call(x) = c => /\ x \in taken' <=> x \in taken
                                         /\ x \in over' => x \in over \/ c \in canceled'

\* A closed context makes no thread less hopeless.
LEMMA CallStepKeeps ==
    ASSUME IInv, CallStep
    PROVE  /\ WorkInv' /\ LadderInv' /\ AdaptationRecovers'
           /\ \A x \in Threads : /\ Running(x)' <=> Running(x)
                                 /\ Hopeless(x) => Hopeless(x)'
                                 /\ Delivered(x) => Delivered(x)'
<1>1. WorkInv'
  BY DEF CallStep, IInv, WorkInv, Running, Waiting
<1>2. LadderInv' /\ AdaptationRecovers'
  BY LadderKept DEF CallStep, IInv
<1>3. ASSUME NEW x \in Threads
      PROVE  /\ Running(x)' <=> Running(x)
             /\ Hopeless(x) => Hopeless(x)'
             /\ Delivered(x) => Delivered(x)'
  <2>1. Running(x)' <=> Running(x)
    BY DEF CallStep, Running, Waiting
  <2>2. Hopeless(x) => Hopeless(x)'
    BY DEF CallStep, Hopeless, MayTryAgain, At, AttemptLimit, Streamed, Concurrent
  <2>3. Delivered(x) => Delivered(x)'
    BY DEF CallStep, Delivered, At
  <2> QED BY <2>1, <2>2, <2>3
<1> QED BY <1>1, <1>2, <1>3

\* What IInv says of one call.
CallPart(c) ==
    /\ phase[c] \in {"new", "running", "ok", "failed", "lost"} /\ next[c] \in 1..route.size /\ given[c] \in Nat
    /\ \A x \in Threads : Call(x) = c =>
        /\ Running(x) => /\ work[x].streamed = Streamed(c)
                         /\ ~Concurrent => Active(c) /\ next[c] = Endpoint(x)
        /\ phase[c] # "lost" => (At(x, "idle") <=> attempts[x] = 0)
        /\ phase[c] = "new" => attempts[x] = 0 /\ x \notin taken /\ next[c] = 1
        /\ x \in over => c \in canceled \/ phase[c] \in {"ok", "failed", "lost"}
    /\ Once(c)
    /\ \A x \in Threads : Call(x) = c => (Active(c) /\ c \notin canceled =>
            /\ Concurrent /\ x \in taken => Hopeless(x)
            /\ ~Concurrent /\ Endpoint(x) < next[c] => Hopeless(x))
    /\ c \notin deaf \cup canceled /\ phase[c] = "failed" => \A x \in ThreadsOf(c) : Hopeless(x)

EveryPart == \A c \in Calls : CallPart(c)

\* IInv, call by call.
LEMMA CallParts ==
    /\ IInv => EveryPart
    /\ EveryPart => CallInv /\ GivenInv /\ AsideInv /\ FailsOnlyWhenAllFail
<1>1. ASSUME IInv, NEW c \in Calls
      PROVE  CallPart(c)
  <2>1. phase[c] \in {"new", "running", "ok", "failed", "lost"} /\ next[c] \in 1..route.size /\ given[c] \in Nat
    BY <1>1 DEF IInv, TypeOK
  <2>2. \A x \in ThreadsOf(c) : x \in Threads
    BY <1>1, RouteTyped DEF IInv
  <2>3. c \notin deaf \cup canceled /\ phase[c] = "failed" => \A x \in ThreadsOf(c) : Hopeless(x)
    BY <1>1 DEF IInv, FailsOnlyWhenAllFail, Hopeless
  <2>4. \A x \in Threads : Call(x) = c => (Active(c) /\ c \notin canceled =>
            /\ Concurrent /\ x \in taken => Hopeless(x)
            /\ ~Concurrent /\ Endpoint(x) < next[c] => Hopeless(x))
    BY <1>1 DEF IInv, AsideInv
  <2>5. \A x \in Threads : Call(x) = c =>
        /\ Running(x) => /\ work[x].streamed = Streamed(c)
                         /\ ~Concurrent => Active(c) /\ next[c] = Endpoint(x)
        /\ phase[c] # "lost" => (At(x, "idle") <=> attempts[x] = 0)
        /\ phase[c] = "new" => attempts[x] = 0 /\ x \notin taken /\ next[c] = 1
        /\ x \in over => c \in canceled \/ phase[c] \in {"ok", "failed", "lost"}
    BY <1>1 DEF IInv, CallInv
  <2>6. Once(c)
    BY <1>1 DEF IInv, GivenInv
  <2> QED BY <2>1, <2>3, <2>4, <2>5, <2>6 DEF CallPart
<1>2. ASSUME EveryPart
      PROVE  CallInv /\ GivenInv /\ AsideInv /\ FailsOnlyWhenAllFail
  <2>1. CallInv
    BY <1>2, Pairs DEF EveryPart, CallPart, CallInv
  <2>2. GivenInv
    BY <1>2 DEF EveryPart, CallPart, GivenInv
  <2>3. AsideInv
    BY <1>2, Pairs DEF EveryPart, CallPart, AsideInv
  <2>4. FailsOnlyWhenAllFail
    BY <1>2 DEF EveryPart, CallPart, FailsOnlyWhenAllFail, Hopeless
  <2> QED BY <2>1, <2>2, <2>3, <2>4
<1> QED BY <1>1, <1>2 DEF EveryPart

\* A step of one call keeps what holds of the others.
LEMMA AloofKeeps ==
    ASSUME IInv, CallStep, NEW c \in Calls, Aloof(c)
    PROVE  CallPart(c)'
<1>1. CallPart(c) /\ c \in Calls
  BY CallParts DEF EveryPart
<1>2. /\ UNCHANGED <<work, route, attempts>>
      /\ deaf \subseteq deaf' /\ canceled \subseteq canceled'
  BY DEF CallStep
<1>3. \A x \in Threads : /\ Running(x)' <=> Running(x)
                         /\ Hopeless(x) => Hopeless(x)'
                         /\ Delivered(x) => Delivered(x)'
  BY CallStepKeeps
<1>4. <<c, next[c]>> \in Threads /\ \A x \in ThreadsOf(c) : x \in Threads
  BY RouteTyped DEF IInv
<1>5. /\ phase'[c] = phase[c] /\ next'[c] = next[c] /\ given'[c] = given[c]
      /\ c \in missed' <=> c \in missed
  BY DEF Aloof
<1>6. ASSUME NEW x \in Threads, Call(x) = c
      PROVE  (/\ Running(x) => /\ work[x].streamed = Streamed(c)
                               /\ ~Concurrent => Active(c) /\ next[c] = Endpoint(x)
              /\ phase[c] # "lost" => (At(x, "idle") <=> attempts[x] = 0)
              /\ phase[c] = "new" => attempts[x] = 0 /\ x \notin taken /\ next[c] = 1
              /\ x \in over => c \in canceled \/ phase[c] \in {"ok", "failed", "lost"})'
  BY <1>1, <1>2, <1>3, <1>5, <1>6 DEF CallPart, Aloof, At, Streamed, Concurrent, Active
<1>7. Once(c)'
  <2>1. Delivered(<<c, next[c]>>) => Delivered(<<c, next[c]>>)'
    BY <1>5 DEF CallStep, Delivered, At
  <2> QED BY <1>1, <1>2, <1>5, <2>1 DEF CallPart, Once, Streamed, Concurrent, Active
<1>8. ASSUME NEW x \in Threads, Call(x) = c
      PROVE  (Active(c) /\ c \notin canceled =>
                /\ Concurrent /\ x \in taken => Hopeless(x)
                /\ ~Concurrent /\ Endpoint(x) < next[c] => Hopeless(x))'
  BY <1>1, <1>2, <1>3, <1>5, <1>8 DEF CallPart, Aloof, Concurrent, Active
<1>9. (c \notin deaf \cup canceled /\ phase[c] = "failed" => \A x \in ThreadsOf(c) : Hopeless(x))'
  <2>1. ThreadsOf(c)' = ThreadsOf(c)
    BY <1>2 DEF ThreadsOf
  <2> QED BY <1>1, <1>2, <1>3, <1>4, <1>5, <2>1 DEF CallPart
<1> QED BY <1>1, <1>2, <1>5, <1>6, <1>7, <1>8, <1>9 DEF CallPart

\* A step of one call is a matter of what it does to that call.
LEMMA CallKeeps ==
    ASSUME IInv, CallStep, NEW c \in Calls, CallPart(c)', \A d \in Calls : d # c => Aloof(d),
           given' \in [Calls -> Nat], missed' \in SUBSET Calls, next' \in [Calls -> Nat],
           phase' \in [Calls -> {"new", "running", "ok", "failed", "lost"}]
    PROVE  IInv'
<1>1. EveryPart'
  BY AloofKeeps DEF EveryPart
<1>2. CallInv' /\ GivenInv' /\ AsideInv' /\ FailsOnlyWhenAllFail'
  BY <1>1, CallParts, PTL
<1>3. TypeOK'
  BY <1>1 DEF EveryPart, CallPart, CallStep, IInv, TypeOK
<1>4. WorkInv' /\ LadderInv' /\ AdaptationRecovers'
  BY CallStepKeeps
<1> QED BY <1>2, <1>3, <1>4 DEF IInv

\* A call starts with nothing taken.
LEMMA StartKeeps ==
    ASSUME IInv, NEW c \in Calls, Start(c)
    PROVE  IInv'
<1>1. /\ UNCHANGED <<endpointVars, route, next, attempts, canceled, taken>> /\ phase[c] = "new"
      /\ phase' = [phase EXCEPT ![c] = "running"]
  BY DEF Start
<1>2. CallStep
  BY <1>1 DEF CallStep, endpointVars, IInv, TypeOK
<1>3. /\ phase' \in [Calls -> {"new", "running", "ok", "failed", "lost"}]
      /\ phase'[c] = "running" /\ \A d \in Calls : d # c => phase'[d] = phase[d]
  BY <1>1 DEF IInv, TypeOK
<1>4. \A d \in Calls : d # c => Aloof(d)
  BY <1>1, <1>3 DEF Aloof, endpointVars
<1>5. CallPart(c) /\ (given[c] = 0 \/ c \in missed) /\ next[c] = 1
  <2>1. CallPart(c)
    BY CallParts DEF EveryPart
  <2>2. c \in Calls /\ \E x \in Threads : Call(x) = c
    BY RouteTyped, Pairs DEF IInv
  <2> QED BY <1>1, <2>1, <2>2 DEF CallPart, Once
<1>6. ASSUME NEW x \in Threads, Call(x) = c
      PROVE  /\ ~Running(x) /\ At(x, "idle") /\ attempts[x] = 0 /\ x \notin taken /\ ~(Endpoint(x) < 1)
             /\ x \in over => c \in canceled
  <2>1. At(x, "idle") /\ attempts[x] = 0 /\ x \notin taken /\ (x \in over => c \in canceled)
    BY <1>1, <1>5, <1>6 DEF CallPart
  <2>2. ~(Endpoint(x) < 1)
    BY Pairs, EndpointAssumption DEF Endpoints
  <2> QED BY <2>1, <2>2 DEF At, Running, Waiting
<1>7. CallPart(c)'
  BY <1>1, <1>3, <1>5, <1>6 DEF CallPart, Once, endpointVars, At, Running, Waiting
<1> QED BY <1>1, <1>2, <1>3, <1>4, <1>7, CallKeeps DEF endpointVars, IInv, TypeOK

\* The next endpoint is asked only when the last one is hopeless; a stream that
\* delivered ends the call unless the reader is deaf.
LEMMA TakeNextKeeps ==
    ASSUME IInv, NEW c \in Calls, TakeNext(c)
    PROVE  IInv'
<1> DEFINE x == <<c, next[c]>>
<1>1. /\ UNCHANGED <<endpointVars, route, attempts, canceled>>
      /\ Active(c) /\ ~Concurrent /\ Returned(x) /\ taken' = taken \cup {x}
  BY DEF TakeNext
<1>2. x \in ThreadsOf(c) /\ x \in Threads /\ Call(x) = c /\ Endpoint(x) = next[c]
  BY RouteTyped DEF IInv, Call, Endpoint
<1>3. CallPart(c) /\ next[c] \in 1..route.size /\ route.size \in Nat
  BY CallParts, RouteTyped DEF EveryPart, CallPart, RouteFacts, IInv
<1>4. \/ /\ phase' = [phase EXCEPT ![c] = "ok"] /\ next' = next
      \/ /\ work[x].at \notin {"ok", "empty"} /\ next[c] < route.size /\ ~(Streamed(c) /\ x \in over)
         /\ next' = [next EXCEPT ![c] = next[c] + 1] /\ phase' = phase
      \/ /\ work[x].at \notin {"ok", "empty"}
         /\ next[c] = route.size \/ (Streamed(c) /\ x \in over)
         /\ phase' = [phase EXCEPT ![c] = "failed"] /\ next' = next
  BY DEF TakeNext
<1>5. /\ phase' \in [Calls -> {"new", "running", "ok", "failed", "lost"}]
      /\ next' \in [Calls -> Nat]
      /\ \A d \in Calls : d # c => phase'[d] = phase[d] /\ next'[d] = next[d]
      /\ \/ phase'[c] = "ok" /\ next'[c] = next[c]
         \/ /\ work[x].at \notin {"ok", "empty"} /\ next[c] < route.size /\ ~(Streamed(c) /\ x \in over)
            /\ next'[c] = next[c] + 1 /\ phase'[c] = "running"
         \/ /\ work[x].at \notin {"ok", "empty"}
            /\ next[c] = route.size \/ (Streamed(c) /\ x \in over)
            /\ phase'[c] = "failed" /\ next'[c] = next[c]
  BY <1>1, <1>3, <1>4 DEF IInv, TypeOK, Active
<1>6. CallStep
  BY <1>1, <1>2 DEF CallStep, endpointVars, IInv, TypeOK
<1>7. \A d \in Calls : d # c => Aloof(d)
  BY <1>1, <1>2, <1>5 DEF Aloof, endpointVars
<1>8. \A y \in Threads : Call(y) = c => ~Running(y)
  <2>1. ASSUME NEW y \in Threads, Call(y) = c, Running(y)
        PROVE  FALSE
    <3>1. next[c] = Endpoint(y) /\ y = <<Call(y), Endpoint(y)>>
      BY <1>1, <1>3, <2>1, Pairs DEF CallPart
    <3> QED BY <1>1, <2>1, <3>1 DEF Returned
  <2> QED BY <2>1
<1>9. ASSUME c \notin canceled, work[x].at \notin {"ok", "empty"}
      PROVE  Hopeless(x)
  <2>1. x \notin over
    BY <1>1, <1>2, <1>3, <1>9 DEF CallPart, Active
  <2>2. attempts[x] # 0 /\ attempts[x] \in Nat
    BY <1>1, <1>2, <2>1 DEF Returned, IInv, TypeOK
  <2>3. work[x].at # "idle" /\ work[x].at \in {"idle", "sent", "reading", "remember", "save", "give"} \cup Ended
    BY <1>1, <1>2, <1>3, <2>2 DEF CallPart, Active, At, IInv, TypeOK, Works
  <2> QED BY <1>1, <1>2, <1>8, <1>9, <2>3 DEF Hopeless, Returned, Running, Waiting, Ended
<1>10. CallPart(c)'
  <2>1. phase'[c] \in {"new", "running", "ok", "failed", "lost"} /\ next'[c] \in 1..route.size
        /\ given'[c] \in Nat
    BY <1>1, <1>3, <1>5 DEF CallPart, endpointVars
  <2>2. ASSUME NEW y \in Threads, Call(y) = c
        PROVE  /\ ~Running(y)'
               /\ work'[y] = work[y] /\ attempts'[y] = attempts[y]
               /\ At(y, "idle") <=> attempts[y] = 0
               /\ y \in over' => c \in canceled
    BY <1>1, <1>3, <1>8, <2>2 DEF CallPart, endpointVars, Active, Running, Waiting
  <2>3. phase'[c] \in {"running", "ok", "failed"}
    BY <1>5
  <2>4. ASSUME given[c] # 0, c \notin missed, phase'[c] = "running"
        PROVE  Streamed(c) /\ c \in deaf
    <3>1. Streamed(c) /\ (c \in deaf \/ Delivered(x))
      BY <1>1, <1>3, <2>4 DEF CallPart, Once
    <3>2. work[x].at \notin {"ok", "empty"} /\ ~(Streamed(c) /\ x \in over)
      BY <1>5, <2>4
    <3>3. ~Delivered(x)
      BY <1>2, <1>8, <3>1, <3>2 DEF Delivered, Running, Waiting, At
    <3> QED BY <3>1, <3>3
  <2>5. ASSUME given[c] # 0, c \notin missed
        PROVE  given[c] = 1
    BY <1>3, <2>5 DEF CallPart, Once
  <2>6. ASSUME NEW y \in Threads, Call(y) = c, c \notin canceled, phase'[c] = "running",
               Endpoint(y) < next'[c]
        PROVE  Hopeless(y)
    <3>1. CASE Endpoint(y) < next[c]
      BY <1>1, <1>3, <2>6, <3>1 DEF CallPart
    <3>2. CASE ~(Endpoint(y) < next[c])
      <4>1. Endpoint(y) = next[c] /\ y = <<Call(y), Endpoint(y)>>
        <5>1. Endpoint(y) \in Nat /\ y = <<Call(y), Endpoint(y)>>
          BY Pairs, Constants
        <5>2. next[c] \in Nat
          BY <1>3
        <5>3. next'[c] = next[c] + 1
          <6>1. next'[c] # next[c]
            BY <2>6, <3>2
          <6> QED BY <1>5, <6>1
        <5> QED BY <2>6, <3>2, <5>1, <5>2, <5>3
      <4>2. y = x
        BY <4>1, <2>6
      <4> QED BY <4>2, <1>5, <1>9, <2>6
    <3> QED BY <3>1, <3>2
  <2>7. ASSUME c \notin deaf \cup canceled, phase'[c] = "failed", NEW y \in ThreadsOf(c)
        PROVE  Hopeless(y)
    <3>1. y \in Threads /\ Call(y) = c /\ Endpoint(y) <= route.size /\ y = <<Call(y), Endpoint(y)>>
      BY RouteTyped, Pairs DEF IInv
    <3>2. next[c] = route.size
      <4>1. x \notin over
        BY <1>1, <1>2, <1>3, <2>7 DEF CallPart, Active
      <4> QED BY <4>1, <1>5, <2>7
    <3>3. CASE Endpoint(y) < next[c]
      BY <1>1, <1>3, <2>7, <3>1, <3>3 DEF CallPart
    <3>4. CASE ~(Endpoint(y) < next[c])
      <4>1. Endpoint(y) = next[c]
        <5>1. Endpoint(y) \in Nat
          BY <3>1, Pairs, Constants
        <5> QED BY <1>3, <3>1, <3>2, <3>4, <5>1
      <4> QED BY <3>1, <4>1, <1>5, <1>9, <2>7
    <3> QED BY <3>3, <3>4
  <2>8. \A y \in Threads : Hopeless(y) => Hopeless(y)'
    BY <1>6, CallStepKeeps
  <2>9. /\ UNCHANGED <<given, missed, over, deaf, canceled, route>> /\ ~Concurrent
        /\ \A y \in ThreadsOf(c) : y \in Threads
    BY <1>1, RouteTyped DEF endpointVars, IInv
  <2> QED BY <2>1, <2>2, <2>3, <2>4, <2>5, <2>6, <2>7, <2>8, <2>9
          DEF CallPart, Once, At, Active, Streamed, Concurrent, ThreadsOf
<1> QED BY <1>1, <1>5, <1>6, <1>7, <1>10, CallKeeps DEF endpointVars, IInv, TypeOK

\* All at once: an answer is given, if it is, by the step that ends the call.
LEMMA TakeAnyKeeps ==
    ASSUME IInv, NEW x \in Threads, TakeAny(x)
    PROVE  IInv'
<1> DEFINE c == Call(x)
<1>1. /\ UNCHANGED <<work, memory, table, deaf, external, route, next, attempts, canceled>>
      /\ Active(c) /\ Concurrent /\ Returned(x) /\ taken' = taken \cup {x}
  BY DEF TakeAny
<1>2. PICK outcome \in {"ok", "failed", "running"} :
         /\ phase' = IF outcome = "running" THEN phase ELSE [phase EXCEPT ![c] = outcome]
         /\ outcome = "running" => over' = over /\ (At(x, "ok") => x \in over)
         /\ outcome # "running" => At(x, "ok") /\ over' = over \cup ThreadsOf(c)
         /\ outcome = "failed" => c \in deaf \cup canceled
         /\ \/ outcome = "ok" /\ Takes(x) /\ Give(x)
            \/ Quiet /\ UNCHANGED reader
  BY DEF TakeAny, GoodEnough
<1>3. /\ c \in Calls /\ CallPart(c) /\ ThreadsOf(c) \subseteq Threads
      /\ \A y \in ThreadsOf(c) : Call(y) = c
  BY Pairs, CallParts, RouteTyped DEF IInv, EveryPart
<1>4. (given[c] = 0 \/ c \in missed) /\ phase[c] = "running"
  BY <1>1, <1>3 DEF CallPart, Once, Active
<1>f. faults' \in Nat /\ disturbed' \in SUBSET Threads /\ disturbed \subseteq disturbed'
  <2>1. Fault(x) \/ Quiet
    BY <1>2 DEF Takes
  <2> QED BY <2>1, FaultTyped DEF IInv
<1>g. /\ given' \in [Calls -> Nat] /\ missed' \in SUBSET Calls /\ missed \subseteq missed'
      /\ \A d \in Calls : d # c => given'[d] = given[d] /\ (d \in missed' <=> d \in missed)
      /\ \/ given'[c] = given[c]
         \/ outcome = "ok" /\ given'[c] = given[c] + 1
  <2>1. CASE outcome = "ok" /\ Give(x)
    <3>1. given' = [given EXCEPT ![c] = given[c] + 1] /\ missed' = missed \cup ({c} \cap deaf)
      BY <2>1 DEF Give
    <3> QED BY <2>1, <3>1, <1>3 DEF IInv, TypeOK
  <2>2. CASE UNCHANGED reader
    BY <2>2 DEF reader, IInv, TypeOK
  <2> QED BY <1>2, <2>1, <2>2
<1>5. /\ phase' \in [Calls -> {"new", "running", "ok", "failed", "lost"}]
      /\ phase'[c] = outcome
      /\ \A d \in Calls : d # c => phase'[d] = phase[d]
  BY <1>2, <1>3, <1>4 DEF IInv, TypeOK
<1>6. CallStep
  <2>1. over \subseteq over' /\ over' \in SUBSET Threads
    BY <1>2, <1>3 DEF IInv, TypeOK
  <2> QED BY <1>1, <1>f, <2>1 DEF CallStep, external, IInv, TypeOK
<1>7. ASSUME NEW d \in Calls, d # c
      PROVE  Aloof(d)
  <2>1. ASSUME NEW y \in Threads, Call(y) = d
        PROVE  (y \in taken' <=> y \in taken) /\ (y \in over' => y \in over \/ d \in canceled')
    BY <1>1, <1>2, <1>3, <1>7, <2>1
  <2> QED BY <1>1, <1>5, <1>g, <1>7, <2>1 DEF Aloof
<1>8. CallPart(c)'
  <2>1. \A y \in Threads : Hopeless(y) => Hopeless(y)'
    BY <1>6, CallStepKeeps
  <2>2. ASSUME NEW y \in Threads, Call(y) = c
        PROVE  /\ At(y, "idle")' <=> attempts'[y] = 0
               /\ Running(y)' => work'[y].streamed = Streamed(c)'
               /\ y \in over => c \in canceled
    BY <1>1, <1>3, <1>4, <2>2 DEF CallPart, At, Running, Waiting, Streamed, Concurrent
  <2>3. ASSUME NEW y \in Threads, Call(y) = c, c \notin canceled, phase'[c] = "running", y \in taken'
        PROVE  Hopeless(y)
    <3>1. CASE y \in taken
      BY <1>1, <1>3, <2>3, <3>1 DEF CallPart
    <3>2. CASE y = x
      <4>1. x \notin over /\ work[x].at # "ok"
        BY <1>2, <1>5, <2>2, <2>3, <3>2 DEF At
      <4>2. attempts[x] # 0
        BY <1>1, <4>1 DEF Returned, IInv, TypeOK
      <4>3. work[x].at # "idle"
        BY <1>3, <1>4, <4>2 DEF CallPart, At
      <4>4. work[x].at \in {"idle", "sent", "reading", "remember", "save", "give"} \cup Ended
        BY DEF IInv, TypeOK, Works
      <4> QED BY <1>1, <3>2, <4>1, <4>3, <4>4 DEF Hopeless, Returned, Running, Waiting, Ended
    <3> QED BY <1>1, <2>3, <3>1, <3>2
  <2>4. Concurrent' /\ next'[c] \in 1..route'.size /\ given'[c] \in Nat
    BY <1>1, <1>3, <1>g DEF CallPart, Concurrent
  <2>5. /\ given'[c] # 0 /\ c \notin missed' => given'[c] = 1 /\ phase'[c] = "ok"
        /\ phase'[c] = "failed" => c \in deaf' \cup canceled'
        /\ phase'[c] \in {"running", "ok", "failed"}
        /\ over' # over => phase'[c] # "running"
    <3>1. given[c] \in Nat
      BY <1>3 DEF CallPart
    <3>2. given'[c] # 0 /\ c \notin missed' => given'[c] = 1 /\ phase'[c] = "ok"
      BY <3>1, <1>4, <1>5, <1>g
    <3> QED BY <3>2, <1>1, <1>2, <1>5
  <2>6. canceled' = canceled
    BY <1>1
  <2> QED BY <2>1, <2>2, <2>3, <2>4, <2>5, <2>6 DEF CallPart, Once, Active
<1> QED BY <1>1, <1>3, <1>5, <1>g, <1>6, <1>7, <1>8, CallKeeps DEF IInv, TypeOK

\* All results are taken, and none was an answer.
LEMMA AllTakenKeeps ==
    ASSUME IInv, NEW c \in Calls, AllTaken(c)
    PROVE  IInv'
<1>1. /\ UNCHANGED <<endpointVars, route, next, attempts, canceled, taken>>
      /\ Active(c) /\ Concurrent /\ ThreadsOf(c) \subseteq taken
      /\ phase' = [phase EXCEPT ![c] = "failed"]
  BY DEF AllTaken
<1>2. CallStep
  BY <1>1 DEF CallStep, endpointVars, IInv, TypeOK
<1>3. /\ phase' \in [Calls -> {"new", "running", "ok", "failed", "lost"}]
      /\ phase'[c] = "failed" /\ \A d \in Calls : d # c => phase'[d] = phase[d]
  BY <1>1 DEF IInv, TypeOK
<1>4. \A d \in Calls : d # c => Aloof(d)
  BY <1>1, <1>3 DEF Aloof, endpointVars
<1>5. /\ CallPart(c) /\ (given[c] = 0 \/ c \in missed)
      /\ \A y \in ThreadsOf(c) : y \in Threads /\ Call(y) = c
  BY <1>1, CallParts, RouteTyped DEF EveryPart, CallPart, Once, Active, IInv
<1>6. c \notin canceled => \A y \in ThreadsOf(c) : Hopeless(y)
  BY <1>1, <1>5 DEF CallPart
<1>7. CallPart(c)'
  <2>1. \A y \in Threads : Hopeless(y) => Hopeless(y)'
    BY <1>2, CallStepKeeps
  <2>2. ThreadsOf(c)' = ThreadsOf(c)
    BY <1>1 DEF ThreadsOf
  <2> QED BY <1>1, <1>3, <1>5, <1>6, <2>1, <2>2
          DEF CallPart, Once, endpointVars, At, Running, Waiting, Streamed, Concurrent, Active
<1> QED BY <1>1, <1>2, <1>3, <1>4, <1>7, CallKeeps DEF endpointVars, IInv, TypeOK

\* The caller gives up.
LEMMA CancelKeeps ==
    ASSUME IInv, NEW c \in Calls, Cancel(c)
    PROVE  IInv'
<1>1. ThreadsOf(c) \subseteq Threads /\ \A y \in ThreadsOf(c) : Call(y) = c
  BY RouteTyped DEF IInv
<1>2. CallStep
  BY <1>1 DEF Cancel, CallStep, external, IInv, TypeOK
<1>3. \A d \in Calls : Aloof(d)
  BY <1>1 DEF Cancel, Aloof, reader
<1>4. CallPart(c)'
  BY <1>2, <1>3, AloofKeeps
<1> QED BY <1>2, <1>3, <1>4, CallKeeps DEF Cancel, reader, IInv, TypeOK

\* The reader stops listening.
LEMMA StopUnheardKeeps ==
    ASSUME IInv, NEW c \in Calls, StopUnheard(c)
    PROVE  IInv'
<1>1. CallStep
  BY DEF StopUnheard, CallStep, external, routeVars, IInv, TypeOK
<1>2. \A d \in Calls : Aloof(d)
  BY DEF StopUnheard, Aloof, reader, routeVars
<1>3. CallPart(c)'
  BY <1>1, <1>2, AloofKeeps
<1> QED BY <1>1, <1>2, <1>3, CallKeeps DEF StopUnheard, reader, routeVars, IInv, TypeOK

\* An endpoint comes to serve something else: its threads are disturbed.
LEMMA UpstreamKeeps ==
    ASSUME IInv, NEW e \in Endpoints, UpstreamChanges(e), UNCHANGED routeVars
    PROVE  IInv'
<1>1. PICK u \in Upstreams : upstream' = [upstream EXCEPT ![e] = u]
  BY DEF UpstreamChanges
<1>2. /\ UNCHANGED <<work, memory, table, over, deaf, given, missed, faults, route, phase, next, attempts,
                     canceled, taken>>
      /\ changes' = changes + 1
      /\ disturbed' = disturbed \cup {x \in Threads : Endpoint(x) = e}
  BY DEF UpstreamChanges, reader, routeVars
<1>3. \A x \in Threads : x \notin disturbed' =>
          x \notin disturbed /\ upstream'[Endpoint(x)] = upstream[Endpoint(x)]
  BY <1>1, <1>2, Pairs DEF IInv, TypeOK
<1>4. TypeOK'
  BY <1>1, <1>2 DEF IInv, TypeOK
<1>5. WorkInv' /\ CallInv'
  BY <1>2 DEF IInv, WorkInv, CallInv, Running, Waiting, At, Streamed, Concurrent, Active
<1>6. GivenInv'
  BY <1>2 DEF IInv, GivenInv, Once, Streamed, Concurrent, Active, Delivered, At
<1>7. AsideInv'
  BY <1>2 DEF IInv, AsideInv, Hopeless, MayTryAgain, At, AttemptLimit, Streamed, Concurrent, Active
<1>8. FailsOnlyWhenAllFail'
  BY <1>2 DEF IInv, FailsOnlyWhenAllFail, MayTryAgain, At, AttemptLimit, Streamed, Concurrent, ThreadsOf
<1>9. LadderInv'
  BY <1>2, <1>3 DEF IInv, LadderInv, At
<1>10. AdaptationRecovers'
  BY <1>2, <1>3 DEF IInv, AdaptationRecovers, BeyondRepair
<1> QED BY <1>4, <1>5, <1>6, <1>7, <1>8, <1>9, <1>10 DEF IInv

\* The process is lost with its calls; the table is its memory again.
LEMMA RestartKeeps ==
    ASSUME IInv, Restart
    PROVE  IInv'
<1>1. /\ faults' = faults + 1 /\ memory' = table /\ work' = [x \in Threads |-> Idle]
      /\ over' = {} /\ disturbed' = {} /\ deaf' = {}
      /\ UNCHANGED <<table, given, missed, upstream, changes, route, next, attempts, canceled, taken>>
      /\ phase' = [c \in Calls |-> IF phase[c] = "new" THEN "new" ELSE "lost"]
  BY DEF Restart, RestartMemory, reader, external
<1>2. \A x \in Threads : work'[x] = Idle /\ Idle.at = "idle"
  BY <1>1, IdleTyped
<1>3. \A c \in Calls : phase'[c] = IF phase[c] = "new" THEN "new" ELSE "lost"
  BY <1>1
<1>4. TypeOK'
  <2>1. work' \in [Threads -> Works]
    BY <1>1, IdleTyped
  <2>2. phase' \in [Calls -> {"new", "running", "ok", "failed", "lost"}]
    BY <1>1
  <2> QED BY <1>1, <2>1, <2>2 DEF IInv, TypeOK
<1>5. WorkInv' /\ LadderInv' /\ AdaptationRecovers'
  BY <1>2 DEF WorkInv, LadderInv, AdaptationRecovers, Running, Waiting, At
<1>6. CallInv'
  <2>1. ASSUME NEW x \in Threads
        PROVE  /\ ~Running(x)' /\ At(x, "idle")' /\ Call(x) \in Calls
               /\ phase'[Call(x)] = "new" => phase[Call(x)] = "new"
    BY <1>2, <1>3, Pairs DEF Running, Waiting, At
  <2> QED BY <1>1, <1>3, <2>1 DEF IInv, CallInv
<1>7. GivenInv'
  <2>1. ASSUME NEW c \in Calls, given[c] # 0, c \notin missed
        PROVE  given[c] = 1 /\ phase'[c] = "lost"
    BY <1>3, <2>1 DEF IInv, GivenInv, Once
  <2> QED BY <1>1, <2>1 DEF GivenInv, Once, Active
<1>8. AsideInv'
  BY <1>3, Pairs DEF AsideInv, Active
<1>9. FailsOnlyWhenAllFail'
  BY <1>3 DEF FailsOnlyWhenAllFail
<1> QED BY <1>4, <1>5, <1>6, <1>7, <1>8, <1>9 DEF IInv

\* A step that changes nothing.
LEMMA InvStutters ==
    ASSUME IInv, UNCHANGED vars
    PROVE  IInv'
<1>1. /\ UNCHANGED <<work, memory, table, upstream, over, deaf, given, missed, faults, changes, disturbed>>
      /\ UNCHANGED <<route, phase, next, attempts, canceled, taken>>
  BY DEF vars, endpointVars, routeVars
<1>2. CallStep /\ \A c \in Calls : Aloof(c)
  BY <1>1 DEF CallStep, Aloof, IInv, TypeOK
<1>3. EveryPart'
  BY <1>2, AloofKeeps DEF EveryPart
<1>4. CallInv' /\ GivenInv' /\ AsideInv' /\ FailsOnlyWhenAllFail'
  BY <1>3, CallParts, PTL
<1>5. TypeOK'
  BY <1>1 DEF IInv, TypeOK
<1> QED BY <1>2, <1>4, <1>5, CallStepKeeps DEF IInv

\* Every step keeps the invariant.
LEMMA InvStep ==
    ASSUME IInv, [Next]_vars
    PROVE  IInv'
<1>1. CASE Next
  <2>1. CASE \E x \in Threads : Thread(x) \/ Attempt(x) \/ TakeAny(x)
    BY <2>1, ThreadKeeps, AttemptKeeps, TakeAnyKeeps
  <2>2. CASE \E c \in Calls : Start(c) \/ TakeNext(c) \/ AllTaken(c) \/ Cancel(c) \/ StopUnheard(c)
    BY <2>2, StartKeeps, TakeNextKeeps, AllTakenKeeps, CancelKeeps, StopUnheardKeeps
  <2>3. CASE \E e \in 1..route.size : UpstreamChanges(e) /\ UNCHANGED routeVars
    <3>1. 1..route.size \subseteq Endpoints
      BY RouteTyped, EndpointAssumption DEF RouteFacts, Endpoints, IInv
    <3> QED BY <2>3, <3>1, UpstreamKeeps
  <2> QED BY <1>1, <2>1, <2>2, <2>3, RestartKeeps DEF Next
<1> QED BY <1>1, InvStutters

\* The invariant holds at the start.
LEMMA InvInit ==
    ASSUME Init
    PROVE  IInv
<1>1. /\ work = [x \in Threads |-> Idle] /\ memory = [e \in Endpoints |-> Nothing] /\ table = memory
      /\ upstream \in [Endpoints -> Upstreams] /\ over = {} /\ deaf = {} /\ disturbed = {}
      /\ given = [c \in Calls |-> 0] /\ missed = {} /\ faults = 0 /\ changes = 0 /\ route \in Routes
      /\ phase = [c \in Calls |-> "new"] /\ next = [c \in Calls |-> 1]
      /\ attempts = [x \in Threads |-> 0] /\ canceled = {} /\ taken = {}
  BY DEF Init, EndpointInit
<1>2. \A x \in Threads : work[x] = Idle /\ Idle.at = "idle" /\ attempts[x] = 0 /\ Call(x) \in Calls
  BY <1>1, IdleTyped, Pairs
<1>3. \A c \in Calls : phase[c] = "new" /\ next[c] = 1 /\ given[c] = 0
  BY <1>1
<1>4. TypeOK
  <2>1. work \in [Threads -> Works]
    BY <1>1, IdleTyped
  <2>2. memory \in [Endpoints -> Ways] /\ table \in [Endpoints -> Ways]
    BY <1>1, Constants
  <2>3. 1 \in 1..route.size
    BY <1>1, RoutesAssumption
  <2>4. phase \in [Calls -> {"new", "running", "ok", "failed", "lost"}]
    BY <1>1
  <2>5. next \in [Calls -> Nat] /\ given \in [Calls -> Nat] /\ attempts \in [Threads -> Nat]
    BY <1>1
  <2> QED BY <1>1, <1>3, <2>1, <2>2, <2>3, <2>4, <2>5 DEF TypeOK
<1>5. WorkInv /\ LadderInv /\ AdaptationRecovers
  BY <1>2 DEF WorkInv, LadderInv, AdaptationRecovers, Running, Waiting, At
<1>6. CallInv
  BY <1>1, <1>2, <1>3 DEF CallInv, Running, Waiting, At
<1>7. GivenInv
  BY <1>3 DEF GivenInv, Once
<1>8. AsideInv /\ FailsOnlyWhenAllFail
  BY <1>2, <1>3 DEF AsideInv, FailsOnlyWhenAllFail, Active
<1> QED BY <1>4, <1>5, <1>6, <1>7, <1>8 DEF IInv

-----------------------------------------------------------------------------
\* generateAIResponseEnvelope, callProvider, callOpenAICompatible: the inductive
\* invariant, for every number of calls and endpoints, every route, every
\* assignment of what endpoints serve, any number of faults and changes.
THEOREM RoutingInvariant == Spec => []IInv
<1>1. Init => IInv
  BY InvInit
<1>2. IInv /\ [Next]_vars => IInv'
  BY InvStep
<1> QED BY <1>1, <1>2, PTL DEF Spec

\* Every variable keeps its type, in particular a thread that ends was begun.
THEOREM TypeCorrect == Spec => []TypeOK
<1>1. IInv => TypeOK
  BY DEF IInv
<1> QED BY <1>1, RoutingInvariant, PTL

\* OutputNotRepeated: whatever breaks, times out, is retried or is stopped, a
\* reader is given the text of two upstream requests only through a check that
\* failed after the stop.
THEOREM AnswerGivenOnce == Spec => []OutputNotRepeated
<1>1. ASSUME IInv, NEW c \in Calls \ missed
      PROVE  given[c] <= 1
  <2>1. given[c] = 0 \/ given[c] = 1
    BY <1>1 DEF IInv, GivenInv, Once
  <2> QED BY <2>1
<1>2. IInv => OutputNotRepeated
  BY <1>1 DEF OutputNotRepeated
<1> QED BY <1>2, RoutingInvariant, PTL

\* FailsOnlyWhenAllFail: no strategy gives up a call whose context lives while
\* an endpoint is unasked, is being asked, or is owed its second attempt.
THEOREM FailsAfterAll == Spec => []FailsOnlyWhenAllFail
<1>1. IInv => FailsOnlyWhenAllFail
  BY DEF IInv
<1> QED BY <1>1, RoutingInvariant, PTL

\* AdaptationRecovers: an undisturbed attempt fails only where BeyondRepair says
\* so, however stale the memory it began with and whatever other threads write
\* to it meanwhile.
THEOREM AdaptationFindsTheWay == Spec => []AdaptationRecovers
<1>1. IInv => AdaptationRecovers
  BY DEF IInv
<1> QED BY <1>1, RoutingInvariant, PTL
=============================================================================
