------------------------ MODULE ChatRunStream_proofs ------------------------
(***************************************************************************)
(* EveryEventOnce and ReleasedRunIsShown for any page size, any number of  *)
(* failures before the tab gives up, and any number of pieces of output,   *)
(* lost connections and requests, reloads, crashes and statements that     *)
(* fail.                                                                   *)
(* The invariant.  Numbered: no two events have one number.  WriterInv:    *)
(* what the log, the row and the conversation say of each other while the  *)
(* writers go through their steps.  PipeLogged: what is on its way is in   *)
(* the log.  ReleaseInv: whatever can still put messages on screen, or     *)
(* has, was read when the run was over.  PipeAscends: what is on its way   *)
(* comes in the order of its numbers, up to the position of the            *)
(* connection.  AloneInv and CoverInv: as long as the goroutine is the     *)
(* only writer, the log grows at its end, and nothing below a position has *)
(* been passed over.  OrderInv: as long as nothing broke, positions only   *)
(* move forward.                                                           *)
(***************************************************************************)
EXTENDS ChatRunStream, FiniteSetTheorems, SequenceTheorems, TLAPS

Outcomes == {"answer", "failure"}
OutcomeMessages == Outcomes \cup {"stopped"}
Events == [seq : Nat \ {0}, type : {"started", "delta"} \cup TerminalTypes,
           message : OutcomeMessages \cup {"none"}]
Places == {"work", "delta", "checked", "stored", "updated", "ended"}
Phases == {"loading", "reading", "waiting", "settling", "refreshing",
           "applying", "finished"}

TypeOK ==
    /\ nextSeq \in Nat \ {0}
    /\ inserting \in [Writers -> Events \cup {NoEvent}]
    /\ log \subseteq Events /\ IsFiniteSet(log)
    /\ row \in {"active"} \cup TerminalStatus
    /\ stored \subseteq OutcomeMessages
    /\ pc \in [Writers -> Places]
    /\ outcome \in Outcomes
    /\ conn \in [state : {"none", "fresh", "open", "closed", "broken"},
                 last : Nat, pipe : Seq(Events)]
    /\ client \in [phase : Phases, lastSeq : Nat, resumeFrom : Nat,
                   first : BOOLEAN, told : BOOLEAN, sawDone : BOOLEAN,
                   failures : Nat, read : SUBSET OutcomeMessages,
                   released : {"no", "event", "refresh", "reload", "lost"}]
    /\ applied \in Seq(Events)
    /\ shown \subseteq OutcomeMessages
    /\ reconcile \in [step : {"idle", "refresh", "apply"},
                      read : SUBSET OutcomeMessages]
    /\ viewing \in BOOLEAN
    /\ losses \in Nat /\ reloads \in Nat /\ crashes \in Nat
    /\ failed \subseteq {"check", "save", "end", "event"}

Pending(w) == inserting[w] # NoEvent

\* The numbers a sequence gives out.
Numbered ==
    /\ \A e \in log : e.seq < nextSeq
    /\ \A d, e \in log : d.seq = e.seq => d = e
    /\ \A w \in Writers : Pending(w) =>
          /\ inserting[w].seq < nextSeq
          /\ \A e \in log : e.seq # inserting[w].seq
          /\ \A v \in Writers : inserting[v].seq = inserting[w].seq => v = w

\* The statement that ends the row has failed, and the goroutine is gone.
Unended == row = "active" /\ "end" \in failed /\ pc["worker"] = "ended"

\* How a run stands, seen by whoever reads its log.
Standing == IF Unended THEN "unended" ELSE row

\* How it may stand once an event of this type is written, and what the event
\* carries.
Allows(e, standing) ==
    /\ e.type = "done" =>
          e.message = "answer" /\ standing \in {"completed", "canceled", "unended"}
    /\ e.type = "error" =>
          e.message \in {"failure", "none"} /\ standing \in {"failed", "canceled", "unended"}
    /\ e.type = "canceled" => standing = "canceled"

\* What the goroutine has to say is stored, unless that failed.
OutcomeStored == outcome \in stored \/ (outcome = "failure" /\ "save" \in failed)

WriterInv ==
    /\ \A e \in log : Allows(e, Standing)
    /\ \A w \in Writers : Allows(inserting[w], Standing)
    /\ pc["worker"] \in {"stored", "updated"} => OutcomeStored
    /\ pc["worker"] = "updated" => row # "active" \/ "end" \in failed
    /\ row \in {"completed", "failed"} =>
          /\ pc["worker"] \in {"updated", "ended"}
          /\ outcome = IF row = "completed" THEN "answer" ELSE "failure"
          /\ OutcomeStored
    /\ pc["canceler"] \in {"checked", "updated"} => row = "canceled"

\* A set of messages that has what the run ended with, if it ended by itself
\* and a message says so.
Shows(messages) ==
    /\ row = "completed" => "answer" \in messages
    /\ row = "failed" /\ "save" \notin failed => "failure" \in messages

\* Nothing is under way to the tab that is not in the log.
PipeLogged == \A i \in 1..Len(conn.pipe) : conn.pipe[i] \in log

ReleaseInv ==
    /\ client.phase \in {"refreshing", "applying"} => row \in TerminalStatus
    /\ reconcile.step # "idle" => row \in TerminalStatus
    /\ client.released \in {"refresh", "reload"} => row \in TerminalStatus
    /\ client.released = "event" => row \in TerminalStatus \/ Unended
    /\ client.sawDone => row \in {"completed", "canceled"} \/ Unended
    /\ client.phase = "applying" => Shows(client.read)
    /\ reconcile.step = "apply" => Shows(reconcile.read)
    /\ client.sawDone \/ client.released \in {"event", "refresh"} => Shows(shown)

Has(s, e) == \E i \in 1..Len(s) : s[i] = e
Ascending(s) == \A i, j \in 1..Len(s) : i < j => s[i].seq < s[j].seq

\* The pipe of a connection that is being served, up to the handler's position.
PipeAscends ==
    /\ Ascending(conn.pipe)
    /\ \A i \in 1..Len(conn.pipe) : conn.pipe[i].seq <= conn.last
    /\ conn.pipe # <<>> => conn.state \in {"fresh", "open", "closed"}

\* The positions in the log that the tab and the handler keep.
Positions == {client.lastSeq, client.resumeFrom, conn.last}

\* What the goroutine has still to commit comes after this number.
BeforeWorker(n) ==
    /\ n < nextSeq
    /\ Pending("worker") => n < inserting["worker"].seq

AloneInv ==
    row # "canceled" =>
        /\ pc["canceler"] \in {"work", "ended"} /\ ~Pending("canceler")
        /\ \A e \in log : BeforeWorker(e.seq)
        /\ \A n \in Positions : BeforeWorker(n)

CoverInv ==
    row # "canceled" =>
        \A e \in log :
            /\ e.seq <= client.lastSeq \/ e.seq <= client.resumeFrom => Has(applied, e)
            /\ conn.state \in {"fresh", "open", "closed"} /\ e.seq <= conn.last =>
                  Has(applied, e) \/ Has(conn.pipe, e)

OrderInv ==
    losses = 0 /\ crashes = 0 /\ (\A e \in log : ~Bare(e)) =>
        /\ conn.state # "broken"
        /\ client.phase \notin {"settling", "refreshing", "applying"}
        /\ client.phase \in {"loading", "waiting"} => client.resumeFrom = client.lastSeq
        /\ conn.state # "none" => client.lastSeq <= conn.last
        /\ \A i \in 1..Len(conn.pipe) : client.lastSeq < conn.pipe[i].seq
        /\ \A i \in 1..Len(applied) : applied[i].seq <= client.lastSeq
        /\ Ascending(applied)

IInv ==
    /\ TypeOK /\ Numbered /\ WriterInv
    /\ PipeLogged /\ ReleaseInv
    /\ PipeAscends /\ AloneInv /\ CoverInv /\ OrderInv

-----------------------------------------------------------------------------
(* The page a poll returns, in order.                                      *)

DistinctNumbers(events) == \A d, e \in events : d.seq = e.seq => d = e

UpTo(events, n) == {d \in events : d.seq <= n}

\* The place of an event among a finite set of them: how many there are up to
\* it. Of distinct numbers each has a place of its own, and all are taken.
LEMMA Ranked ==
    ASSUME NEW events \in SUBSET Events, IsFiniteSet(events), DistinctNumbers(events)
    PROVE  LET place == [e \in events |-> Cardinality(UpTo(events, e.seq))]
           IN  /\ Cardinality(events) \in Nat
               /\ place \in Bijection(events, 1..Cardinality(events))
               /\ \A d, e \in events : d.seq <= e.seq => place[d] <= place[e]
<1> DEFINE place == [e \in events |-> Cardinality(UpTo(events, e.seq))]
           N == Cardinality(events)
<1>1. N \in Nat /\ IsFiniteSet(1..N) /\ Cardinality(1..N) = N
  BY FS_CardinalityType, FS_Interval
<1>2. \A e \in events : e.seq \in Nat
  BY DEF Events
<1>3. ASSUME NEW e \in events
      PROVE  /\ IsFiniteSet(UpTo(events, e.seq)) /\ e \in UpTo(events, e.seq)
             /\ Cardinality(UpTo(events, e.seq)) \in 1..N
  <2>1. UpTo(events, e.seq) \in SUBSET events /\ e \in UpTo(events, e.seq)
    BY <1>2 DEF UpTo
  <2>2. IsFiniteSet(UpTo(events, e.seq)) /\ Cardinality(UpTo(events, e.seq)) <= N
    BY <2>1, FS_Subset
  <2>3. Cardinality(UpTo(events, e.seq)) \in Nat /\ Cardinality(UpTo(events, e.seq)) # 0
    BY <2>1, <2>2, FS_CardinalityType, FS_EmptySet
  <2> QED
    BY <1>1, <2>1, <2>2, <2>3
<1>4. place \in [events -> 1..N]
  BY <1>3
<1>5. ASSUME NEW d \in events, NEW e \in events, d.seq <= e.seq
      PROVE  /\ place[d] <= place[e]
             /\ place[d] = place[e] => d = e
  <2>1. UpTo(events, d.seq) \in SUBSET UpTo(events, e.seq)
    BY <1>2, <1>5 DEF UpTo
  <2>2. /\ Cardinality(UpTo(events, d.seq)) <= Cardinality(UpTo(events, e.seq))
        /\ Cardinality(UpTo(events, d.seq)) = Cardinality(UpTo(events, e.seq))
             => UpTo(events, e.seq) = UpTo(events, d.seq)
    BY <1>3, <2>1, FS_Subset
  <2>3. ASSUME UpTo(events, e.seq) = UpTo(events, d.seq) PROVE d = e
    <3>1. e \in UpTo(events, d.seq)
      BY <1>3, <2>3
    <3>2. e.seq <= d.seq
      BY <3>1 DEF UpTo
    <3>3. e.seq = d.seq
      BY <1>2, <1>5, <3>2
    <3> QED
      BY <3>3 DEF DistinctNumbers
  <2> QED
    BY <2>2, <2>3
<1>6. \A d, e \in events : place[d] = place[e] => d = e
  BY <1>2, <1>5
<1>7. place \in Injection(events, 1..N)
  BY <1>4, <1>6 DEF Injection, IsInjective
<1>8. place \in Surjection(events, 1..N)
  <2> HIDE DEF place
  <2> QED BY <1>1, <1>7, FS_Injection
<1>9. place \in Bijection(events, 1..N)
  BY <1>7, <1>8 DEF Bijection
<1> QED
  BY <1>1, <1>5, <1>9

\* ORDER BY seq: every event once, at its place.
LEMMA Ordered ==
    ASSUME NEW events \in SUBSET Events, IsFiniteSet(events), DistinctNumbers(events)
    PROVE  /\ InOrder(events) \in Seq(Events)
           /\ \A i \in 1..Len(InOrder(events)) : InOrder(events)[i] \in events
           /\ \A e \in events : Has(InOrder(events), e)
           /\ Ascending(InOrder(events))
<1> DEFINE N == Cardinality(events)
           place == [e \in events |-> Cardinality(UpTo(events, e.seq))]
           order == [i \in 1..N |-> CHOOSE e \in events : place[e] = i]
           Sorted(s) == \A i, j \in DOMAIN s : i < j => s[i].seq < s[j].seq
<1>1. /\ N \in Nat /\ place \in Bijection(events, 1..N)
      /\ \A d, e \in events : d.seq <= e.seq => place[d] <= place[e]
  BY Ranked
<1> HIDE DEF place
<1>2. /\ \A i \in 1..N : \E e \in events : place[e] = i
      /\ \A e \in events : place[e] \in 1..N
      /\ \A d, e \in events : place[d] = place[e] => d = e
  BY <1>1 DEF Bijection, Injection, Surjection, IsInjective
<1>3. order \in [1..N -> events] /\ \A i \in 1..N : place[order[i]] = i
  BY <1>2
<1>4. \A e \in events : e.seq \in Nat
  BY DEF Events
<1>5. ASSUME NEW i \in 1..N, NEW j \in 1..N, i < j
      PROVE  order[i].seq < order[j].seq
  <2>1. order[i] \in events /\ order[j] \in events /\ place[order[i]] = i /\ place[order[j]] = j
    BY <1>3
  <2> HIDE DEF order
  <2>2. ~(order[j].seq <= order[i].seq)
    BY <1>1, <1>5, <2>1
  <2> QED
    BY <1>4, <2>1, <2>2
<1>6. Sorted(order)
  BY <1>3, <1>5
<1> HIDE DEF order
<1>7. InOrder(events) \in [1..N -> events] /\ Sorted(InOrder(events))
  BY <1>3, <1>6 DEF InOrder
<1> DEFINE s == InOrder(events)
<1> HIDE DEF s
<1>8. s \in Seq(events) /\ Len(s) = N /\ DOMAIN s = 1..N
  BY <1>1, <1>7 DEF s
<1>9. s \in Seq(Events)
  BY <1>8, <1>7
<1>10. \A i \in 1..N : s[i] \in events
  BY <1>7 DEF s
<1>11. Sorted(s)
  BY <1>7 DEF s
<1>12. Ascending(s)
  BY <1>8, <1>11 DEF Ascending
<1>13. \A e \in events : Has(s, e)
  <2> DEFINE at == [i \in 1..N |-> place[s[i]]]
  <2>1. at \in [1..N -> 1..N]
    BY <1>2, <1>10
  <2>2. \A i, j \in 1..N : s[i] = s[j] => i = j
    <3> SUFFICES ASSUME NEW i \in 1..N, NEW j \in 1..N, s[i] = s[j], i # j
                 PROVE  FALSE
      OBVIOUS
    <3>1. s[i].seq \in Nat
      BY <1>4, <1>10
    <3>2. CASE i < j
      BY <1>8, <1>11, <3>1, <3>2
    <3>3. CASE j < i
      BY <1>8, <1>11, <3>1, <3>3
    <3> QED
      BY <1>1, <3>2, <3>3
  <2>3. s \in Injection(1..N, events)
    BY <1>7, <2>2 DEF s, Injection, IsInjective
  <2>4. IsFiniteSet(1..N) /\ Cardinality(1..N) = N
    BY <1>1, FS_Interval
  <2>5. s \in Surjection(1..N, events)
    BY <2>3, <2>4, FS_Injection
  <2> QED
    BY <1>8, <2>5 DEF Surjection, Has
<1> QED
  BY <1>8, <1>9, <1>10, <1>12, <1>13 DEF s

\* WHERE seq > last ORDER BY seq LIMIT PageSize: a page begins right after the
\* position and leaves nothing out up to its end, which is the next position.
LEMMA PageOf ==
    ASSUME TypeOK, Numbered, NEW last \in Nat
    PROVE  LET page == Page(last)
               newest == Newest(page, last)
           IN  /\ page \in SUBSET log /\ IsFiniteSet(page) /\ DistinctNumbers(page)
               /\ newest \in Nat /\ last <= newest
               /\ newest = last \/ \E e \in page : e.seq = newest
               /\ \A e \in page : last < e.seq /\ e.seq <= newest
               /\ \A e \in log : last < e.seq /\ e.seq <= newest => e \in page
<1> DEFINE page == Page(last)
           new == {e \in log : e.seq > last}
           newest == Newest(page, last)
           before(e) == {d \in new : d.seq < e.seq}
<1>1. log \in SUBSET Events /\ IsFiniteSet(log) /\ DistinctNumbers(log)
  BY DEF TypeOK, Numbered, DistinctNumbers
<1>2. \A e \in log : e.seq \in Nat
  BY <1>1 DEF Events
<1>3. page \in SUBSET log /\ page \in SUBSET Events
  BY <1>1 DEF Page
<1>4. IsFiniteSet(page) /\ DistinctNumbers(page)
  BY <1>1, <1>3, FS_Subset DEF DistinctNumbers
<1>5. \A e \in page : last < e.seq
  BY <1>2 DEF Page
<1>6. ASSUME NEW e \in page, NEW d \in log, last < d.seq, d.seq <= e.seq
      PROVE  d \in page
  <2>1. new \in SUBSET log /\ d \in new /\ e \in new
    BY <1>2, <1>3, <1>5, <1>6
  <2>2. before(d) \in SUBSET before(e) /\ before(e) \in SUBSET log
    BY <1>2, <1>3, <1>6
  <2>3. IsFiniteSet(before(e)) /\ IsFiniteSet(before(d))
    BY <1>1, <2>2, FS_Subset
  <2>4. /\ Cardinality(before(d)) <= Cardinality(before(e))
        /\ Cardinality(before(d)) \in Nat /\ Cardinality(before(e)) \in Nat
    BY <2>2, <2>3, FS_Subset, FS_CardinalityType
  <2>5. Cardinality(before(e)) < PageSize
    BY <1>6 DEF Page
  <2>6. Cardinality(before(d)) < PageSize
    BY <2>4, <2>5, ChatRunStreamAssumption
  <2> QED
    BY <2>1, <2>6 DEF Page
<1>7. \E n \in {last} \cup {e.seq : e \in page} : \A e \in page : e.seq <= n
  <2>1. CASE page = {}
    BY <2>1
  <2>2. CASE page # {}
    <3> DEFINE N == Cardinality(page)
               place == [e \in page |-> Cardinality(UpTo(page, e.seq))]
    <3>1. /\ N \in Nat /\ place \in Bijection(page, 1..N)
          /\ \A d, e \in page : d.seq <= e.seq => place[d] <= place[e]
      BY <1>3, <1>4, Ranked
    <3>2. N # 0
      BY <1>4, <2>2, FS_EmptySet
    <3> HIDE DEF place
    <3>3. PICK m \in page : place[m] = N
      BY <3>1, <3>2 DEF Bijection, Surjection
    <3>4. ASSUME NEW e \in page, ~(e.seq <= m.seq) PROVE FALSE
      <4>1. place[e] \in 1..N /\ place[m] <= place[e]
        BY <1>2, <1>3, <3>1, <3>4 DEF Bijection, Injection
      <4>2. place[e] = place[m]
        BY <3>1, <3>3, <4>1
      <4>3. e = m
        BY <3>1, <4>2 DEF Bijection, Injection, IsInjective
      <4> QED
        BY <1>2, <1>3, <3>4, <4>3
    <3> QED
      BY <3>4
  <2> QED
    BY <2>1, <2>2
<1>8. newest \in {last} \cup {e.seq : e \in page} /\ \A e \in page : e.seq <= newest
  BY <1>7 DEF Newest
<1>9. newest \in Nat /\ last <= newest
  BY <1>2, <1>3, <1>5, <1>8
<1>10. newest = last \/ \E e \in page : e.seq = newest
  BY <1>8
<1>11. \A e \in log : last < e.seq /\ e.seq <= newest => e \in page
  BY <1>2, <1>6, <1>10
<1> HIDE DEF page
<1> QED
  BY <1>3, <1>4, <1>5, <1>8, <1>9, <1>10, <1>11 DEF page

-----------------------------------------------------------------------------
(* Sequences of events.                                                    *)

\* An event is added at the end of what has been applied.
LEMMA HasAppended ==
    ASSUME NEW s \in Seq(Events), NEW e \in Events
    PROVE  /\ Append(s, e) \in Seq(Events)
           /\ Has(Append(s, e), e)
           /\ \A d : Has(s, d) => Has(Append(s, e), d)
           /\ \A i \in 1..Len(Append(s, e)) :
                 \/ i = Len(s) + 1 /\ Append(s, e)[i] = e
                 \/ i \in 1..Len(s) /\ Append(s, e)[i] = s[i]
<1>1. /\ Append(s, e) \in Seq(Events) /\ Len(s) \in Nat
      /\ Len(Append(s, e)) = Len(s) + 1
      /\ \A i \in 1..Len(s) : Append(s, e)[i] = s[i]
      /\ Append(s, e)[Len(s) + 1] = e
  BY AppendProperties, LenProperties
<1> QED
  BY <1>1 DEF Has

\* The first event is taken out of the pipe.
LEMMA HasTail ==
    ASSUME NEW s \in Seq(Events), s # <<>>
    PROVE  /\ Len(s) \in Nat \ {0} /\ Head(s) = s[1] /\ Head(s) \in Events
           /\ Tail(s) \in Seq(Events)
           /\ \A d : Has(s, d) => d = Head(s) \/ Has(Tail(s), d)
           /\ \A i \in 1..Len(Tail(s)) : i + 1 \in 1..Len(s) /\ Tail(s)[i] = s[i + 1]
<1>1. /\ Head(s) \in Events /\ Tail(s) \in Seq(Events)
      /\ Len(Tail(s)) = Len(s) - 1 /\ Len(s) \in Nat \ {0}
      /\ \A i \in 1..Len(Tail(s)) : Tail(s)[i] = s[i + 1]
  BY HeadTailProperties, EmptySeq
<1>2. Head(s) = s[1]
  BY DEF Head
<1>3. ASSUME NEW d, NEW i \in 1..Len(s), s[i] = d
      PROVE  d = Head(s) \/ Has(Tail(s), d)
  <2>1. CASE i = 1
    BY <1>2, <1>3, <2>1
  <2>2. CASE i # 1
    <3>1. i - 1 \in 1..Len(Tail(s)) /\ (i - 1) + 1 = i
      BY <1>1, <2>2
    <3>2. Tail(s)[i - 1] = s[i]
      BY <1>1, <3>1
    <3> QED
      BY <1>3, <3>1, <3>2 DEF Has
  <2> QED
    BY <2>1, <2>2
<1> QED
  BY <1>1, <1>2, <1>3 DEF Has

\* A page is written behind what the pipe still holds.
LEMMA HasConcat ==
    ASSUME NEW s \in Seq(Events), NEW t \in Seq(Events)
    PROVE  /\ s \o t \in Seq(Events)
           /\ \A d : Has(s, d) \/ Has(t, d) => Has(s \o t, d)
           /\ \A i \in 1..Len(s \o t) :
                 \/ i \in 1..Len(s) /\ (s \o t)[i] = s[i]
                 \/ \E j \in 1..Len(t) : i = Len(s) + j /\ (s \o t)[i] = t[j]
<1>1. /\ s \o t \in Seq(Events) /\ Len(s) \in Nat /\ Len(t) \in Nat
      /\ Len(s \o t) = Len(s) + Len(t)
      /\ \A i \in 1..Len(s) + Len(t) :
            (s \o t)[i] = IF i <= Len(s) THEN s[i] ELSE t[i - Len(s)]
  BY ConcatProperties, LenProperties
<1>2. \A d : Has(s, d) => Has(s \o t, d)
  BY <1>1 DEF Has
<1>3. ASSUME NEW d, NEW j \in 1..Len(t), t[j] = d PROVE Has(s \o t, d)
  <2>1. Len(s) + j \in 1..Len(s \o t) /\ (s \o t)[Len(s) + j] = t[j]
    BY <1>1
  <2> QED
    BY <1>3, <2>1 DEF Has
<1>4. ASSUME NEW i \in 1..Len(s \o t), i \notin 1..Len(s)
      PROVE  \E j \in 1..Len(t) : i = Len(s) + j /\ (s \o t)[i] = t[j]
  <2>1. i - Len(s) \in 1..Len(t) /\ i = Len(s) + (i - Len(s))
    BY <1>1, <1>4
  <2> QED
    BY <1>1, <1>4, <2>1
<1>5. \A d : Has(t, d) => Has(s \o t, d)
  BY <1>3 DEF Has
<1>6. \A i \in 1..Len(s) : (s \o t)[i] = s[i]
  BY <1>1
<1> QED
  BY <1>1, <1>2, <1>4, <1>5, <1>6

-----------------------------------------------------------------------------
(* The steps, by what they leave alone.                                    *)

Writing == Worker \/ Claim \/ Canceler
Network == Poll \/ Deadline \/ Lose
Tab == Stream \/ SettleFails \/ Reconcile \/ ReconcileFails \/ Navigate \/ Reload

\* A writer takes a number and begins to insert an event.
Starts(w, e) ==
    /\ ~Pending(w) /\ e.seq = nextSeq /\ nextSeq' = nextSeq + 1
    /\ inserting' = [inserting EXCEPT ![w] = e]

\* The steps by who takes them: a writer before or after its insert, the
\* commit of an insert, the stream on its way to the tab, a crash of the
\* server, the tab.
LEMMA StepCases ==
    ASSUME [Next]_vars
    PROVE  \/ Writing \/ (\E w \in Writers : Commit(w)) \/ Network \/ Crash \/ Tab
           \/ UNCHANGED vars
BY DEF Next, Writing, Network, Tab, Quiescent

\* A writer that is not waiting for its statement changes neither the log nor
\* anything on the way to the tab.
LEMMA WritingFrame ==
    ASSUME Writing
    PROVE  UNCHANGED <<log, conn, tabVars, limits>>
BY DEF Writing, Worker, AcceptDelta, Emit, Check, Save, EndRow, Announce, Claim,
       Canceler, SaveNotice, AnnounceCanceled, Insert, logVars, runVars, bounds

\* What a writer sends to the log.
LEMMA WritingInserts ==
    ASSUME TypeOK, Writing
    PROVE  \/ UNCHANGED <<nextSeq, inserting>>
           \/ \E w \in Writers : \E e \in Events : Starts(w, e)
<1>1. ASSUME NEW w \in Writers, ~Pending(w),
             NEW type \in {"delta"} \cup TerminalTypes,
             NEW message \in OutcomeMessages \cup {"none"}, Insert(w, type, message)
      PROVE  UNCHANGED <<nextSeq, inserting>> \/ \E e \in Events : Starts(w, e)
  <2> DEFINE e == [seq |-> nextSeq, type |-> type, message |-> message]
  <2>1. e \in Events /\ e.seq = nextSeq
    BY DEF Events, TypeOK
  <2> QED
    BY <1>1, <2>1 DEF Insert, Starts, logVars
<1>2. CASE Emit
  BY <1>1, <1>2 DEF Emit, At, Pending, Writers
<1>3. CASE Announce
  BY <1>1, <1>3 DEF Announce, At, Pending, Writers, TerminalTypes, TypeOK, Outcomes,
     OutcomeMessages
<1>4. CASE AnnounceCanceled
  BY <1>1, <1>4 DEF AnnounceCanceled, At, Pending, Writers, TerminalTypes, OutcomeMessages
<1>5. CASE ~Emit /\ ~Announce /\ ~AnnounceCanceled
  BY <1>5 DEF Writing, Worker, AcceptDelta, Check, Save, EndRow, Claim,
              Canceler, SaveNotice, logVars, runVars
<1> QED
  BY <1>2, <1>3, <1>4, <1>5

\* The tab reads what the server keeps and writes none of it.
LEMMA TabFrame ==
    ASSUME Tab
    PROVE  /\ UNCHANGED serverVars /\ UNCHANGED <<crashes, failed>>
           /\ UNCHANGED losses \/ losses' = losses + 1
BY DEF Tab, Stream, Reconcile, Receive, EndOfStream, BrokenStream, Settle,
       SettleRead, SettleApply, SettleFails, Resubscribe, Resume, ReconcileList,
       ReconcileRead, ReconcileApply, ReconcileFails, Navigate, Reload, bounds, limits

\* What happens on the way touches neither the server's data nor the tab.
LEMMA NetworkFrame ==
    ASSUME Network
    PROVE  UNCHANGED <<serverVars, tabVars, crashes, failed>>
BY DEF Network, Poll, Deadline, Lose, serverVars, bounds, limits

\* A statement that has failed stays one that has.
LEMMA FailedGrows ==
    ASSUME [Next]_vars
    PROVE  failed \subseteq failed'
<1>1. CASE Writing
  BY <1>1 DEF Writing, Worker, AcceptDelta, Emit, Check, Save, EndRow, Announce, Claim,
       Canceler, SaveNotice, AnnounceCanceled, Insert, Fails, Works, bounds
<1>2. CASE ~Writing
  BY <1>2, StepCases, NetworkFrame, TabFrame DEF Commit, Crash, bounds, vars
<1> QED
  BY <1>1, <1>2

-----------------------------------------------------------------------------
(* Types.                                                                  *)

\* emit, the stop handler and failActiveChatRun write what the types allow.
LEMMA TypeWriting ==
    ASSUME TypeOK, Writing
    PROVE  TypeOK'
<1> USE DEF TypeOK
<1>1. UNCHANGED <<log, conn, client, applied, shown, reconcile, viewing,
                  losses, reloads, crashes>>
  BY WritingFrame DEF tabVars, limits
<1>2. nextSeq' \in Nat \ {0} /\ inserting' \in [Writers -> Events \cup {NoEvent}]
  <2>1. CASE UNCHANGED <<nextSeq, inserting>>
    BY <2>1
  <2>2. ASSUME NEW w \in Writers, NEW e \in Events, Starts(w, e)
        PROVE  nextSeq' \in Nat \ {0} /\ inserting' \in [Writers -> Events \cup {NoEvent}]
    BY <2>2 DEF Starts
  <2> QED
    BY <2>1, <2>2, WritingInserts
<1>3. pc' \in [Writers -> Places]
  BY DEF Writing, Worker, AcceptDelta, Emit, Check, Save, EndRow, Announce, Claim,
         Canceler, SaveNotice, AnnounceCanceled, Goto, Places
<1>4. /\ row' \in {"active"} \cup TerminalStatus
      /\ stored' \subseteq OutcomeMessages
      /\ outcome' \in Outcomes
  BY DEF Writing, Worker, AcceptDelta, Emit, Check, Save, EndRow, Announce, Claim,
         Canceler, SaveNotice, AnnounceCanceled, TerminalStatus, OutcomeMessages,
         Outcomes
<1>5. failed' \subseteq {"check", "save", "end", "event"}
  BY DEF Writing, Worker, AcceptDelta, Emit, Check, Save, EndRow, Announce, Claim,
         Canceler, SaveNotice, AnnounceCanceled, Insert, Fails, Works, bounds
<1> QED
  BY <1>1, <1>2, <1>3, <1>4, <1>5

\* A committed insert is one more event of a log that stays finite.
LEMMA TypeCommit ==
    ASSUME TypeOK, NEW w \in Writers, Commit(w)
    PROVE  TypeOK'
<1> USE DEF TypeOK
<1>1. /\ UNCHANGED <<nextSeq, row, stored, pc, outcome, conn, client, applied, shown,
                     reconcile, viewing, losses, reloads, crashes, failed>>
      /\ inserting' = [inserting EXCEPT ![w] = NoEvent]
      /\ log' = log \cup {inserting[w]}
      /\ inserting[w] \in Events
  BY DEF Commit, runVars, tabVars, bounds, limits
<1>2. IsFiniteSet(log')
  BY <1>1, FS_AddElement
<1>3. log' \subseteq Events /\ inserting' \in [Writers -> Events \cup {NoEvent}]
  BY <1>1
<1> QED
  BY <1>1, <1>2, <1>3

\* What a poll makes of the connection.
LEMMA PollConn ==
    ASSUME TypeOK, Numbered, Poll
    PROVE  \E page \in SUBSET log :
              /\ \A e \in log : e \in page <=> conn.last < e.seq /\ e.seq <= conn'.last
              /\ IsFiniteSet(page) /\ DistinctNumbers(page)
              /\ conn'.last \in Nat /\ conn.last <= conn'.last
              /\ conn'.last = conn.last \/ \E e \in page : e.seq = conn'.last
              /\ conn'.pipe = conn.pipe \o InOrder(page)
              /\ conn.state \in {"fresh", "open"} /\ conn'.state \in {"open", "closed"}
              /\ conn' = [state |-> conn'.state, last |-> conn'.last, pipe |-> conn'.pipe]
<1> DEFINE page == Page(conn.last)
<1>1. /\ conn.state \in {"fresh", "open"}
      /\ conn' = [state |-> IF \E e \in page : e.type \in TerminalTypes
                            THEN "closed" ELSE "open",
                  last |-> Newest(page, conn.last),
                  pipe |-> conn.pipe \o InOrder(page)]
  BY DEF Poll
<1>2. conn.last \in Nat
  BY DEF TypeOK
<1>3. /\ page \in SUBSET log /\ IsFiniteSet(page) /\ DistinctNumbers(page)
      /\ Newest(page, conn.last) \in Nat /\ conn.last <= Newest(page, conn.last)
      /\ Newest(page, conn.last) = conn.last \/ \E e \in page : e.seq = Newest(page, conn.last)
      /\ \A e \in page : conn.last < e.seq /\ e.seq <= Newest(page, conn.last)
      /\ \A e \in log : conn.last < e.seq /\ e.seq <= Newest(page, conn.last) => e \in page
  BY <1>2, PageOf
<1> HIDE DEF page
<1>4. conn'.last = Newest(page, conn.last) /\ conn'.pipe = conn.pipe \o InOrder(page)
  BY <1>1
<1>5. conn'.state \in {"open", "closed"}
  BY <1>1
<1>6. conn' = [state |-> conn'.state, last |-> conn'.last, pipe |-> conn'.pipe]
  BY <1>1
<1> QED
  BY <1>1, <1>3, <1>4, <1>5, <1>6

\* listChatRunEventsAfter sends a finite page as a sequence of events.
LEMMA TypeNetwork ==
    ASSUME TypeOK, Numbered, Network \/ Crash
    PROVE  TypeOK'
<1> USE DEF TypeOK
<1>1. CASE Poll
  <2>1. UNCHANGED <<logVars, runVars, tabVars, bounds>>
    BY <1>1 DEF Poll
  <2>2. PICK page \in SUBSET log :
           /\ IsFiniteSet(page) /\ DistinctNumbers(page)
           /\ conn'.last \in Nat
           /\ conn'.pipe = conn.pipe \o InOrder(page)
           /\ conn'.state \in {"open", "closed"}
           /\ conn' = [state |-> conn'.state, last |-> conn'.last, pipe |-> conn'.pipe]
    BY <1>1, PollConn
  <2>3. conn'.pipe \in Seq(Events)
    <3>1. page \in SUBSET Events /\ conn.pipe \in Seq(Events)
      OBVIOUS
    <3>2. InOrder(page) \in Seq(Events)
      BY <2>2, <3>1, Ordered
    <3> QED
      BY <2>2, <3>1, <3>2, HasConcat
  <2>4. conn' \in [state : {"none", "fresh", "open", "closed", "broken"},
                   last : Nat, pipe : Seq(Events)]
    BY <2>2, <2>3
  <2> QED
    BY <2>1, <2>4 DEF logVars, runVars, tabVars, bounds, limits
<1>2. CASE Deadline
  BY <1>2 DEF Deadline, logVars, runVars, tabVars, bounds, limits
<1>3. CASE Lose
  <2>1. <<>> \in Seq(Events)
    OBVIOUS
  <2>2. /\ UNCHANGED <<logVars, runVars, tabVars, reloads, crashes, failed>>
        /\ losses' \in Nat /\ conn' = [conn EXCEPT !.state = "broken", !.pipe = <<>>]
    BY <1>3 DEF Lose
  <2>3. conn' \in [state : {"none", "fresh", "open", "closed", "broken"},
                   last : Nat, pipe : Seq(Events)]
    BY <2>1, <2>2
  <2> QED BY <2>2, <2>3 DEF logVars, runVars, tabVars
<1>4. CASE Crash
  <2>1. <<>> \in Seq(Events)
    OBVIOUS
  <2>2. conn' \in [state : {"none", "fresh", "open", "closed", "broken"},
                   last : Nat, pipe : Seq(Events)]
    BY <1>4, <2>1 DEF Crash
  <2>3. pc' \in [Writers -> Places] /\ inserting' \in [Writers -> Events \cup {NoEvent}]
    BY <1>4 DEF Crash, Places
  <2> QED BY <1>4, <2>2, <2>3 DEF Crash, tabVars
<1> QED
  BY <1>1, <1>2, <1>3, <1>4 DEF Network

\* An exception and a failed request leave the tab waiting, or it gives up.
LEMMA GivesUp ==
    ASSUME TypeOK, NEW c, c \in [phase : Phases, lastSeq : Nat, resumeFrom : Nat,
                   first : BOOLEAN, told : BOOLEAN, sawDone : BOOLEAN,
                   failures : Nat, read : SUBSET OutcomeMessages,
                   released : {"no", "event", "refresh", "reload", "lost"}],
           c.released = "no"
    PROVE  \A d \in {Thrown(c), NextAttempt(c)} :
              /\ d.phase \in {"settling", "waiting", "finished"}
              /\ d.released \in {"no", "lost"}
              /\ d.sawDone => c.sawDone
              /\ d.lastSeq = c.lastSeq /\ d.resumeFrom \in {c.resumeFrom, 0}
              /\ d.phase = "waiting" => d = NextAttempt(c)
BY DEF Thrown, NextAttempt, Release, NewClient

\* The tab's position when it applies an event.
Noted(e) == [client EXCEPT !.lastSeq = e.seq, !.told = @ \/ e.type = "started"]

\* It is a client of its type, and all else about it is as it was.
LEMMA NotedClient ==
    ASSUME TypeOK, NEW e \in Events
    PROVE  /\ Noted(e) \in [phase : Phases, lastSeq : Nat, resumeFrom : Nat,
                   first : BOOLEAN, told : BOOLEAN, sawDone : BOOLEAN,
                   failures : Nat, read : SUBSET OutcomeMessages,
                   released : {"no", "event", "refresh", "reload", "lost"}]
           /\ Noted(e).lastSeq = e.seq /\ Noted(e).phase = client.phase
           /\ Noted(e).released = client.released /\ Noted(e).sawDone = client.sawDone
           /\ Noted(e).resumeFrom = client.resumeFrom
BY DEF TypeOK, Noted, Events

\* Every step of the tab keeps its position, its phase and what it shows
\* within their types.
LEMMA TypeTab ==
    ASSUME TypeOK, Tab
    PROVE  TypeOK'
<1> USE DEF TypeOK, Phases
<1> DEFINE ConnType == [state : {"none", "fresh", "open", "closed", "broken"},
                        last : Nat, pipe : Seq(Events)]
           ClientType == [phase : Phases, lastSeq : Nat, resumeFrom : Nat,
                          first : BOOLEAN, told : BOOLEAN, sawDone : BOOLEAN,
                          failures : Nat, read : SUBSET OutcomeMessages,
                          released : {"no", "event", "refresh", "reload", "lost"}]
<1>1. /\ UNCHANGED <<nextSeq, inserting, log, row, stored, pc, outcome, crashes, failed>>
      /\ losses' \in Nat
  BY TabFrame DEF serverVars, logVars, runVars
<1>2. NoConn \in ConnType
  BY DEF NoConn
<1>3. \A n \in Nat : OpenConn(n) \in ConnType
  BY DEF OpenConn
<1>4. NewClient \in ClientType
  BY DEF NewClient
<1>5. \A c \in ClientType : \A how \in {"event", "refresh", "reload", "lost"} :
         Release(c, how) \in ClientType
  BY <1>4 DEF Release
<1>50. \A c \in ClientType : Thrown(c) \in ClientType /\ NextAttempt(c) \in ClientType
  <2> SUFFICES ASSUME NEW c \in ClientType
               PROVE  Thrown(c) \in ClientType /\ NextAttempt(c) \in ClientType
    OBVIOUS
  <2>1. Release(c, "lost") \in ClientType
    BY <1>5
  <2>2. c.failures + 1 \in Nat
    OBVIOUS
  <2>3. [c EXCEPT !.phase = "settling", !.failures = c.failures + 1] \in ClientType
    BY <2>2
  <2>4. [c EXCEPT !.phase = "waiting"] \in ClientType
    OBVIOUS
  <2>5. \/ Thrown(c) = Release(c, "lost")
        \/ Thrown(c) = [c EXCEPT !.phase = "settling", !.failures = c.failures + 1]
    BY DEF Thrown
  <2>6. NextAttempt(c) = Release(c, "lost") \/ NextAttempt(c) = [c EXCEPT !.phase = "waiting"]
    BY DEF NextAttempt
  <2> HIDE DEF ClientType
  <2> QED
    BY <2>1, <2>3, <2>4, <2>5, <2>6
<1>51. client \in ClientType
  OBVIOUS
<1>6. CASE Receive
  <2> DEFINE e == Head(conn.pipe)
  <2>1. /\ conn.pipe \in Seq(Events) /\ conn.pipe # <<>>
        /\ applied' = Append(applied, e)
        /\ shown' = shown \cup ({e.message} \ {"none"})
        /\ conn' = IF e.type \in {"canceled", "error"} THEN NoConn
                   ELSE [conn EXCEPT !.pipe = Tail(@)]
        /\ UNCHANGED <<reconcile, viewing, reloads>>
    BY <1>6 DEF Receive, bounds, limits
  <2>2. e \in Events /\ Tail(conn.pipe) \in Seq(Events)
    BY <2>1, HasTail
  <2>3. e.seq \in Nat /\ e.message \in OutcomeMessages \cup {"none"}
    BY <2>2 DEF Events
  <2>4. client' \in ClientType
    <3>1. Noted(e) \in ClientType
      BY <2>2, NotedClient
    <3>2. \/ client' \in {Noted(e), [Noted(e) EXCEPT !.sawDone = TRUE]}
          \/ client' = Thrown(Noted(e)) \/ client' = Release(Noted(e), "event")
      BY <1>6 DEF Receive, Noted
    <3>3. [Noted(e) EXCEPT !.sawDone = TRUE] \in ClientType
      BY <3>1
    <3> HIDE DEF ClientType
    <3> QED BY <1>5, <1>50, <3>1, <3>2, <3>3
  <2>5. applied' \in Seq(Events)
    BY <2>1, <2>2
  <2>6. shown' \subseteq OutcomeMessages
    BY <2>1, <2>3
  <2>7. conn' \in ConnType
    BY <1>2, <2>1, <2>2
  <2> QED
    BY <1>1, <2>1, <2>4, <2>5, <2>6, <2>7
<1>7. CASE EndOfStream
  <2>1. client' \in ClientType
    <3> DEFINE waiting == [client EXCEPT !.phase = "waiting", !.first = FALSE,
                                         !.failures = 0, !.resumeFrom = client.lastSeq]
    <3>1. waiting \in ClientType
      OBVIOUS
    <3>2. \/ client' = Release(client, "event") \/ client' = Release(client, "lost")
          \/ client' = waiting
      BY <1>7 DEF EndOfStream
    <3> HIDE DEF waiting, ClientType
    <3> QED BY <1>5, <1>51, <3>1, <3>2
  <2> QED BY <1>1, <1>2, <1>7, <2>1 DEF EndOfStream, bounds, limits
<1>8. CASE BrokenStream
  <2>1. client' \in ClientType
    BY <1>8, <1>50, <1>51 DEF BrokenStream
  <2> QED BY <1>1, <1>2, <1>8, <2>1 DEF BrokenStream, bounds, limits
<1>9. CASE Settle \/ SettleRead \/ SettleApply \/ Resume
  <2>1. client' \in ClientType
    <3>1. CASE Settle
      BY <1>50, <1>51, <3>1 DEF Settle
    <3>2. CASE SettleRead
      BY <3>2 DEF SettleRead
    <3>3. CASE SettleApply
      BY <1>5, <1>51, <3>3 DEF SettleApply
    <3>4. CASE Resume
      <4>1. [client EXCEPT !.phase = "waiting"] \in ClientType /\ Release(client, "reload") \in ClientType
        BY <1>5, <1>51
      <4> HIDE DEF ClientType
      <4> QED BY <3>4, <4>1 DEF Resume
    <3> QED BY <1>9, <3>1, <3>2, <3>3, <3>4
  <2>2. shown' \subseteq OutcomeMessages /\ UNCHANGED <<conn, applied, reconcile, viewing, reloads>>
    BY <1>9 DEF Settle, SettleRead, SettleApply, Resume, bounds, limits
  <2> QED BY <1>1, <2>1, <2>2
<1>10. CASE Resubscribe
  <2>1. conn' \in ConnType
    BY <1>3, <1>10 DEF Resubscribe
  <2>2. client' \in ClientType
    BY <1>10 DEF Resubscribe
  <2> QED BY <1>1, <1>10, <2>1, <2>2 DEF Resubscribe, bounds, limits
<1>11. CASE Reconcile
  <2>1. client' \in ClientType /\ conn' \in ConnType
    BY <1>2, <1>5, <1>51, <1>11 DEF Reconcile, ReconcileList, ReconcileRead, ReconcileApply
  <2>2. /\ shown' \subseteq OutcomeMessages
        /\ reconcile' \in [step : {"idle", "refresh", "apply"}, read : SUBSET OutcomeMessages]
        /\ UNCHANGED <<applied, viewing, reloads>>
    BY <1>11 DEF Reconcile, ReconcileList, ReconcileRead, ReconcileApply, bounds, limits
  <2> QED BY <1>1, <2>1, <2>2
<1>12. CASE Navigate
  BY <1>1, <1>12 DEF Navigate, bounds, limits
<1>13. CASE Reload
  <2>1. client' \in ClientType
    BY <1>4, <1>13 DEF Reload
  <2>2. reloads' \in Nat
    BY <1>13 DEF Reload
  <2>3. /\ applied' = <<>> /\ <<>> \in Seq(Events)
        /\ reconcile' = [step |-> "idle", read |-> {}]
    BY <1>13 DEF Reload
  <2> QED BY <1>1, <1>2, <1>13, <2>1, <2>2, <2>3 DEF Reload
<1>14. CASE SettleFails
  BY <1>1, <1>14, <1>50, <1>51 DEF SettleFails
<1>15. CASE ReconcileFails
  BY <1>1, <1>15 DEF ReconcileFails
<1> QED
  BY <1>6, <1>7, <1>8, <1>9, <1>10, <1>11, <1>12, <1>13, <1>14, <1>15 DEF Tab, Stream

\* TypeOK is preserved; sending a page needs its numbers to be distinct.
LEMMA TypeStep ==
    ASSUME TypeOK, Numbered, [Next]_vars
    PROVE  TypeOK'
<1>1. CASE UNCHANGED vars
  BY <1>1 DEF TypeOK, vars, logVars, runVars, tabVars, bounds, limits
<1> QED
  BY <1>1, StepCases, TypeWriting, TypeCommit, TypeNetwork, TypeTab

-----------------------------------------------------------------------------
(* Numbers, and what the writers leave behind.                             *)

\* chat_run_events.seq: a number is given once.
LEMMA NumberedStep ==
    ASSUME TypeOK, Numbered, [Next]_vars
    PROVE  Numbered'
<1> USE DEF Numbered, Pending
<1>1. CASE Writing
  <2>1. UNCHANGED log
    BY <1>1, WritingFrame
  <2>2. CASE UNCHANGED <<nextSeq, inserting>>
    BY <2>1, <2>2
  <2>3. ASSUME NEW w \in Writers, NEW event \in Events, Starts(w, event)
        PROVE  Numbered'
    <3>1. /\ nextSeq \in Nat /\ nextSeq' = nextSeq + 1 /\ event.seq = nextSeq
          /\ inserting \in [Writers -> Events \cup {NoEvent}]
          /\ inserting' = [inserting EXCEPT ![w] = event]
      BY <2>3 DEF Starts, TypeOK
    <3>2. \A v \in Writers \ {w} : inserting'[v] = inserting[v]
      BY <3>1
    <3>3. inserting'[w].seq = nextSeq
      BY <3>1
    <3>4. \A e \in log : e.seq \in Nat
      BY DEF TypeOK, Events
    <3>5. \A v \in Writers : inserting[v].seq \in Nat /\ (inserting[v] = NoEvent \/ inserting[v].seq < nextSeq)
      BY <3>1 DEF Events, NoEvent
    <3>6. \A v \in Writers \ {w} : inserting'[v].seq \in Nat /\ inserting'[v].seq # nextSeq
      BY <3>1, <3>2, <3>5 DEF NoEvent, TypeOK
    <3>7. \A e \in log' : e.seq < nextSeq'
      BY <2>1, <3>1, <3>4
    <3>8. ASSUME NEW v \in Writers, inserting'[v] # NoEvent
          PROVE  /\ inserting'[v].seq < nextSeq'
                 /\ \A e \in log' : e.seq # inserting'[v].seq
                 /\ \A u \in Writers : inserting'[u].seq = inserting'[v].seq => u = v
      <4>1. CASE v = w
        BY <2>1, <3>1, <3>3, <3>4, <3>6, <4>1
      <4>2. CASE v # w
        BY <2>1, <3>1, <3>2, <3>3, <3>5, <3>6, <3>8, <4>2
      <4> QED
        BY <4>1, <4>2
    <3> QED
      BY <2>1, <3>7, <3>8
  <2> QED
    BY <1>1, <2>2, <2>3, WritingInserts
<1>2. ASSUME NEW w \in Writers, Commit(w)
      PROVE  Numbered'
  <2>1. /\ UNCHANGED nextSeq /\ inserting[w] # NoEvent
        /\ inserting' = [inserting EXCEPT ![w] = NoEvent]
        /\ log' = log \cup {inserting[w]}
    BY <1>2 DEF Commit
  <2>2. inserting \in [Writers -> Events \cup {NoEvent}]
    BY DEF TypeOK
  <2>3. \A v \in Writers \ {w} : inserting'[v] = inserting[v]
    BY <2>1, <2>2
  <2>4. inserting'[w] = NoEvent
    BY <2>1, <2>2
  <2>5. inserting[w].seq # 0
    BY <2>1, <2>2 DEF Events
  <2>6. \A e \in log' : e.seq < nextSeq'
    BY <2>1
  <2>7. \A d, e \in log' : d.seq = e.seq => d = e
    BY <2>1
  <2>8. ASSUME NEW v \in Writers, inserting'[v] # NoEvent
        PROVE  /\ inserting'[v].seq < nextSeq'
               /\ \A e \in log' : e.seq # inserting'[v].seq
               /\ \A u \in Writers : inserting'[u].seq = inserting'[v].seq => u = v
    <3>1. v # w /\ inserting'[v] = inserting[v]
      BY <2>3, <2>4, <2>8
    <3>2. inserting[v] # NoEvent
      BY <2>8, <3>1
    <3>3. \A e \in log' : e.seq # inserting[v].seq
      BY <2>1, <3>1, <3>2
    <3>4. inserting[v].seq # 0
      BY <2>2, <3>2 DEF Events
    <3>5. \A u \in Writers : inserting'[u].seq = inserting[v].seq => u = v
      BY <2>3, <2>4, <3>2, <3>4 DEF NoEvent
    <3> QED
      BY <2>1, <3>1, <3>2, <3>3, <3>5
  <2> QED
    BY <2>6, <2>7, <2>8
<1>3. CASE Crash
  BY <1>3 DEF Crash
<1>4. CASE Network \/ Tab \/ UNCHANGED vars
  <2>1. UNCHANGED <<nextSeq, inserting, log>>
    BY <1>4, NetworkFrame, TabFrame DEF serverVars, logVars, vars
  <2> QED BY <2>1
<1> QED
  BY <1>1, <1>2, <1>3, <1>4, StepCases

\* A writer's steps: who is where, and what else it changes.
LEMMA WriterMoves ==
    ASSUME TypeOK, [Next]_vars
    PROVE  /\ row # "active" => row' = row
           /\ pc["worker"] = "ended" => pc'["worker"] = "ended" /\ row' \in {row, "canceled"}
<1>1. "worker" \in Writers /\ "canceler" \in Writers /\ pc \in [Writers -> Places]
  BY DEF TypeOK, Writers
<1>2. CASE Worker
  <2>1. pc["worker"] # "ended"
    BY <1>2 DEF Worker, AcceptDelta, Emit, Check, Save, EndRow, Announce, At
  <2>2. CASE EndRow
    BY <2>1, <2>2 DEF EndRow
  <2>3. CASE ~EndRow
    BY <1>2, <2>1, <2>3 DEF Worker, AcceptDelta, Emit, Check, Save, Announce
  <2> QED
    BY <2>2, <2>3
<1>3. CASE Claim \/ Canceler
  BY <1>1, <1>3 DEF Claim, Canceler, SaveNotice, AnnounceCanceled, Goto
<1>4. CASE ~Writing
  BY <1>1, <1>4, StepCases, NetworkFrame, TabFrame DEF Commit, Crash, serverVars, runVars, vars
<1> QED
  BY <1>2, <1>3, <1>4 DEF Writing

\* The row of a run that is over stays as it is, and a row that was not ended
\* is left to the cancelers.
LEMMA RowStays ==
    ASSUME TypeOK, [Next]_vars
    PROVE  /\ row \in TerminalStatus => row' = row
           /\ Unended => Unended' \/ row' = "canceled"
           /\ \A e : Allows(e, Standing) => Allows(e, Standing')
<1>1. /\ row # "active" => row' = row
      /\ pc["worker"] = "ended" => pc'["worker"] = "ended" /\ row' \in {row, "canceled"}
      /\ failed \subseteq failed'
  BY WriterMoves, FailedGrows
<1>2. Unended => Unended' \/ row' = "canceled"
  BY <1>1 DEF Unended
<1>3. row \in TerminalStatus => row' = row
  BY <1>1 DEF TerminalStatus
<1>4. \/ Standing' = Standing \/ Standing = "active"
      \/ Standing = "unended" /\ Standing' = "canceled"
  <2>1. CASE Unended
    BY <1>2, <2>1 DEF Standing, Unended
  <2>2. CASE row = "active" /\ ~Unended
    BY <2>2 DEF Standing
  <2>3. CASE row # "active"
    BY <1>1, <2>3 DEF Standing, Unended
  <2> QED
    BY <2>1, <2>2, <2>3
<1>5. \A e : Allows(e, Standing) => Allows(e, Standing')
  BY <1>4 DEF Allows
<1> QED
  BY <1>2, <1>3, <1>5

\* Output is stored, the row ends, the event is logged, in this order; and a
\* canceler takes the row before it does anything else.
LEMMA WriterStep ==
    ASSUME TypeOK, WriterInv, [Next]_vars
    PROVE  WriterInv'
<1> USE DEF WriterInv
<1>1. /\ inserting \in [Writers -> Events \cup {NoEvent}]
      /\ pc \in [Writers -> Places] /\ outcome \in Outcomes
      /\ row \in {"active"} \cup TerminalStatus
      /\ "worker" \in Writers /\ "canceler" \in Writers
      /\ failed \subseteq failed'
  BY FailedGrows DEF TypeOK, Writers
<1>2. Allows(NoEvent, Standing')
  BY DEF Allows, NoEvent
<1>3. CASE Writing
  <2>1. UNCHANGED log
    BY <1>3, WritingFrame
  <2>2. \A e \in log' : Allows(e, Standing')
    BY <2>1, RowStays
  <2>3. CASE Emit
    <3>1. Allows([seq |-> nextSeq, type |-> "delta", message |-> "none"], Standing')
      BY DEF Allows
    <3>2. \A w \in Writers : Allows(inserting'[w], Standing')
      BY <1>1, <2>3, <3>1, RowStays DEF Emit, Insert, logVars
    <3>3. /\ UNCHANGED <<row, stored, outcome>> /\ pc["worker"] = "delta"
          /\ pc' = [pc EXCEPT !["worker"] = "work"]
      BY <2>3 DEF Emit, Goto, At
    <3>4. pc'["worker"] = "work" /\ pc'["canceler"] = pc["canceler"]
      BY <1>1, <3>3
    <3> QED
      BY <2>2, <3>2, <3>3, <3>4
  <2>4. CASE Announce
    <3> DEFINE e == [seq |-> nextSeq, type |-> IF outcome = "answer" THEN "done" ELSE "error",
                     message |-> IF outcome \in stored THEN outcome ELSE "none"]
    <3>1. /\ pc["worker"] = "updated" /\ UNCHANGED <<row, stored, outcome>>
          /\ pc' = [pc EXCEPT !["worker"] = "ended"]
      BY <2>4 DEF Announce, At, Goto
    <3>2. pc'["worker"] = "ended" /\ pc'["canceler"] = pc["canceler"]
      BY <1>1, <3>1
    <3>3. row \in TerminalStatus \/ Unended'
      BY <1>1, <3>1, <3>2 DEF Unended
    <3>4. outcome = "answer" => "answer" \in stored
      BY <3>1 DEF OutcomeStored
    <3>5. Allows(e, Standing')
      <4>1. CASE outcome = "answer"
        <5>1. e.type = "done" /\ e.message = "answer"
          BY <3>4, <4>1
        <5>2. row' \in {"completed", "canceled"} \/ Unended'
          BY <3>1, <3>3, <4>1 DEF TerminalStatus
        <5> HIDE DEF e
        <5> QED BY <5>1, <5>2 DEF Allows, Standing
      <4>2. CASE outcome = "failure"
        <5>1. e.type = "error" /\ e.message \in {"failure", "none"}
          BY <4>2
        <5>2. row' \in {"failed", "canceled"} \/ Unended'
          BY <3>1, <3>3, <4>2 DEF TerminalStatus
        <5> HIDE DEF e
        <5> QED BY <5>1, <5>2 DEF Allows, Standing
      <4> QED
        BY <1>1, <4>1, <4>2 DEF Outcomes
    <3>6. UNCHANGED inserting \/ inserting' = [inserting EXCEPT !["worker"] = e]
      BY <2>4 DEF Announce, Insert, logVars
    <3> HIDE DEF e
    <3>7. \A w \in Writers : Allows(inserting'[w], Standing')
      BY <1>1, <3>5, <3>6, RowStays
    <3>8. row' \in {"completed", "failed"} => OutcomeStored'
      BY <1>1, <3>1 DEF OutcomeStored
    <3> QED
      BY <2>2, <3>1, <3>2, <3>7, <3>8
  <2>5. CASE AnnounceCanceled
    <3> DEFINE e == [seq |-> nextSeq, type |-> "canceled",
                     message |-> IF "stopped" \in stored THEN "stopped" ELSE "none"]
    <3>1. /\ pc["canceler"] = "updated" /\ UNCHANGED <<row, stored, outcome>>
          /\ row = "canceled" /\ pc' = [pc EXCEPT !["canceler"] = "ended"]
      BY <2>5 DEF AnnounceCanceled, At, Goto
    <3>2. Allows(e, Standing')
      BY <3>1 DEF Allows, Standing, Unended
    <3>3. UNCHANGED inserting \/ inserting' = [inserting EXCEPT !["canceler"] = e]
      BY <2>5 DEF AnnounceCanceled, Insert, logVars
    <3> HIDE DEF e
    <3>4. \A w \in Writers : Allows(inserting'[w], Standing')
      BY <1>1, <3>2, <3>3, RowStays
    <3>5. pc'["worker"] = pc["worker"] /\ pc'["canceler"] = "ended"
      BY <1>1, <3>1
    <3>6. OutcomeStored => OutcomeStored'
      BY <1>1, <3>1 DEF OutcomeStored
    <3> QED
      BY <1>1, <2>2, <3>1, <3>4, <3>5, <3>6
  <2>6. CASE ~Emit /\ ~Announce /\ ~AnnounceCanceled
    <3>1. UNCHANGED inserting
      BY <1>3, <2>6 DEF Writing, Worker, AcceptDelta, Check, Save, EndRow, Claim,
                        Canceler, SaveNotice, logVars
    <3>2. \A w \in Writers : Allows(inserting'[w], Standing')
      BY <3>1, RowStays
    <3>3. CASE AcceptDelta \/ Check
      <4>1. /\ pc["worker"] = "work" /\ UNCHANGED <<row, stored>>
            /\ \E label \in {"delta", "checked", "ended"} : pc' = [pc EXCEPT !["worker"] = label]
        BY <3>3 DEF AcceptDelta, Check, At, Goto
      <4>2. pc'["worker"] \in {"delta", "checked", "ended"} /\ pc'["canceler"] = pc["canceler"]
        BY <1>1, <4>1
      <4>3. row \notin {"completed", "failed"}
        BY <4>1
      <4> QED
        BY <2>2, <3>2, <4>1, <4>2, <4>3
    <3>4. CASE Save
      <4>1. /\ pc["worker"] = "checked" /\ UNCHANGED row
            /\ pc' = [pc EXCEPT !["worker"] = "stored"]
        BY <3>4 DEF Save, At, Goto
      <4>2. pc'["worker"] = "stored" /\ pc'["canceler"] = pc["canceler"]
        BY <1>1, <4>1
      <4>3. OutcomeStored'
        BY <3>4 DEF Save, OutcomeStored, Fails
      <4> QED
        BY <2>2, <3>2, <4>1, <4>2, <4>3
    <3>5. CASE EndRow
      <4>1. /\ pc["worker"] = "stored" /\ UNCHANGED <<stored, outcome>>
            /\ pc' = [pc EXCEPT !["worker"] = "updated"]
            /\ \/ row' = IF row # "active" THEN row
                         ELSE IF outcome = "answer" THEN "completed" ELSE "failed"
               \/ UNCHANGED row /\ "end" \in failed'
        BY <3>5 DEF EndRow, At, Goto, Fails
      <4>2. pc'["worker"] = "updated" /\ pc'["canceler"] = pc["canceler"]
        BY <1>1, <4>1
      <4>3. OutcomeStored'
        BY <1>1, <4>1 DEF OutcomeStored
      <4>4. row \notin {"completed", "failed"}
        BY <4>1
      <4>5. row' # "active" \/ "end" \in failed'
        BY <4>1
      <4>6. row' \in {"completed", "failed"} =>
               outcome' = IF row' = "completed" THEN "answer" ELSE "failure"
        BY <1>1, <4>1, <4>4 DEF Outcomes
      <4>7. pc'["canceler"] \in {"checked", "updated"} => row' = "canceled"
        BY <4>1, <4>2
      <4> QED
        BY <2>2, <3>2, <4>2, <4>3, <4>5, <4>6, <4>7
    <3>6. CASE Claim
      <4>1. /\ row' = "canceled" /\ UNCHANGED <<stored, outcome>>
            /\ pc'["worker"] = pc["worker"]
        BY <1>1, <3>6 DEF Claim, Goto
      <4>2. OutcomeStored => OutcomeStored'
        BY <1>1, <4>1 DEF OutcomeStored
      <4> QED
        BY <2>2, <3>2, <4>1, <4>2
    <3>7. CASE SaveNotice
      <4>1. /\ row = "canceled" /\ UNCHANGED <<row, outcome>>
            /\ stored \subseteq stored' /\ pc'["worker"] = pc["worker"]
        BY <1>1, <3>7 DEF SaveNotice, At, Goto
      <4>2. OutcomeStored => OutcomeStored'
        BY <1>1, <4>1 DEF OutcomeStored
      <4> QED
        BY <2>2, <3>2, <4>1, <4>2
    <3> QED
      BY <1>3, <2>6, <3>3, <3>4, <3>5, <3>6, <3>7 DEF Writing, Worker, Canceler
  <2> QED
    BY <2>3, <2>4, <2>5, <2>6
<1>4. ASSUME NEW w \in Writers, Commit(w)
      PROVE  WriterInv'
  <2>1. /\ UNCHANGED <<row, stored, pc, outcome, failed>>
        /\ inserting' = [inserting EXCEPT ![w] = NoEvent]
        /\ log' = log \cup {inserting[w]}
    BY <1>4 DEF Commit, runVars, bounds
  <2>2. \A e \in log' : Allows(e, Standing')
    BY <2>1, RowStays
  <2>3. \A v \in Writers : Allows(inserting'[v], Standing')
    BY <1>1, <1>2, <2>1, RowStays
  <2> QED
    BY <2>1, <2>2, <2>3 DEF OutcomeStored
<1>5. CASE Crash
  <2>1. /\ UNCHANGED <<log, row, stored, outcome, failed>>
        /\ pc' = [w \in Writers |-> "ended"]
        /\ inserting' = [w \in Writers |-> NoEvent]
    BY <1>5 DEF Crash
  <2>2. /\ \A e \in log' : Allows(e, Standing')
        /\ \A w \in Writers : Allows(inserting'[w], Standing')
    BY <1>2, <2>1, RowStays
  <2>3. pc'["worker"] = "ended" /\ pc'["canceler"] = "ended"
    BY <1>1, <2>1
  <2> QED
    BY <2>1, <2>2, <2>3 DEF OutcomeStored
<1>6. CASE Network \/ Tab \/ UNCHANGED vars
  <2>1. UNCHANGED <<inserting, log, row, stored, pc, outcome, failed>>
    BY <1>6, NetworkFrame, TabFrame DEF serverVars, logVars, runVars, bounds, vars
  <2> QED BY <2>1 DEF Standing, Unended, OutcomeStored
<1> QED
  BY <1>3, <1>4, <1>5, <1>6, StepCases

-----------------------------------------------------------------------------
(* The tab stops waiting for a run that is over, and shows its outcome.    *)

\* Only a poll puts events into the pipe, and it takes them from the log.
LEMMA PipeStep ==
    ASSUME TypeOK, Numbered, PipeLogged, [Next]_vars
    PROVE  PipeLogged'
<1> USE DEF PipeLogged
<1>1. conn.pipe \in Seq(Events) /\ log \subseteq Events
  BY DEF TypeOK
<1>2. CASE Poll
  <2>1. UNCHANGED log
    BY <1>2 DEF Poll, logVars
  <2>2. PICK page \in SUBSET log :
           /\ IsFiniteSet(page) /\ DistinctNumbers(page)
           /\ conn'.pipe = conn.pipe \o InOrder(page)
    BY <1>2, PollConn
  <2>3. /\ InOrder(page) \in Seq(Events)
        /\ \A i \in 1..Len(InOrder(page)) : InOrder(page)[i] \in page
    BY <1>1, <2>2, Ordered
  <2> QED
    BY <1>1, <2>1, <2>2, <2>3, HasConcat
<1>3. CASE Receive
  <2>1. UNCHANGED log /\ conn.pipe # <<>>
    BY <1>3 DEF Receive, serverVars, logVars
  <2>2. conn'.pipe = <<>> \/ conn'.pipe = Tail(conn.pipe)
    BY <1>3, <1>1 DEF Receive, NoConn, TypeOK
  <2>3. \A i \in 1..Len(Tail(conn.pipe)) : Tail(conn.pipe)[i] \in log
    BY <1>1, <2>1, HasTail
  <2> DEFINE rest == Tail(conn.pipe)
  <2> HIDE DEF rest
  <2>4. CASE conn'.pipe = <<>>
    BY <2>4
  <2>5. CASE conn'.pipe = rest
    BY <2>1, <2>3, <2>5 DEF rest
  <2> QED
    BY <2>2, <2>4, <2>5 DEF rest
<1>4. CASE ~Poll /\ ~Receive
  <2>1. log \subseteq log'
    BY StepCases, WritingFrame, NetworkFrame, TabFrame
       DEF Commit, Crash, serverVars, logVars, vars
  <2>2. conn'.pipe = conn.pipe \/ conn'.pipe = <<>>
    <3>1. CASE Writing \/ (\E w \in Writers : Commit(w)) \/ UNCHANGED vars
      BY <3>1, WritingFrame DEF Commit, vars
    <3>2. CASE Network \/ Crash
      BY <1>4, <3>2 DEF Network, Deadline, Lose, Crash, TypeOK
    <3>3. CASE Tab
      BY <1>4, <3>3 DEF Tab, Stream, Reconcile, EndOfStream, BrokenStream, Settle,
         SettleRead, SettleApply, SettleFails, Resubscribe, Resume, ReconcileList,
         ReconcileRead, ReconcileApply, ReconcileFails, Navigate, Reload, NoConn, OpenConn
    <3> QED
      BY <3>1, <3>2, <3>3, StepCases
  <2> QED
    BY <2>1, <2>2
<1> QED
  BY <1>2, <1>3, <1>4

\* The messages of a run that is over have what it ended with.
LEMMA StoredShows ==
    ASSUME TypeOK, WriterInv
    PROVE  Shows(stored)
BY DEF WriterInv, OutcomeStored, Shows

\* consumeChatStream: an event that ends the run is in the log, so that the run
\* is over, and brings the outcome the run ended with.
LEMMA ReceiveReleases ==
    ASSUME TypeOK, WriterInv, PipeLogged, ReleaseInv, Receive
    PROVE  ReleaseInv'
<1> DEFINE e == Head(conn.pipe)
<1>1. /\ client.released = "no" /\ client.phase = "reading"
      /\ conn.pipe \in Seq(Events) /\ conn.pipe # <<>>
      /\ shown' = shown \cup ({e.message} \ {"none"})
      /\ client' = CASE e.type \in {"started", "delta"} -> Noted(e)
                     [] e.type = "done" -> [Noted(e) EXCEPT !.sawDone = TRUE]
                     [] Bare(e)         -> Thrown(Noted(e))
                     [] OTHER           -> Release(Noted(e), "event")
      /\ UNCHANGED <<row, stored, pc, failed, reconcile>>
  BY DEF Receive, Active, TypeOK, serverVars, runVars, bounds, Noted
<1>20. row \in {"active"} \cup TerminalStatus
  BY DEF TypeOK
<1>2. e \in Events /\ e \in log
  BY <1>1, HasTail DEF PipeLogged
<1>3. e.type \in {"started", "delta", "done", "error", "canceled"} /\ Allows(e, Standing)
  BY <1>2 DEF Events, TerminalTypes, WriterInv
<1>4. /\ Noted(e).phase = "reading" /\ Noted(e).released = "no"
      /\ Noted(e).sawDone = client.sawDone
  BY <1>1, <1>2, NotedClient
<1>5. shown \subseteq shown' /\ (e.message # "none" => e.message \in shown')
  BY <1>1
<1>6. \A messages : Shows(messages)' <=> Shows(messages)
  BY <1>1 DEF Shows
<1>7. client.sawDone => Shows(shown')
  BY <1>5 DEF ReleaseInv, Shows
<1> HIDE DEF e
<1>8. CASE e.type \in {"started", "delta"}
  <2>1. client' = Noted(e)
    BY <1>1, <1>8 DEF Bare
  <2> QED
    BY <1>1, <1>4, <1>6, <1>7, <2>1 DEF ReleaseInv, Unended
<1>9. CASE e.type = "done"
  <2>1. client' = [Noted(e) EXCEPT !.sawDone = TRUE]
    BY <1>1, <1>9 DEF Bare
  <2>2. client'.phase = "reading" /\ client'.released = "no"
    BY <1>2, <1>4, <2>1, NotedClient
  <2>3. (row \in {"completed", "canceled"} \/ Unended) /\ "answer" \in shown'
    <3>1. Standing \in {"completed", "canceled", "unended"} /\ e.message = "answer"
      BY <1>3, <1>9 DEF Allows
    <3> QED BY <1>5, <1>20, <3>1 DEF Standing, TerminalStatus
  <2>4. Shows(shown')
    BY <2>3 DEF Shows, Unended
  <2> QED
    BY <1>1, <1>6, <2>2, <2>3, <2>4 DEF ReleaseInv, Unended
<1>10. CASE e.type \in {"error", "canceled"} /\ Bare(e)
  <2>1. client' = Thrown(Noted(e))
    BY <1>1, <1>10
  <2>2. /\ client'.phase \in {"settling", "waiting", "finished"}
        /\ client'.released \in {"no", "lost"}
        /\ client'.sawDone => client.sawDone
    BY <1>2, <1>4, <2>1, NotedClient, GivesUp
  <2> QED
    BY <1>1, <1>6, <1>7, <2>2 DEF ReleaseInv, Unended
<1>11. CASE e.type \in {"error", "canceled"} /\ ~Bare(e)
  <2>1. client' = Release(Noted(e), "event")
    BY <1>1, <1>11
  <2>2. client'.phase = "finished" /\ client'.released = "event" /\ ~client'.sawDone
    BY <2>1 DEF Release, NewClient
  <2>3. row \in TerminalStatus \/ Unended
    <3>1. Standing \in {"failed", "canceled", "unended"}
      BY <1>3, <1>11 DEF Allows
    <3> QED BY <1>20, <3>1 DEF Standing, TerminalStatus
  <2>4. Shows(shown')
    BY <1>3, <1>5, <1>11 DEF Allows, Standing, Shows, Bare, Unended
  <2> QED
    BY <1>1, <1>6, <2>2, <2>3, <2>4 DEF ReleaseInv, Unended
<1> QED
  BY <1>3, <1>8, <1>9, <1>10, <1>11

\* The other steps of the tab: it is released by the end of a stream that said
\* the run is over, by a refresh that was begun after the run was over, or
\* because it gives up.
LEMMA TabReleases ==
    ASSUME TypeOK, WriterInv, PipeLogged, ReleaseInv, Tab
    PROVE  ReleaseInv'
<1> USE DEF ReleaseInv, Release, NewClient
<1>1. UNCHANGED <<row, stored, pc, failed>>
  BY TabFrame DEF serverVars, runVars
<1>2. /\ row \in {"active"} \cup TerminalStatus /\ Shows(stored)
      /\ \A messages : Shows(messages)' <=> Shows(messages)
      /\ Unended' <=> Unended
  BY <1>1, StoredShows DEF TypeOK, Shows, Unended
<1>3. CASE Receive
  BY <1>3, ReceiveReleases
<1>4. CASE EndOfStream
  BY <1>1, <1>2, <1>4 DEF EndOfStream, Active, TypeOK, TerminalStatus
<1>5. CASE BrokenStream \/ SettleFails
  <2>1. /\ client.released = "no" /\ client' \in {Thrown(client), NextAttempt(client)}
        /\ UNCHANGED <<shown, reconcile>>
    BY <1>5 DEF BrokenStream, SettleFails, Active
  <2>2. /\ client'.phase \in {"settling", "waiting", "finished"}
        /\ client'.released \in {"no", "lost"}
        /\ client'.sawDone => client.sawDone
    BY <2>1, GivesUp DEF TypeOK
  <2> QED
    BY <1>1, <1>2, <2>1, <2>2
<1>6. CASE Settle
  <2>1. CASE row \in TerminalStatus
    BY <1>1, <1>2, <1>6, <2>1 DEF Settle, Active, TypeOK
  <2>2. CASE row \notin TerminalStatus
    <3>1. /\ client.released = "no" /\ client' = NextAttempt(client)
          /\ UNCHANGED <<shown, reconcile>>
      BY <1>6, <2>2 DEF Settle, Active
    <3>2. /\ client'.phase \in {"settling", "waiting", "finished"}
          /\ client'.released \in {"no", "lost"}
          /\ client'.sawDone => client.sawDone
      BY <3>1, GivesUp DEF TypeOK
    <3> QED
      BY <1>1, <1>2, <3>1, <3>2
  <2> QED
    BY <2>1, <2>2
<1>7. CASE SettleRead
  BY <1>1, <1>2, <1>7 DEF SettleRead, Active, TypeOK
<1>8. CASE SettleApply
  BY <1>1, <1>2, <1>8 DEF SettleApply, TypeOK
<1>9. CASE Resubscribe
  BY <1>1, <1>2, <1>9 DEF Resubscribe, Active, TypeOK
<1>10. CASE Resume
  BY <1>1, <1>2, <1>10 DEF Resume, TypeOK
<1>11. CASE ReconcileList
  BY <1>1, <1>2, <1>11 DEF ReconcileList, Active, TypeOK
<1>12. CASE ReconcileRead \/ ReconcileFails
  BY <1>1, <1>2, <1>12 DEF ReconcileRead, ReconcileFails, TypeOK
<1>13. CASE ReconcileApply
  BY <1>1, <1>2, <1>13 DEF ReconcileApply, Active, TypeOK
<1>14. CASE Navigate
  BY <1>1, <1>2, <1>14 DEF Navigate
<1>15. CASE Reload
  BY <1>1, <1>2, <1>15 DEF Reload, NewClient
<1> QED
  BY <1>3, <1>4, <1>5, <1>6, <1>7, <1>8, <1>9, <1>10, <1>11, <1>12, <1>13,
     <1>14, <1>15 DEF Tab, Stream, Reconcile

\* Whatever can still put messages on screen was read when the run was over.
LEMMA ReleaseStep ==
    ASSUME TypeOK, WriterInv, PipeLogged, ReleaseInv, [Next]_vars
    PROVE  ReleaseInv'
<1>1. CASE Tab
  BY <1>1, TabReleases
<1>2. CASE ~Tab
  <2>1. UNCHANGED <<client, shown, reconcile>>
    BY <1>2, StepCases, WritingFrame, NetworkFrame DEF Commit, Crash, tabVars, vars
  <2>2. /\ row \in TerminalStatus => row' = row
        /\ Unended => Unended' \/ row' = "canceled"
        /\ failed \subseteq failed'
    BY RowStays, FailedGrows
  <2>3. /\ row \in TerminalStatus \/ Unended => row' \in TerminalStatus \/ Unended'
        /\ row \in {"completed", "canceled"} \/ Unended =>
              row' \in {"completed", "canceled"} \/ Unended'
    BY <2>2 DEF TerminalStatus
  <2>4. \A messages : Shows(messages) /\ (row \in TerminalStatus \/ Unended) => Shows(messages)'
    BY <2>2 DEF Shows, Unended
  <2>5. /\ client.phase = "applying" \/ reconcile.step = "apply" => row \in TerminalStatus
        /\ client.sawDone \/ client.released \in {"event", "refresh"} =>
              row \in TerminalStatus \/ Unended
    BY DEF ReleaseInv, TerminalStatus
  <2> QED
    BY <2>1, <2>2, <2>3, <2>4, <2>5 DEF ReleaseInv
<1> QED
  BY <1>1, <1>2

\* What releases a run has put on screen what its row says.
LEMMA InvShown == ReleaseInv => ReleasedRunIsShown
BY DEF ReleaseInv, ReleasedRunIsShown, Shows, Unended

-----------------------------------------------------------------------------
(* Nothing below the position of the tab is missing.                       *)

\* ORDER BY seq, and every page begins after the one before it.
LEMMA AscendsStep ==
    ASSUME TypeOK, Numbered, PipeAscends, [Next]_vars
    PROVE  PipeAscends'
<1> USE DEF PipeAscends
<1>1. conn.pipe \in Seq(Events) /\ conn.last \in Nat /\ log \subseteq Events
  BY DEF TypeOK
<1>2. CASE Poll
  <2>1. PICK page \in SUBSET log :
           /\ \A e \in log : e \in page <=> conn.last < e.seq /\ e.seq <= conn'.last
           /\ IsFiniteSet(page) /\ DistinctNumbers(page)
           /\ conn'.last \in Nat /\ conn.last <= conn'.last
           /\ conn'.pipe = conn.pipe \o InOrder(page)
           /\ conn'.state \in {"open", "closed"}
    BY <1>2, PollConn
  <2> DEFINE old == conn.pipe
             new == InOrder(page)
             both == old \o new
  <2>2. /\ new \in Seq(Events) /\ Ascending(new)
        /\ \A i \in 1..Len(new) : new[i] \in page
    BY <1>1, <2>1, Ordered
  <2>3. \A i \in 1..Len(both) :
           \/ i \in 1..Len(old) /\ both[i] = old[i]
           \/ \E j \in 1..Len(new) : i = Len(old) + j /\ both[i] = new[j]
    BY <1>1, <2>2, HasConcat
  <2>4. \A i \in 1..Len(old) : old[i].seq \in Nat /\ old[i].seq <= conn.last
    <3>1. \A i \in 1..Len(old) : old[i] \in Events
      BY <1>1
    <3> QED BY <3>1 DEF Events
  <2>5. \A i \in 1..Len(new) :
           new[i].seq \in Nat /\ conn.last < new[i].seq /\ new[i].seq <= conn'.last
    BY <1>1, <2>1, <2>2 DEF Events
  <2>6. Len(old) \in Nat /\ Len(new) \in Nat
    BY <1>1, <2>2
  <2>7. Ascending(old)
    OBVIOUS
  <2>8. conn'.pipe = both
    BY <2>1
  <2> HIDE DEF old, new, both
  <2>9. ASSUME NEW i \in 1..Len(both), NEW j \in 1..Len(both), i < j
        PROVE  both[i].seq < both[j].seq
    <3>1. CASE i \in 1..Len(old) /\ both[i] = old[i] /\ j \in 1..Len(old) /\ both[j] = old[j]
      BY <2>7, <2>9, <3>1 DEF Ascending
    <3>2. ASSUME i \in 1..Len(old), both[i] = old[i],
                 NEW l \in 1..Len(new), both[j] = new[l]
          PROVE  both[i].seq < both[j].seq
      BY <1>1, <2>4, <2>5, <3>2
    <3>3. ASSUME NEW k \in 1..Len(new), i = Len(old) + k, both[i] = new[k],
                 NEW l \in 1..Len(new), j = Len(old) + l, both[j] = new[l]
          PROVE  both[i].seq < both[j].seq
      <4>1. k < l
        BY <2>6, <2>9, <3>3
      <4> QED BY <2>2, <3>3, <4>1 DEF Ascending
    <3>4. ASSUME NEW k \in 1..Len(new), i = Len(old) + k, j \in 1..Len(old)
          PROVE  FALSE
      BY <2>6, <2>9, <3>4
    <3> QED
      BY <2>3, <3>1, <3>2, <3>3, <3>4
  <2>10. \A i \in 1..Len(both) : both[i].seq <= conn'.last
    <3> SUFFICES ASSUME NEW i \in 1..Len(both)
                 PROVE  both[i].seq <= conn'.last
      OBVIOUS
    <3>1. CASE i \in 1..Len(old) /\ both[i] = old[i]
      BY <1>1, <2>1, <2>4, <3>1
    <3>2. CASE \E j \in 1..Len(new) : both[i] = new[j]
      BY <2>5, <3>2
    <3> QED
      BY <2>3, <3>1, <3>2
  <2> QED
    BY <2>1, <2>8, <2>9, <2>10 DEF Ascending
<1>3. CASE Receive
  <2>1. conn.pipe # <<>>
    BY <1>3 DEF Receive
  <2> DEFINE rest == Tail(conn.pipe)
  <2>2. /\ Len(rest) \in Nat
        /\ \A i \in 1..Len(rest) : i + 1 \in 1..Len(conn.pipe) /\ rest[i] = conn.pipe[i + 1]
    BY <1>1, <2>1, HasTail
  <2>3. conn' = NoConn \/ conn' = [conn EXCEPT !.pipe = rest]
    BY <1>3 DEF Receive
  <2> HIDE DEF rest
  <2>4. Ascending(rest) /\ \A i \in 1..Len(rest) : rest[i].seq <= conn.last
    <3>1. \A i \in 1..Len(rest) : rest[i].seq <= conn.last
      BY <2>2
    <3>2. ASSUME NEW i \in 1..Len(rest), NEW j \in 1..Len(rest), i < j
          PROVE  rest[i].seq < rest[j].seq
      <4>1. i + 1 \in 1..Len(conn.pipe) /\ j + 1 \in 1..Len(conn.pipe) /\ i + 1 < j + 1
        BY <2>2, <3>2
      <4>2. conn.pipe[i + 1].seq < conn.pipe[j + 1].seq
        BY <4>1 DEF Ascending
      <4> QED BY <2>2, <4>2
    <3> QED
      BY <3>1, <3>2 DEF Ascending
  <2>5. CASE conn' = NoConn
    BY <2>5 DEF NoConn, Ascending
  <2>6. CASE conn' = [conn EXCEPT !.pipe = rest]
    <3>1. conn'.pipe = rest /\ conn'.last = conn.last /\ conn'.state = conn.state
      BY <2>6 DEF TypeOK
    <3> QED BY <2>1, <2>4, <3>1
  <2> QED
    BY <2>3, <2>5, <2>6
<1>4. CASE ~Poll /\ ~Receive
  <2>1. \/ conn'.pipe = <<>>
        \/ conn'.pipe = conn.pipe /\ conn'.last = conn.last
           /\ conn'.state \in {conn.state, "closed"}
    <3>1. CASE Writing \/ (\E w \in Writers : Commit(w)) \/ UNCHANGED vars
      BY <3>1, WritingFrame DEF Commit, vars
    <3>2. CASE Network \/ Crash
      BY <1>4, <3>2 DEF Network, Deadline, Lose, Crash, TypeOK
    <3>3. CASE Tab
      BY <1>4, <3>3 DEF Tab, Stream, Reconcile, EndOfStream, BrokenStream, Settle,
         SettleRead, SettleApply, SettleFails, Resubscribe, Resume, ReconcileList,
         ReconcileRead, ReconcileApply, ReconcileFails, Navigate, Reload, NoConn, OpenConn
    <3> QED
      BY <3>1, <3>2, <3>3, StepCases
  <2>2. CASE conn'.pipe = <<>>
    BY <2>2 DEF Ascending
  <2>3. CASE conn'.pipe = conn.pipe /\ conn'.last = conn.last
             /\ conn'.state \in {conn.state, "closed"}
    BY <2>3
  <2> QED
    BY <2>1, <2>2, <2>3
<1> QED
  BY <1>2, <1>3, <1>4

\* What the receipt of an event does to the positions and the sequences: an
\* error without a message leaves the position where the event was.
LEMMA ReceiveMoves ==
    ASSUME TypeOK, Receive
    PROVE  LET e == Head(conn.pipe)
           IN  /\ conn.pipe \in Seq(Events) /\ conn.pipe # <<>> /\ e \in Events
               /\ applied \in Seq(Events) /\ applied' = Append(applied, e)
               /\ client'.lastSeq = e.seq /\ client'.resumeFrom \in {client.resumeFrom, 0}
               /\ ~Bare(e) => client'.phase \in {"reading", "finished"}
               /\ \/ conn' = NoConn
                  \/ /\ conn'.state = conn.state /\ conn'.last = conn.last
                     /\ conn'.pipe = Tail(conn.pipe)
               /\ UNCHANGED <<log, row, losses, crashes>>
<1> DEFINE e == Head(conn.pipe)
<1>1. /\ conn.pipe \in Seq(Events) /\ conn.pipe # <<>> /\ applied \in Seq(Events)
      /\ client.phase = "reading" /\ client.released = "no" /\ applied' = Append(applied, e)
      /\ UNCHANGED <<log, row, losses, crashes>>
  BY DEF Receive, Active, TypeOK, serverVars, logVars, runVars, bounds, limits
<1>2. e \in Events
  BY <1>1, HasTail
<1>3. \/ client' \in {Noted(e), [Noted(e) EXCEPT !.sawDone = TRUE],
                      Release(Noted(e), "event")}
      \/ client' = Thrown(Noted(e)) /\ Bare(e)
  BY DEF Receive, Noted
<1>4. conn' = NoConn \/ conn' = [conn EXCEPT !.pipe = Tail(conn.pipe)]
  BY DEF Receive
<1>5. \/ conn' = NoConn
      \/ conn'.state = conn.state /\ conn'.last = conn.last /\ conn'.pipe = Tail(conn.pipe)
  BY <1>4 DEF TypeOK
<1> HIDE DEF e
<1>6. /\ Noted(e).lastSeq = e.seq /\ Noted(e).phase = "reading"
      /\ Noted(e).released = "no" /\ Noted(e).resumeFrom = client.resumeFrom
  BY <1>1, <1>2, NotedClient
<1>7. ASSUME client' \in {Noted(e), [Noted(e) EXCEPT !.sawDone = TRUE],
                          Release(Noted(e), "event")}
      PROVE  /\ client'.lastSeq = e.seq /\ client'.resumeFrom \in {client.resumeFrom, 0}
             /\ client'.phase \in {"reading", "finished"}
  BY <1>2, <1>6, <1>7, NotedClient DEF Release, NewClient
<1>8. ASSUME client' = Thrown(Noted(e))
      PROVE  client'.lastSeq = e.seq /\ client'.resumeFrom \in {client.resumeFrom, 0}
  BY <1>2, <1>6, <1>8, NotedClient, GivesUp
<1> QED
  BY <1>1, <1>2, <1>3, <1>5, <1>7, <1>8 DEF e

\* A position is moved to the number of an event of the log, or to the start.
LEMMA PositionsMove ==
    ASSUME TypeOK, Numbered, PipeLogged, [Next]_vars
    PROVE  \A n \in Positions' :
              n \in Positions \/ n = 0 \/ \E e \in log : n = e.seq
<1> USE DEF Positions
<1>1. CASE Poll
  <2>1. UNCHANGED client
    BY <1>1 DEF Poll, tabVars
  <2>2. conn'.last = conn.last \/ \E e \in log : e.seq = conn'.last
    BY <1>1, PollConn
  <2> QED
    BY <2>1, <2>2
<1>2. CASE Receive
  <2> DEFINE e == Head(conn.pipe)
  <2>1. conn.pipe \in Seq(Events) /\ conn.pipe # <<>>
    BY <1>2 DEF Receive, TypeOK
  <2>2. e \in log
    BY <2>1, HasTail DEF PipeLogged
  <2>3. client'.lastSeq = e.seq /\ client'.resumeFrom \in {client.resumeFrom, 0}
    BY <1>2, ReceiveMoves
  <2>6. conn'.last \in {0, conn.last}
    BY <1>2 DEF Receive, NoConn, TypeOK
  <2> HIDE DEF e
  <2> QED
    BY <2>2, <2>3, <2>6
<1>3. CASE ~Poll /\ ~Receive
  <2>1. CASE Writing \/ (\E w \in Writers : Commit(w)) \/ UNCHANGED vars
    BY <2>1, WritingFrame DEF Commit, tabVars, vars
  <2>2. CASE Network \/ Crash
    BY <1>3, <2>2 DEF Network, Deadline, Lose, Crash, TypeOK, tabVars
  <2>3. CASE Tab
    <3>1. client'.lastSeq \in {client.lastSeq, 0}
      BY <1>3, <2>3 DEF Tab, Stream, Reconcile, EndOfStream, BrokenStream, Settle,
         SettleRead, SettleApply, SettleFails, Resubscribe, Resume, ReconcileList,
         ReconcileRead, ReconcileApply, ReconcileFails, Navigate, Reload, Release, NewClient,
         Thrown, NextAttempt, TypeOK
    <3>2. client'.resumeFrom \in {client.resumeFrom, client.lastSeq, 0}
      BY <1>3, <2>3 DEF Tab, Stream, Reconcile, EndOfStream, BrokenStream, Settle,
         SettleRead, SettleApply, SettleFails, Resubscribe, Resume, ReconcileList,
         ReconcileRead, ReconcileApply, ReconcileFails, Navigate, Reload, Release, NewClient,
         Thrown, NextAttempt, TypeOK
    <3>3. conn'.last \in {conn.last, client.resumeFrom, 0}
      BY <1>3, <2>3 DEF Tab, Stream, Reconcile, EndOfStream, BrokenStream, Settle,
         SettleRead, SettleApply, SettleFails, Resubscribe, Resume, ReconcileList,
         ReconcileRead, ReconcileApply, ReconcileFails, Navigate, Reload, NoConn, OpenConn, TypeOK
    <3> QED
      BY <3>1, <3>2, <3>3
  <2> QED
    BY <2>1, <2>2, <2>3, StepCases
<1> QED
  BY <1>1, <1>2, <1>3

\* While no canceler has the run, the goroutine writes at the end of the log.
LEMMA AloneStep ==
    ASSUME TypeOK, Numbered, WriterInv, PipeLogged, AloneInv, [Next]_vars
    PROVE  AloneInv'
<1> SUFFICES ASSUME row' # "canceled"
             PROVE  AloneInv'
  BY DEF AloneInv
<1>1. row # "canceled"
  BY RowStays DEF TerminalStatus
<1>2. /\ pc["canceler"] \in {"work", "ended"} /\ ~Pending("canceler")
      /\ \A e \in log : BeforeWorker(e.seq)
      /\ \A n \in Positions : BeforeWorker(n)
  BY <1>1 DEF AloneInv
<1>3. /\ nextSeq \in Nat \ {0} /\ inserting \in [Writers -> Events \cup {NoEvent}]
      /\ pc \in [Writers -> Places]
      /\ "worker" \in Writers /\ "canceler" \in Writers
      /\ \A e \in log : e.seq \in Nat
      /\ \A n \in Positions : n \in Nat
  BY DEF TypeOK, Writers, Events, Positions
<1>4. BeforeWorker(0)
  BY <1>3 DEF BeforeWorker, Pending, Events
<1>5. \A n \in Positions' : BeforeWorker(n)
  BY <1>2, <1>4, PositionsMove
<1>6. \A n \in Positions' : n \in Nat
  BY <1>3, PositionsMove
<1>7. CASE Writing
  <2>1. UNCHANGED log
    BY <1>7, WritingFrame
  <2>2. ~Claim /\ ~SaveNotice /\ ~AnnounceCanceled
    BY <1>2 DEF Claim, SaveNotice, AnnounceCanceled, At
  <2>3. pc'["canceler"] = pc["canceler"]
    BY <1>3, <1>7, <2>2 DEF Writing, Worker, Canceler, AcceptDelta, Emit, Check, Save,
                            EndRow, Announce, Goto
  <2>4. CASE UNCHANGED <<nextSeq, inserting>>
    BY <1>2, <1>5, <2>1, <2>3, <2>4 DEF AloneInv, BeforeWorker, Pending
  <2>5. CASE ~UNCHANGED <<nextSeq, inserting>>
    <3>1. PICK w \in Writers, event \in Events : Starts(w, event)
      BY <1>7, <2>5, WritingInserts
    <3>2. w = "worker"
      <4>1. UNCHANGED inserting["canceler"]
        BY <1>3, <1>7, <2>2 DEF Writing, Worker, Canceler, AcceptDelta, Emit, Check, Save,
                                EndRow, Announce, Insert, logVars
      <4>2. CASE w = "canceler"
        BY <1>3, <1>2, <3>1, <4>1, <4>2 DEF Starts, Pending, Events, NoEvent
      <4> QED
        BY <4>2 DEF Writers
    <3>20. /\ nextSeq' = nextSeq + 1 /\ event.seq = nextSeq
           /\ inserting' = [inserting EXCEPT !["worker"] = event]
      BY <3>1, <3>2 DEF Starts
    <3>3. inserting'["canceler"] = inserting["canceler"] /\ inserting'["worker"].seq = nextSeq
      BY <1>3, <3>20
    <3>4. ~Pending("canceler")'
      BY <1>2, <3>3 DEF Pending
    <3>5. \A n \in Nat : BeforeWorker(n) => BeforeWorker(n)'
      BY <1>3, <3>20, <3>3 DEF BeforeWorker
    <3>6. \A e \in log' : BeforeWorker(e.seq)'
      BY <1>2, <1>3, <2>1, <3>20, <3>3 DEF BeforeWorker
    <3>7. \A n \in Positions' : BeforeWorker(n)'
      BY <1>3, <1>5, <1>6, <3>20, <3>3 DEF BeforeWorker
    <3> QED
      BY <1>2, <2>3, <3>4, <3>6, <3>7 DEF AloneInv
  <2> QED
    BY <2>4, <2>5
<1>8. ASSUME NEW w \in Writers, Commit(w)
      PROVE  AloneInv'
  <2>1. /\ UNCHANGED <<nextSeq, pc>> /\ Pending(w)
        /\ inserting' = [inserting EXCEPT ![w] = NoEvent]
        /\ log' = log \cup {inserting[w]}
    BY <1>8 DEF Commit, Pending, runVars
  <2>2. w = "worker"
    BY <1>2, <2>1 DEF Writers
  <2>3. inserting'["canceler"] = inserting["canceler"] /\ inserting'["worker"] = NoEvent
    BY <1>3, <2>1, <2>2
  <2>4. inserting["worker"].seq < nextSeq
    BY <2>1, <2>2 DEF Numbered
  <2>5. \A e \in log' : BeforeWorker(e.seq)'
    BY <1>2, <2>1, <2>2, <2>3, <2>4 DEF BeforeWorker, Pending
  <2>6. \A n \in Positions' : BeforeWorker(n)'
    BY <1>5, <2>1, <2>3 DEF BeforeWorker, Pending
  <2>7. ~Pending("canceler")'
    BY <1>2, <2>3 DEF Pending
  <2> QED
    BY <1>2, <2>1, <2>5, <2>6, <2>7 DEF AloneInv
<1>9. CASE Crash
  <2>1. /\ UNCHANGED <<nextSeq, log>>
        /\ inserting'["worker"] = NoEvent /\ inserting'["canceler"] = NoEvent
        /\ pc'["canceler"] = "ended"
    BY <1>3, <1>9 DEF Crash
  <2> QED
    BY <1>2, <1>5, <2>1 DEF AloneInv, BeforeWorker, Pending
<1>10. CASE Network \/ Tab \/ UNCHANGED vars
  <2>1. UNCHANGED <<nextSeq, inserting, log, pc>>
    BY <1>10, NetworkFrame, TabFrame DEF serverVars, logVars, runVars, vars
  <2> QED
    BY <1>2, <1>5, <2>1 DEF AloneInv, BeforeWorker, Pending
<1> QED
  BY <1>7, <1>8, <1>9, <1>10, StepCases

\* The server's part of CoverInv: a new event is behind every position.
LEMMA CoverServer ==
    ASSUME TypeOK, AloneInv, CoverInv, row # "canceled",
           Writing \/ (\E w \in Writers : Commit(w)) \/ Crash
    PROVE  CoverInv'
<1>1. \A n \in Positions : n \in Nat
  BY DEF Positions, TypeOK
<1>2. UNCHANGED <<client, applied>>
  BY WritingFrame DEF Commit, Crash, tabVars
<1>3. \A e \in log' \ log : \A n \in Positions : ~(e.seq <= n)
  <2>1. CASE \E w \in Writers : Commit(w)
    <3>1. PICK w \in Writers : Commit(w)
      BY <2>1
    <3>2. Pending(w) /\ log' = log \cup {inserting[w]}
      BY <3>1 DEF Commit, Pending
    <3>3. w = "worker"
      BY <3>2 DEF AloneInv, Writers
    <3>4. \A n \in Positions : n < inserting["worker"].seq
      BY <3>2, <3>3 DEF AloneInv, BeforeWorker
    <3>5. inserting["worker"].seq \in Nat
      BY <3>2, <3>3 DEF TypeOK, Pending, Events, NoEvent
    <3> QED
      BY <1>1, <3>2, <3>3, <3>4, <3>5
  <2> QED
    BY <2>1, WritingFrame DEF Crash
<1>4. conn' = conn \/ conn'.state = "broken"
  BY WritingFrame DEF Commit, Crash, TypeOK
<1>5. log \subseteq log'
  BY WritingFrame DEF Commit, Crash
<1> SUFFICES ASSUME NEW e \in log'
             PROVE  /\ e.seq <= client'.lastSeq \/ e.seq <= client'.resumeFrom => Has(applied', e)
                    /\ conn'.state \in {"fresh", "open", "closed"} /\ e.seq <= conn'.last =>
                          Has(applied', e) \/ Has(conn'.pipe, e)
  BY DEF CoverInv
<1>6. CASE e \in log
  BY <1>2, <1>4, <1>6 DEF CoverInv
<1>7. CASE e \notin log
  BY <1>2, <1>3, <1>4, <1>7 DEF Positions
<1> QED
  BY <1>6, <1>7

\* What a poll takes from the log goes into the pipe.
LEMMA CoverNetwork ==
    ASSUME TypeOK, Numbered, CoverInv, row # "canceled", Network
    PROVE  CoverInv'
<1>1. UNCHANGED <<log, client, applied>>
  BY NetworkFrame DEF serverVars, logVars, tabVars
<1>2. CASE Poll
  <2>1. PICK page \in SUBSET log :
           /\ \A e \in log : e \in page <=> conn.last < e.seq /\ e.seq <= conn'.last
           /\ IsFiniteSet(page) /\ DistinctNumbers(page)
           /\ conn'.last \in Nat
           /\ conn'.pipe = conn.pipe \o InOrder(page)
           /\ conn.state \in {"fresh", "open"}
    BY <1>2, PollConn
  <2> DEFINE old == conn.pipe
             new == InOrder(page)
  <2>2. page \in SUBSET Events /\ old \in Seq(Events) /\ conn.last \in Nat
    BY DEF TypeOK
  <2>3. new \in Seq(Events) /\ \A e \in page : Has(new, e)
    BY <2>1, <2>2, Ordered
  <2>4. \A e : Has(old, e) \/ Has(new, e) => Has(old \o new, e)
    BY <2>2, <2>3, HasConcat
  <2>5. conn'.pipe = old \o new
    BY <2>1
  <2> HIDE DEF new
  <2>6. ASSUME NEW e \in log, e.seq <= conn'.last
        PROVE  Has(applied, e) \/ Has(conn'.pipe, e)
    <3>1. e.seq \in Nat
      BY DEF TypeOK, Events
    <3>2. CASE e.seq <= conn.last
      <4>1. Has(applied, e) \/ Has(old, e)
        BY <2>1, <3>2 DEF CoverInv
      <4> QED BY <2>4, <2>5, <4>1
    <3>3. CASE ~(e.seq <= conn.last)
      <4>1. e \in page
        BY <2>1, <2>2, <2>6, <3>1, <3>3
      <4> QED BY <2>3, <2>4, <2>5, <4>1
    <3> QED
      BY <3>2, <3>3
  <2> QED
    BY <1>1, <2>6 DEF CoverInv
<1>3. CASE Deadline
  <2>1. /\ conn.state = "open" /\ conn'.last = conn.last /\ conn'.pipe = conn.pipe
    BY <1>3 DEF Deadline, TypeOK
  <2> QED
    BY <1>1, <2>1 DEF CoverInv
<1>4. CASE Lose
  <2>1. conn'.state = "broken"
    BY <1>4 DEF Lose, TypeOK
  <2> QED
    BY <1>1, <2>1 DEF CoverInv
<1> QED
  BY <1>2, <1>3, <1>4 DEF Network

\* The event is the next of the log after those the tab has.
LEMMA CoverReceive ==
    ASSUME TypeOK, PipeAscends, CoverInv, row # "canceled", Receive
    PROVE  CoverInv'
<1> DEFINE e == Head(conn.pipe)
           rest == Tail(conn.pipe)
<1>1. /\ conn.pipe \in Seq(Events) /\ conn.pipe # <<>> /\ e \in Events
      /\ applied \in Seq(Events) /\ applied' = Append(applied, e)
      /\ client'.lastSeq = e.seq /\ client'.resumeFrom \in {client.resumeFrom, 0}
      /\ \/ conn' = NoConn
         \/ conn'.state = conn.state /\ conn'.last = conn.last /\ conn'.pipe = rest
      /\ UNCHANGED log
  BY ReceiveMoves
<1>2. /\ Len(conn.pipe) \in Nat \ {0} /\ e = conn.pipe[1]
      /\ \A d : Has(conn.pipe, d) => d = e \/ Has(rest, d)
  BY <1>1, HasTail
<1>3. /\ Has(applied', e)
      /\ \A d : Has(applied, d) => Has(applied', d)
  BY <1>1, HasAppended
<1>4. /\ e.seq <= conn.last /\ e.seq \in Nat /\ conn.last \in Nat
      /\ conn.state \in {"fresh", "open", "closed"}
  <2>1. 1 \in 1..Len(conn.pipe)
    BY <1>2
  <2> QED
    BY <1>1, <1>2, <2>1 DEF PipeAscends, Events, TypeOK
<1>5. \A d \in log : d.seq \in Nat \ {0}
  BY DEF TypeOK, Events
<1> HIDE DEF e, rest
<1>6. ASSUME NEW d \in log, d.seq <= e.seq
      PROVE  Has(applied', d)
  <2>1. d.seq <= conn.last
    BY <1>4, <1>5, <1>6
  <2>2. CASE Has(applied, d)
    BY <1>3, <2>2
  <2>3. ASSUME NEW i \in 1..Len(conn.pipe), conn.pipe[i] = d
        PROVE  d = e
    <3>1. CASE i = 1
      BY <1>2, <2>3, <3>1
    <3>2. CASE 1 < i
      <4>1. 1 \in 1..Len(conn.pipe)
        BY <1>2
      <4>2. e.seq < d.seq
        BY <1>2, <2>3, <3>2, <4>1 DEF PipeAscends, Ascending
      <4> QED BY <1>4, <1>5, <1>6, <4>2
    <3> QED
      BY <1>2, <3>1, <3>2
  <2> QED
    BY <1>3, <1>4, <2>1, <2>2, <2>3 DEF CoverInv, Has
<1>7. ASSUME NEW d \in log, d.seq <= conn.last
      PROVE  Has(applied', d) \/ Has(rest, d)
  BY <1>2, <1>3, <1>4, <1>7 DEF CoverInv
<1>8. ASSUME NEW d \in log, d.seq <= client'.resumeFrom
      PROVE  Has(applied', d)
  BY <1>1, <1>3, <1>5, <1>8 DEF CoverInv
<1> QED
  BY <1>1, <1>6, <1>7, <1>8 DEF CoverInv, NoConn

\* The other steps of the tab: the next stream begins where the last one that
\* ended cleanly left off, or at the start.
LEMMA CoverTab ==
    ASSUME TypeOK, CoverInv, row # "canceled", Tab, ~Receive
    PROVE  CoverInv'
<1>1. UNCHANGED log
  BY TabFrame DEF serverVars, logVars
<1>2. \A e \in log : e.seq \in Nat \ {0}
  BY DEF TypeOK, Events
<1>3. CASE Reload
  <2>1. /\ client'.lastSeq = 0 /\ client'.resumeFrom = 0 /\ conn'.state = "none"
    BY <1>3 DEF Reload, NewClient, NoConn
  <2> QED
    BY <1>1, <1>2, <2>1 DEF CoverInv
<1>4. CASE ~Reload
  <2>1. UNCHANGED applied /\ client'.lastSeq = client.lastSeq
    BY <1>4 DEF Tab, Stream, Reconcile, EndOfStream, BrokenStream, Settle,
       SettleRead, SettleApply, SettleFails, Resubscribe, Resume, ReconcileList,
       ReconcileRead, ReconcileApply, ReconcileFails, Navigate, Release, NewClient,
       Thrown, NextAttempt, TypeOK
  <2>2. client'.resumeFrom \in {client.resumeFrom, client.lastSeq, 0}
    BY <1>4 DEF Tab, Stream, Reconcile, EndOfStream, BrokenStream, Settle,
       SettleRead, SettleApply, SettleFails, Resubscribe, Resume, ReconcileList,
       ReconcileRead, ReconcileApply, ReconcileFails, Navigate, Release, NewClient,
       Thrown, NextAttempt, TypeOK
  <2>3. UNCHANGED conn \/ conn' = NoConn \/ conn' = OpenConn(client.resumeFrom)
    BY <1>4 DEF Tab, Stream, Reconcile, EndOfStream, BrokenStream, Settle,
       SettleRead, SettleApply, SettleFails, Resubscribe, Resume, ReconcileList,
       ReconcileRead, ReconcileApply, ReconcileFails, Navigate
  <2>4. \A e \in log : e.seq <= client.lastSeq \/ e.seq <= client.resumeFrom => Has(applied, e)
    BY DEF CoverInv
  <2>5. \A e \in log : conn'.state \in {"fresh", "open", "closed"} /\ e.seq <= conn'.last =>
                          Has(applied, e) \/ Has(conn'.pipe, e)
    BY <2>3, <2>4 DEF CoverInv, NoConn, OpenConn
  <2> QED
    BY <1>1, <1>2, <2>1, <2>2, <2>4, <2>5 DEF CoverInv
<1> QED
  BY <1>3, <1>4

\* With the goroutine as the only writer, nothing below a position of the
\* connection or of the tab is left behind.
LEMMA CoverStep ==
    ASSUME TypeOK, Numbered, PipeAscends, AloneInv, CoverInv, [Next]_vars
    PROVE  CoverInv'
<1>1. CASE row = "canceled"
  BY <1>1, RowStays DEF CoverInv, TerminalStatus
<1>2. CASE row # "canceled"
  <2>1. CASE UNCHANGED vars
    BY <2>1 DEF CoverInv, vars, logVars, runVars, tabVars
  <2> QED
    BY <1>2, <2>1, StepCases, CoverServer, CoverNetwork, CoverReceive, CoverTab
<1> QED
  BY <1>1, <1>2

-----------------------------------------------------------------------------
(* No event is applied twice, unless something broke.                      *)

\* The event is after those the tab has applied.
LEMMA OrderReceive ==
    ASSUME TypeOK, PipeLogged, PipeAscends, OrderInv, Receive,
           losses = 0, crashes = 0, \A e \in log : ~Bare(e)
    PROVE  OrderInv'
<1> DEFINE e == Head(conn.pipe)
           rest == Tail(conn.pipe)
<1>1. /\ conn.pipe \in Seq(Events) /\ conn.pipe # <<>> /\ e \in Events
      /\ applied \in Seq(Events) /\ applied' = Append(applied, e)
      /\ client'.lastSeq = e.seq
      /\ ~Bare(e) => client'.phase \in {"reading", "finished"}
      /\ \/ conn' = NoConn
         \/ conn'.state = conn.state /\ conn'.last = conn.last /\ conn'.pipe = rest
  BY ReceiveMoves
<1>2. /\ Len(conn.pipe) \in Nat \ {0} /\ e = conn.pipe[1]
      /\ Len(rest) \in Nat
      /\ \A i \in 1..Len(rest) : i + 1 \in 1..Len(conn.pipe) /\ rest[i] = conn.pipe[i + 1]
  BY <1>1, HasTail
<1>3. \A i \in 1..Len(applied') :
         \/ i = Len(applied) + 1 /\ applied'[i] = e
         \/ i \in 1..Len(applied) /\ applied'[i] = applied[i]
  BY <1>1, HasAppended
<1>4. /\ conn.state # "broken"
      /\ \A i \in 1..Len(conn.pipe) : client.lastSeq < conn.pipe[i].seq
      /\ \A i \in 1..Len(applied) : applied[i].seq <= client.lastSeq
      /\ Ascending(applied)
  BY DEF OrderInv
<1>5. 1 \in 1..Len(conn.pipe) /\ client'.phase \in {"reading", "finished"}
  BY <1>1, <1>2 DEF PipeLogged
<1>6. client.lastSeq < e.seq /\ e.seq <= conn.last
  BY <1>2, <1>4, <1>5 DEF PipeAscends
<1>7. e.seq \in Nat /\ client.lastSeq \in Nat /\ Len(applied) \in Nat
  BY <1>1 DEF Events, TypeOK
<1>8. \A i \in 1..Len(applied) : applied[i].seq \in Nat
  <2>1. \A i \in 1..Len(applied) : applied[i] \in Events
    BY <1>1
  <2> QED BY <2>1 DEF Events
<1> HIDE DEF e, rest
<1>9. ASSUME NEW i \in 1..Len(rest) PROVE e.seq < rest[i].seq
  <2>1. i + 1 \in 1..Len(conn.pipe) /\ 1 < i + 1
    BY <1>2
  <2> QED
    BY <1>2, <1>5, <2>1 DEF PipeAscends, Ascending
<1>10. \A i \in 1..Len(applied') : applied'[i].seq <= e.seq
  BY <1>3, <1>4, <1>6, <1>7, <1>8
<1>11. ASSUME NEW i \in 1..Len(applied'), NEW j \in 1..Len(applied'), i < j
       PROVE  applied'[i].seq < applied'[j].seq
  <2>1. CASE j \in 1..Len(applied) /\ applied'[j] = applied[j]
    <3>1. i \in 1..Len(applied) /\ applied'[i] = applied[i]
      BY <1>3, <1>7, <1>11, <2>1
    <3> QED BY <1>4, <1>11, <2>1, <3>1 DEF Ascending
  <2>2. CASE j = Len(applied) + 1 /\ applied'[j] = e
    <3>1. i \in 1..Len(applied) /\ applied'[i] = applied[i]
      BY <1>3, <1>7, <1>11, <2>2
    <3> QED BY <1>4, <1>6, <1>7, <1>8, <2>2, <3>1
  <2> QED
    BY <1>3, <2>1, <2>2
<1>12. Ascending(applied')
  BY <1>11 DEF Ascending
<1>13. CASE conn' = NoConn
  BY <1>1, <1>5, <1>10, <1>12, <1>13 DEF OrderInv, NoConn
<1>14. CASE conn'.state = conn.state /\ conn'.last = conn.last /\ conn'.pipe = rest
  BY <1>1, <1>4, <1>5, <1>6, <1>9, <1>10, <1>12, <1>14 DEF OrderInv
<1> QED
  BY <1>1, <1>13, <1>14

\* The page is after the pipe, and the pipe after what has been applied.
LEMMA OrderPoll ==
    ASSUME TypeOK, Numbered, OrderInv, Poll
    PROVE  OrderInv'
<1>1. UNCHANGED <<log, client, applied, losses, crashes>>
  BY DEF Poll, logVars, tabVars, bounds, limits
<1> SUFFICES ASSUME losses = 0, crashes = 0, \A e \in log : ~Bare(e)
             PROVE  OrderInv'
  BY <1>1 DEF OrderInv
<1>2. PICK page \in SUBSET log :
         /\ \A e \in log : e \in page <=> conn.last < e.seq /\ e.seq <= conn'.last
         /\ IsFiniteSet(page) /\ DistinctNumbers(page)
         /\ conn'.last \in Nat /\ conn.last <= conn'.last
         /\ conn'.pipe = conn.pipe \o InOrder(page)
         /\ conn.state \in {"fresh", "open"} /\ conn'.state \in {"open", "closed"}
  BY PollConn
<1> DEFINE old == conn.pipe
           new == InOrder(page)
           both == old \o new
<1>3. /\ page \in SUBSET Events /\ old \in Seq(Events)
      /\ conn.last \in Nat /\ client.lastSeq \in Nat
  BY DEF TypeOK
<1>4. new \in Seq(Events) /\ \A i \in 1..Len(new) : new[i] \in page
  BY <1>2, <1>3, Ordered
<1>5. \A i \in 1..Len(both) :
         \/ i \in 1..Len(old) /\ both[i] = old[i]
         \/ \E j \in 1..Len(new) : i = Len(old) + j /\ both[i] = new[j]
  BY <1>3, <1>4, HasConcat
<1>6. /\ client.lastSeq <= conn.last
      /\ \A i \in 1..Len(old) : client.lastSeq < old[i].seq
  BY <1>2 DEF OrderInv
<1>7. \A e \in page : client.lastSeq < e.seq
  BY <1>2, <1>3, <1>6 DEF Events
<1>8. conn'.pipe = both
  BY <1>2
<1> HIDE DEF old, new, both
<1>9. \A i \in 1..Len(both) : client.lastSeq < both[i].seq
  BY <1>4, <1>5, <1>6, <1>7
<1>10. client.lastSeq <= conn'.last
  BY <1>2, <1>3, <1>6
<1> QED
  BY <1>1, <1>2, <1>8, <1>9, <1>10 DEF OrderInv

\* A stream that ended cleanly is resumed where the tab is.
LEMMA OrderTab ==
    ASSUME TypeOK, OrderInv, Tab, ~Receive, losses' = 0,
           losses = 0, crashes = 0, \A e \in log : ~Bare(e)
    PROVE  OrderInv'
<1>1. /\ conn.state # "broken"
      /\ client.phase \notin {"settling", "refreshing", "applying"}
      /\ client.phase \in {"loading", "waiting"} => client.resumeFrom = client.lastSeq
      /\ client.lastSeq \in Nat
  BY DEF OrderInv, TypeOK
<1>2. ~BrokenStream /\ ~Settle /\ ~SettleRead /\ ~SettleApply /\ ~SettleFails /\ ~ReconcileFails
  BY <1>1 DEF BrokenStream, Settle, SettleRead, SettleApply, SettleFails, ReconcileFails
<1>3. CASE EndOfStream
  <2>1. /\ client'.phase \in {"waiting", "finished"}
        /\ client'.phase = "waiting" => client'.resumeFrom = client.lastSeq
        /\ client'.lastSeq = client.lastSeq /\ conn' = NoConn /\ UNCHANGED applied
    BY <1>3 DEF EndOfStream, Release, NewClient, TypeOK
  <2> QED
    BY <2>1 DEF OrderInv, NoConn
<1>4. CASE Resubscribe
  <2>1. /\ client'.phase = "reading" /\ client'.lastSeq = client.lastSeq
        /\ conn' = OpenConn(client.lastSeq) /\ UNCHANGED applied
    BY <1>1, <1>4 DEF Resubscribe, TypeOK
  <2> QED
    BY <1>1, <2>1 DEF OrderInv, OpenConn
<1>5. CASE Resume
  <2>1. /\ client'.phase \in {"waiting", "finished"} /\ client.phase = "loading"
        /\ client'.lastSeq = client.lastSeq
        /\ client'.phase = "waiting" => client'.resumeFrom = client.resumeFrom
        /\ UNCHANGED <<conn, applied>>
    BY <1>5 DEF Resume, Release, NewClient, TypeOK
  <2> QED
    BY <1>1, <2>1 DEF OrderInv
<1>6. CASE ReconcileList \/ ReconcileRead \/ Navigate
  <2>1. UNCHANGED <<client, conn, applied>>
    BY <1>6 DEF ReconcileList, ReconcileRead, Navigate
  <2> QED
    BY <2>1 DEF OrderInv
<1>7. CASE ReconcileApply
  <2>1. /\ UNCHANGED applied
        /\ \/ client'.phase = "finished" /\ client'.lastSeq = client.lastSeq /\ conn' = NoConn
           \/ UNCHANGED <<client, conn>>
    BY <1>7 DEF ReconcileApply, Release, NewClient, TypeOK
  <2> QED
    BY <2>1 DEF OrderInv, NoConn
<1>8. CASE Reload
  BY <1>8 DEF Reload, NewClient, NoConn, OrderInv, Ascending
<1> QED
  BY <1>2, <1>3, <1>4, <1>5, <1>6, <1>7, <1>8 DEF Tab, Stream, Reconcile

\* Until a connection or the server breaks, positions only move forward.
LEMMA OrderStep ==
    ASSUME TypeOK, Numbered, PipeLogged, PipeAscends, OrderInv, [Next]_vars
    PROVE  OrderInv'
<1>1. losses' = 0 /\ crashes' = 0 => losses = 0 /\ crashes = 0
  <2>1. losses \in Nat /\ crashes \in Nat
    BY DEF TypeOK
  <2>2. CASE Lose \/ Crash
    BY <2>1, <2>2 DEF Lose, Crash
  <2>3. CASE ~Lose /\ ~Crash
    <3>1. UNCHANGED crashes /\ (UNCHANGED losses \/ losses' = losses + 1)
      BY <2>3, StepCases, WritingFrame, TabFrame
         DEF Commit, Network, Poll, Deadline, bounds, limits, vars
    <3> QED BY <2>1, <3>1
  <2> QED
    BY <2>2, <2>3
<1>10. log \subseteq log'
  BY StepCases, WritingFrame, NetworkFrame, TabFrame
     DEF Commit, Crash, serverVars, logVars, vars
<1> SUFFICES ASSUME losses = 0, crashes = 0, losses' = 0, crashes' = 0,
                    \A e \in log : ~Bare(e)
             PROVE  OrderInv'
  BY <1>1, <1>10 DEF OrderInv
<1>2. ~Lose /\ ~Crash
  BY DEF Lose, Crash
<1>3. CASE Writing \/ (\E w \in Writers : Commit(w)) \/ UNCHANGED vars
  <2>1. UNCHANGED <<conn, client, applied>>
    BY <1>3, WritingFrame DEF Commit, tabVars, vars
  <2> QED
    BY <2>1 DEF OrderInv
<1>4. CASE Deadline
  <2>1. /\ UNCHANGED <<client, applied>> /\ conn.state = "open" /\ conn'.state = "closed"
        /\ conn'.last = conn.last /\ conn'.pipe = conn.pipe
    BY <1>4 DEF Deadline, tabVars, TypeOK
  <2> QED
    BY <2>1 DEF OrderInv
<1> QED
  BY <1>2, <1>3, <1>4, StepCases, OrderPoll, OrderReceive, OrderTab DEF Network

-----------------------------------------------------------------------------
(* Theorems.                                                               *)

\* A log of run_started at most, a fresh connection and a tab at position 0.
LEMMA InvInit == Init => IInv
<1> SUFFICES ASSUME Init PROVE IInv
  OBVIOUS
<1> USE DEF Init
<1>1. <<>> \in Seq(Events) /\ Len(<<>>) = 0
  OBVIOUS
<1>2. conn = [state |-> "fresh", last |-> 0, pipe |-> <<>>] /\ client = NewClient
  BY DEF OpenConn
<1>20. StartEvent \in Events /\ log \subseteq {StartEvent} /\ StartEvent.seq = 1
       /\ ~Bare(StartEvent)
  BY DEF StartEvent, Events, Bare
<1>3. TypeOK
  <2>1. IsFiniteSet(log)
    BY <1>20, FS_EmptySet, FS_Singleton, FS_Subset
  <2>2. client \in [phase : Phases, lastSeq : Nat, resumeFrom : Nat,
                    first : BOOLEAN, told : BOOLEAN, sawDone : BOOLEAN,
                    failures : Nat, read : SUBSET OutcomeMessages,
                    released : {"no", "event", "refresh", "reload", "lost"}]
    BY <1>2 DEF NewClient, Phases
  <2>3. /\ inserting \in [Writers -> Events \cup {NoEvent}]
        /\ pc \in [Writers -> Places]
    BY DEF Places
  <2>4. conn \in [state : {"none", "fresh", "open", "closed", "broken"},
                  last : Nat, pipe : Seq(Events)]
    <3> DEFINE empty == <<>>
    <3>1. empty \in Seq(Events) /\ conn = [state |-> "fresh", last |-> 0, pipe |-> empty]
      BY <1>1, <1>2
    <3> HIDE DEF empty
    <3> QED BY <3>1
  <2>5. reconcile \in [step : {"idle", "refresh", "apply"}, read : SUBSET OutcomeMessages]
    OBVIOUS
  <2>6. /\ nextSeq \in Nat \ {0} /\ log \subseteq Events
        /\ row \in {"active"} \cup TerminalStatus
        /\ stored \subseteq OutcomeMessages /\ outcome \in Outcomes
        /\ shown \subseteq OutcomeMessages /\ viewing \in BOOLEAN
        /\ losses \in Nat /\ reloads \in Nat /\ crashes \in Nat
        /\ failed \subseteq {"check", "save", "end", "event"}
    BY <1>20 DEF Outcomes
  <2>7. applied \in Seq(Events)
    BY <1>1
  <2> HIDE DEF Init
  <2> QED
    BY <2>1, <2>2, <2>3, <2>4, <2>5, <2>6, <2>7 DEF TypeOK
<1>4. Numbered /\ WriterInv
  <2>1. Allows(NoEvent, Standing) /\ Allows(StartEvent, Standing)
    BY DEF Allows, NoEvent, StartEvent
  <2>2. \A w \in Writers : ~Pending(w)
    BY DEF Pending
  <2>3. Numbered
    BY <1>20, <2>2 DEF Numbered
  <2>4. \A e \in log : e = StartEvent
    BY <1>20
  <2> QED
    BY <2>1, <2>3, <2>4 DEF WriterInv, Writers
<1>5. PipeLogged /\ PipeAscends /\ CoverInv
  <2>1. \A e \in log : ~(e.seq <= 0)
    BY <1>20
  <2> QED
    BY <1>1, <1>2, <2>1 DEF PipeLogged, PipeAscends, Ascending, CoverInv, NewClient
<1>6. ReleaseInv
  BY <1>2 DEF ReleaseInv, NewClient
<1>7. AloneInv
  BY <1>2, <1>20 DEF AloneInv, Positions, BeforeWorker, Pending, NewClient, Writers
<1>8. OrderInv
  BY <1>1, <1>2 DEF OrderInv, NewClient, Ascending
<1> QED
  BY <1>3, <1>4, <1>5, <1>6, <1>7, <1>8 DEF IInv

\* No step of anyone breaks a part; each part rests on those before it.
LEMMA InvStep == IInv /\ [Next]_vars => IInv'
BY TypeStep, NumberedStep, WriterStep, PipeStep, ReleaseStep, AscendsStep, AloneStep,
   CoverStep, OrderStep DEF IInv

\* The inductive invariant of the stream and of the tab that reads it.
THEOREM StreamInvariant == Spec => []IInv
BY InvInit, InvStep, PTL DEF Spec

\* The variables keep their types.
THEOREM TypeCorrect == Spec => []TypeOK
<1>1. IInv => TypeOK
  BY DEF IInv
<1> QED
  BY <1>1, StreamInvariant, PTL

\* EveryEventOnce is what CoverInv and OrderInv say of the tab.
LEMMA InvOnce == IInv => EveryEventOnce
<1> SUFFICES ASSUME IInv PROVE EveryEventOnce
  OBVIOUS
<1>1. CoverInv /\ OrderInv
  BY DEF IInv
<1> QED
  BY <1>1 DEF CoverInv, OrderInv, Has, Ascending, EveryEventOnce

\* streamChatRunEvents and consumeChatStream: with one writer no event below
\* the tab's position is missing, and while no connection breaks none is
\* applied twice or out of order.
THEOREM EventsReachTabOnce == Spec => []EveryEventOnce
BY StreamInvariant, InvOnce, PTL

\* finishActiveRequest: unless it gives up with a notice, the tab stops waiting
\* only for a run that is over; after an event or a refresh it has what the run
\* ended with on screen.
THEOREM TabShowsOutcome == Spec => []ReleasedRunIsShown
<1>1. IInv => ReleasedRunIsShown
  BY InvShown DEF IInv
<1> QED
  BY <1>1, StreamInvariant, PTL
=============================================================================
