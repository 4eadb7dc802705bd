---------------------------- MODULE ChatRunStream ----------------------------
(***************************************************************************)
(* How the output of one chat run reaches a browser tab: the event log of  *)
(* the run, the SSE handler that polls it, the connection, and the tab's   *)
(* request for the run, which resumes the stream by sequence number and    *)
(* reconciles with the server every few seconds.                           *)
(* A sequence number is allocated before the event it numbers is           *)
(* committed, so with two writers (the goroutine and whoever cancels the   *)
(* run, see ChatRuns) a reader can go past an event it never sees.         *)
(* The writers drop the error of every SQL statement they run: a message   *)
(* that is not stored leaves an "error" event that carries none, a row     *)
(* that is not updated is announced all the same.                          *)
(***************************************************************************)
EXTENDS Naturals, Sequences, FiniteSets

CONSTANTS
    PageSize,    \* events one poll of the log returns (100 in the code)
    MaxFailures, \* broken streams in a row before the tab gives up (5)
    MaxDeltas,   \* bound: pieces of output of the run
    MaxMishaps   \* bound: lost connections, requests and processes, reloads of
                 \* the tab, kinds of SQL statements of the writers that fail

ASSUME ChatRunStreamAssumption ==
    /\ PageSize \in Nat \ {0}
    /\ {MaxFailures, MaxDeltas, MaxMishaps} \subseteq Nat

Writers == {"worker", "canceler"}
TerminalStatus == {"completed", "failed", "canceled"}
TerminalTypes == {"done", "error", "canceled"}
NoEvent == [seq |-> 0, type |-> "none", message |-> "none"]
StartEvent == [seq |-> 1, type |-> "started", message |-> "none"]

\* An "error" event without assistantMessage.
Bare(e) == e.type = "error" /\ e.message = "none"

VARIABLES
    nextSeq,    \* the sequence behind chat_run_events.seq
    inserting,  \* the INSERT each writer is waiting for
    log,        \* the committed events of the run
    row,        \* the status of the run: "active" or a terminal one
    stored,     \* outcome messages in the conversation
    pc,         \* where each writer is
    outcome,    \* what the goroutine's generation gave
    conn,       \* the SSE connection and the handler serving it
    client,     \* the tab's active request for the run
    applied,    \* events the tab has applied, in order
    shown,      \* outcome messages the tab displays
    reconcile,  \* the tab's reconciliation: its step and what it has read
    viewing,    \* whether the conversation is the one on screen
    losses, reloads, crashes,
    failed      \* which statements of the writers have failed: "check",
                \* "save", "end" or "event"

logVars == <<nextSeq, inserting, log>>
runVars == <<row, stored, pc, outcome>>
tabVars == <<client, applied, shown, reconcile, viewing>>
limits == <<losses, reloads, crashes>>
bounds == <<limits, failed>>
vars == <<logVars, runVars, conn, tabVars, bounds>>

NoConn == [state |-> "none", last |-> 0, pipe |-> <<>>]
OpenConn(after) == [state |-> "fresh", last |-> after, pipe |-> <<>>]

NewClient ==
    [phase |-> "reading", lastSeq |-> 0, resumeFrom |-> 0, first |-> TRUE,
     told |-> FALSE, sawDone |-> FALSE, failures |-> 0, read |-> {}, released |-> "no"]

\* The message was sent with ?stream=1: the POST itself is the first stream.
\* Its handler has logged run_started, unless that statement failed.
Init ==
    /\ nextSeq = 2
    /\ inserting = [w \in Writers |-> NoEvent]
    /\ \/ log = {StartEvent} /\ failed = {}
       \/ log = {} /\ failed = {"event"} /\ MaxMishaps > 0
    /\ row = "active"
    /\ stored = {}
    /\ pc = [w \in Writers |-> "work"]
    /\ outcome = "answer"
    /\ conn = OpenConn(0)
    /\ client = NewClient
    /\ applied = <<>>
    /\ shown = {}
    /\ reconcile = [step |-> "idle", read |-> {}]
    /\ viewing = TRUE
    /\ losses = 0 /\ reloads = 0 /\ crashes = 0

-----------------------------------------------------------------------------
(* The writers.                                                            *)

At(w, label) == pc[w] = label /\ inserting[w] = NoEvent
Goto(w, label) == pc' = [pc EXCEPT ![w] = label]

MayMishap == losses + crashes + reloads + Cardinality(failed) < MaxMishaps

\* The statement returns an error, which the code drops.
Fails(statement) ==
    /\ statement \in failed \/ MayMishap
    /\ failed' = failed \cup {statement}

Works == UNCHANGED failed

\* INSERT ... RETURNING seq: nextval() when the statement runs; the row is
\* there for others when it has committed. If it fails there is no event.
Insert(w, type, message) ==
    \/ /\ inserting' = [inserting EXCEPT ![w] =
              [seq |-> nextSeq, type |-> type, message |-> message]]
       /\ nextSeq' = nextSeq + 1
       /\ UNCHANGED log
       /\ Works
    \/ Fails("event") /\ UNCHANGED logVars

Commit(w) ==
    /\ inserting[w] # NoEvent
    /\ log' = log \cup {inserting[w]}
    /\ inserting' = [inserting EXCEPT ![w] = NoEvent]
    /\ UNCHANGED <<nextSeq, runVars, conn, tabVars, bounds>>

\* A piece of output: the check, then the INSERT. The check finds no stop in
\* a canceled run when its SELECT fails.
AcceptDelta ==
    /\ At("worker", "work")
    /\ \/ row = "active" /\ Works
       \/ row = "canceled" /\ Fails("check")
    /\ Cardinality({e \in log : e.type = "delta"}) < MaxDeltas
    /\ Goto("worker", "delta")
    /\ UNCHANGED <<row, stored, outcome, logVars, conn, tabVars, limits>>

Emit ==
    /\ At("worker", "delta")
    /\ Insert("worker", "delta", "none")
    /\ Goto("worker", "work")
    /\ UNCHANGED <<row, stored, outcome, conn, tabVars, limits>>

\* The last check before the outcome is stored.
Check ==
    /\ At("worker", "work")
    /\ \/ row = "canceled" /\ Goto("worker", "ended") /\ UNCHANGED <<outcome, failed>>
       \/ /\ \/ row # "canceled" /\ Works
             \/ row = "canceled" /\ Fails("check")
          /\ Goto("worker", "checked")
          /\ outcome' \in {"answer", "failure"}
    /\ UNCHANGED <<row, stored, logVars, conn, tabVars, limits>>

\* CreateMessage. An answer that is not stored makes the run a failed one,
\* and no message says so.
Save ==
    /\ At("worker", "checked")
    /\ \/ stored' = stored \cup {outcome} /\ Works /\ UNCHANGED outcome
       \/ Fails("save") /\ outcome' = "failure" /\ UNCHANGED stored
    /\ Goto("worker", "stored")
    /\ UNCHANGED <<row, logVars, conn, tabVars, limits>>

\* Mutant of EndRow: the run is announced first, its row follows.
EndRowLater ==
    /\ At("worker", "stored")
    /\ Goto("worker", "updated")
    /\ UNCHANGED <<row, stored, outcome, logVars, conn, tabVars, bounds>>

\* CompleteChatRun or FailChatRun; neither takes the row from a canceler.
EndRow ==
    /\ At("worker", "stored")
    /\ \/ /\ row' = IF row # "active" THEN row
                    ELSE IF outcome = "answer" THEN "completed" ELSE "failed"
          /\ Works
       \/ Fails("end") /\ UNCHANGED row
    /\ Goto("worker", "updated")
    /\ UNCHANGED <<stored, outcome, logVars, conn, tabVars, limits>>

\* The event carries the message, if there is one.
Announce ==
    /\ At("worker", "updated")
    /\ Insert("worker", IF outcome = "answer" THEN "done" ELSE "error",
              IF outcome \in stored THEN outcome ELSE "none")
    /\ Goto("worker", "ended")
    /\ UNCHANGED <<row, stored, outcome, conn, tabVars, limits>>

Worker == AcceptDelta \/ Emit \/ Check \/ Save \/ EndRow \/ Announce

\* finishCanceledRun, by whoever takes the row: the row first, the notice
\* second, the event last. Without the row nothing else happens.
Claim ==
    /\ At("canceler", "work")
    /\ row = "active"
    /\ row' = "canceled"
    /\ Goto("canceler", "checked")
    /\ UNCHANGED <<stored, outcome, logVars, conn, tabVars, bounds>>

SaveNotice ==
    /\ At("canceler", "checked")
    /\ \/ stored' = stored \cup {"stopped"} /\ Works
       \/ Fails("save") /\ UNCHANGED stored
    /\ Goto("canceler", "updated")
    /\ UNCHANGED <<row, outcome, logVars, conn, tabVars, limits>>

AnnounceCanceled ==
    /\ At("canceler", "updated")
    /\ Insert("canceler", "canceled", IF "stopped" \in stored THEN "stopped" ELSE "none")
    /\ Goto("canceler", "ended")
    /\ UNCHANGED <<row, stored, outcome, conn, tabVars, limits>>

-----------------------------------------------------------------------------
(* The SSE handler, streamChatRunEvents.                                   *)

\* Mutant of Page: the newest events instead of the oldest.
NewestPage(last) ==
    LET new == {e \in log : e.seq > last}
    IN  {e \in new : Cardinality({d \in new : d.seq > e.seq}) < PageSize}

\* WHERE seq > last ORDER BY seq LIMIT PageSize.
Page(last) ==
    LET new == {e \in log : e.seq > last}
    IN  {e \in new : Cardinality({d \in new : d.seq < e.seq}) < PageSize}

InOrder(events) ==
    CHOOSE s \in [1..Cardinality(events) -> events] :
        \A i, j \in DOMAIN s : i < j => s[i].seq < s[j].seq

Newest(events, last) ==
    CHOOSE n \in {last} \cup {e.seq : e \in events} :
        \A e \in events : e.seq <= n

\* One poll: the whole page is sent, then the handler returns if a terminal
\* event was in it.
Poll ==
    /\ conn.state \in {"fresh", "open"}
    /\ LET page == Page(conn.last) IN
          conn' = [state |-> IF \E e \in page : e.type \in TerminalTypes
                             THEN "closed" ELSE "open",
                   last |-> Newest(page, conn.last),
                   pipe |-> conn.pipe \o InOrder(page)]
    /\ UNCHANGED <<logVars, runVars, tabVars, bounds>>

\* The timer of 85 s, which starts with the connection, ends it.
Deadline ==
    /\ conn.state = "open"
    /\ conn' = [conn EXCEPT !.state = "closed"]
    /\ UNCHANGED <<logVars, runVars, tabVars, bounds>>

\* The connection breaks, or the handler's query fails: what was on its way
\* is lost and the reader gets an error.
Lose ==
    /\ conn.state # "none"
    /\ conn.state # "broken"
    /\ MayMishap
    /\ losses' = losses + 1
    /\ conn' = [conn EXCEPT !.state = "broken", !.pipe = <<>>]
    /\ UNCHANGED <<logVars, runVars, tabVars, reloads, crashes, failed>>

\* The core process is lost: writers, handlers, statements under way.
Crash ==
    /\ MayMishap
    /\ conn.state # "none" \/ \E w \in Writers : ~At(w, "ended")
    /\ crashes' = crashes + 1
    /\ pc' = [w \in Writers |-> "ended"]
    /\ inserting' = [w \in Writers |-> NoEvent]
    /\ conn' = IF conn.state = "none" THEN conn
               ELSE [conn EXCEPT !.state = "broken", !.pipe = <<>>]
    /\ UNCHANGED <<nextSeq, log, row, stored, outcome, tabVars, losses, reloads, failed>>

-----------------------------------------------------------------------------
(* The tab: subscribeToRunEvents and consumeChatStream.                    *)

Active == client.released = "no"
serverVars == <<logVars, runVars>>

\* finishActiveRequest deletes the request; its position is kept for the
\* properties.
Release(c, how) ==
    [NewClient EXCEPT !.phase = "finished", !.released = how, !.lastSeq = c.lastSeq]

\* An exception in the stream: the POST's ends the request with a notice, a
\* later one is settled with the server.
Thrown(c) == IF c.first THEN Release(c, "lost")
             ELSE [c EXCEPT !.phase = "settling", !.failures = @ + 1]

\* The sequence number is noted before the event is applied; "canceled" and
\* "error" release the request at once, "done" at the end of the stream. An
\* error without a message is thrown.
Receive ==
    /\ Active
    /\ client.phase = "reading"
    /\ conn.pipe # <<>>
    /\ LET e == Head(conn.pipe)
           noted == [client EXCEPT !.lastSeq = e.seq, !.told = @ \/ e.type = "started"]
       IN  /\ applied' = Append(applied, e)
           /\ shown' = shown \cup ({e.message} \ {"none"})
           /\ client' = CASE e.type \in {"started", "delta"} -> noted
                          [] e.type = "done" -> [noted EXCEPT !.sawDone = TRUE]
                          [] Bare(e)         -> Thrown(noted)
                          [] OTHER           -> Release(noted, "event")
           /\ conn' = IF e.type \in {"canceled", "error"} THEN NoConn
                      ELSE [conn EXCEPT !.pipe = Tail(@)]
    /\ UNCHANGED <<serverVars, reconcile, viewing, bounds>>

\* A stream that ended cleanly: the next one starts after the last event
\* applied. The POST's stream is only resumed when it told the run's id.
EndOfStream ==
    /\ Active
    /\ client.phase = "reading"
    /\ conn.state = "closed"
    /\ conn.pipe = <<>>
    /\ client' = IF client.sawDone THEN Release(client, "event")
                 ELSE IF ~client.told THEN Release(client, "lost")
                 ELSE [client EXCEPT !.phase = "waiting", !.first = FALSE,
                                     !.failures = 0, !.resumeFrom = client.lastSeq]
    /\ conn' = NoConn
    /\ UNCHANGED <<serverVars, applied, shown, reconcile, viewing, bounds>>

\* A stream that failed. resumeFrom stays where it was.
BrokenStream ==
    /\ Active
    /\ client.phase = "reading"
    /\ conn.state = "broken"
    /\ client' = Thrown(client)
    /\ conn' = NoConn
    /\ UNCHANGED <<serverVars, applied, shown, reconcile, viewing, bounds>>

\* The stream is tried again after 1.2 s, or given up with a notice.
NextAttempt(c) == IF c.failures <= MaxFailures THEN [c EXCEPT !.phase = "waiting"]
                  ELSE Release(c, "lost")

\* settleRunFromServer, then listActiveChatRuns: both end in a refresh when
\* the run is over.
Settle ==
    /\ Active
    /\ client.phase = "settling"
    /\ client' = IF row \in TerminalStatus THEN [client EXCEPT !.phase = "refreshing"]
                 ELSE NextAttempt(client)
    /\ UNCHANGED <<serverVars, conn, applied, shown, reconcile, viewing, bounds>>

SettleRead ==
    /\ Active
    /\ client.phase = "refreshing"
    /\ client' = [client EXCEPT !.phase = "applying", !.read = stored]
    /\ UNCHANGED <<serverVars, conn, applied, shown, reconcile, viewing, bounds>>

SettleApply ==
    /\ client.phase = "applying"
    /\ shown' = client.read
    /\ client' = Release(client, "refresh")
    /\ UNCHANGED <<serverVars, conn, applied, reconcile, viewing, bounds>>

\* A request of the two fails, on the way or in the server.
SettleFails ==
    /\ Active
    /\ client.phase \in {"settling", "refreshing"}
    /\ MayMishap
    /\ losses' = losses + 1
    /\ client' = NextAttempt(client)
    /\ UNCHANGED <<serverVars, conn, applied, shown, reconcile, viewing,
                   reloads, crashes, failed>>

Resubscribe ==
    /\ Active
    /\ client.phase = "waiting"
    /\ conn' = OpenConn(client.resumeFrom)
    /\ client' = [client EXCEPT !.phase = "reading"]
    /\ UNCHANGED <<serverVars, applied, shown, reconcile, viewing, bounds>>

-----------------------------------------------------------------------------
(* The tab: reconciliation every 4 s, for the conversation on screen.      *)

\* Mutant of ReconcileList: only a run that ended by itself is noticed.
ReconcileListEnded ==
    /\ Active /\ viewing
    /\ reconcile.step = "idle"
    /\ row \in {"completed", "failed"}
    /\ reconcile' = [reconcile EXCEPT !.step = "refresh"]
    /\ UNCHANGED <<serverVars, conn, client, applied, shown, viewing, bounds>>

\* listActiveChatRuns no longer has the run; its id must be known.
ReconcileList ==
    /\ Active /\ viewing
    /\ client.told
    /\ reconcile.step = "idle"
    /\ row \in TerminalStatus
    /\ reconcile' = [reconcile EXCEPT !.step = "refresh"]
    /\ UNCHANGED <<serverVars, conn, client, applied, shown, viewing, bounds>>

ReconcileRead ==
    /\ reconcile.step = "refresh"
    /\ reconcile' = [step |-> "apply", read |-> stored]
    /\ UNCHANGED <<serverVars, conn, client, applied, shown, viewing, bounds>>

\* Either request fails: the next turn is in 4 s.
ReconcileFails ==
    /\ reconcile.step = "refresh"
    /\ MayMishap
    /\ losses' = losses + 1
    /\ reconcile' = [step |-> "idle", read |-> {}]
    /\ UNCHANGED <<serverVars, conn, client, applied, shown, viewing,
                   reloads, crashes, failed>>

\* The answer replaces the messages on screen, whatever the stream has done
\* since; the request is released unless it already was.
ReconcileApply ==
    /\ reconcile.step = "apply"
    /\ shown' = reconcile.read
    /\ reconcile' = [step |-> "idle", read |-> {}]
    /\ client' = IF Active THEN Release(client, "refresh") ELSE client
    /\ conn' = IF Active THEN NoConn ELSE conn
    /\ UNCHANGED <<serverVars, applied, viewing, bounds>>

Reconcile == ReconcileList \/ ReconcileRead \/ ReconcileApply

-----------------------------------------------------------------------------
(* The user.                                                               *)

\* Opens another conversation, or comes back to this one.
Navigate ==
    /\ Active
    /\ viewing' = ~viewing
    /\ UNCHANGED <<serverVars, conn, client, applied, shown, reconcile, bounds>>

\* The tab is loaded again: messages first, active runs second.
Reload ==
    /\ MayMishap
    /\ reloads' = reloads + 1
    /\ client' = [NewClient EXCEPT !.phase = "loading", !.first = FALSE, !.told = TRUE]
    /\ shown' = stored
    /\ applied' = <<>>
    /\ conn' = NoConn
    /\ reconcile' = [step |-> "idle", read |-> {}]
    /\ viewing' = TRUE
    /\ UNCHANGED <<serverVars, losses, crashes, failed>>

\* resumeActiveRunsForConversation: a run that ended between the two reads
\* is taken for one whose outcome is already on screen.
Resume ==
    /\ client.phase = "loading"
    /\ client' = IF row = "active" THEN [client EXCEPT !.phase = "waiting"]
                 ELSE Release(client, "reload")
    /\ UNCHANGED <<serverVars, conn, applied, shown, reconcile, viewing, bounds>>

-----------------------------------------------------------------------------
Stream ==
    \/ Receive \/ EndOfStream \/ BrokenStream
    \/ Settle \/ SettleRead \/ SettleApply
    \/ Resubscribe \/ Resume

Canceler == SaveNotice \/ AnnounceCanceled

\* The request is over and every writer has ended.
Quiescent ==
    /\ ~Active /\ reconcile.step = "idle"
    /\ \A w \in Writers : inserting[w] = NoEvent
    /\ pc["worker"] = "ended" /\ pc["canceler"] \in {"work", "ended"}
    /\ UNCHANGED vars

Next ==
    \/ Worker \/ Claim \/ Canceler
    \/ \E w \in Writers : Commit(w)
    \/ Poll \/ Deadline \/ Lose \/ Crash
    \/ Stream \/ SettleFails
    \/ Reconcile \/ ReconcileFails
    \/ Navigate \/ Reload
    \/ Quiescent

Spec == Init /\ [][Next]_vars

\* Statements commit, timers fire and responses are read; nothing makes the
\* upstream, the user or the network act.
Fairness ==
    /\ WF_vars(Emit \/ Save \/ EndRow \/ Announce \/ Commit("worker"))
    /\ WF_vars(Canceler \/ Commit("canceler"))
    /\ WF_vars(Poll \/ Deadline)
    /\ WF_vars(Stream)
    /\ WF_vars(Reconcile)

FairSpec == Spec /\ Fairness

(***************************************************************************)
(* Safety. What the variables range over is TypeOK of                      *)
(* ChatRunStream_proofs.                                                   *)
(***************************************************************************)

\* The numbers are no gap-free log: but as long as the goroutine is the only
\* writer, whatever is committed below the tab's position has reached it,
\* over every poll, reconnection and reload. And no event is applied twice,
\* unless a connection broke or the run failed without a message: only a
\* stream that ended cleanly moves the position the next one resumes from.
EveryEventOnce ==
    /\ row # "canceled" =>
          \A e \in log : e.seq <= client.lastSeq =>
              \E i \in 1..Len(applied) : applied[i] = e
    /\ losses = 0 /\ crashes = 0 /\ (\A e \in log : ~Bare(e)) =>
          \A i, j \in 1..Len(applied) : i < j => applied[i].seq < applied[j].seq

\* The tab stops waiting for a run, other than by giving up on it, only when
\* the run is over: a refresh is only made for a row that says so, an event
\* comes after the row unless the statement that ends the row has failed.
\* And the tab then shows what the run ended with, by way of the stream or of
\* the refresh, although both write the same list of messages. What a failed
\* run ended with is in no message when the statement that stores it failed.
\* (Not so for a canceled run, whose row is taken before the notice is
\* stored, nor for one that ends while the tab is being loaded.)
ReleasedRunIsShown ==
    /\ client.released \in {"refresh", "reload"} => row \in TerminalStatus
    /\ client.released = "event" => row \in TerminalStatus \/ "end" \in failed
    /\ client.released \in {"event", "refresh"} =>
          /\ row = "completed" => "answer" \in shown
          /\ row = "failed" /\ "save" \notin failed => "failure" \in shown

-----------------------------------------------------------------------------
(* Liveness, under Fairness.                                               *)

\* A run that is over releases the tab that looks at it, even when the
\* event that says so was never logged or was skipped.
EndedRunReleases ==
    row \in TerminalStatus ~> ~Active \/ ~viewing

=============================================================================
