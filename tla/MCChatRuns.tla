----------------------------- MODULE MCChatRuns -----------------------------
(***************************************************************************)
(* ChatRuns for TLC. The bounds are in the .cfg files; here are the        *)
(* symmetry of the requests, which no definition tells apart, and a later  *)
(* initial state.                                                          *)
(***************************************************************************)
EXTENDS ChatRuns, TLC

RequestSymmetry == Permutations(Requests)

\* The conversation is opened again after a crash that hit every run in the
\* middle of its cancellation: rows and logs are left, nobody works on them.
ReopenInit ==
    /\ conversation = "open"
    /\ \E order \in [1..2 -> Runs] :
          messages = [i \in 1..2 |-> Message(order[i], "user")]
    /\ \A r \in Runs : Stored(Message(r, "user"))
    /\ row = [r \in Runs |-> MarkCancelRequested(RunningRow)]
    /\ events = [r \in Runs |-> <<"run_started", "user">>]
    /\ mode = [r \in Runs |-> "stream"]
    /\ emitted = [r \in Runs |-> 0]
    /\ ctx = [r \in Runs |-> "none"]
    /\ pc = [a \in Actors |-> IF a \in Runs THEN "ended" ELSE "idle"]
    /\ target = [q \in Requests |-> NoRun]
    /\ todo = [q \in Requests |-> {}]
    /\ crashes = 0
    /\ faults = 0

ReopenSpec == ReopenInit /\ [][Next]_vars /\ Fairness

=============================================================================
