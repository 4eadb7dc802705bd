-------------------------- MODULE ChatRunLifecycle --------------------------
(***************************************************************************)
(* What a chat run promises to whoever watches it, with none of the        *)
(* handlers, checks or statements: a run is active until it takes one      *)
(* outcome and keeps it, and its log announces how it ended.               *)
(*   - "canceled" is announced only for a canceled run, and once;          *)
(*   - the goroutine announces its own end, "done" or "error", once; when  *)
(*     a cancellation came in between, both announcements are in the log;  *)
(*   - a run goes away only with its conversation, together with its log.  *)
(***************************************************************************)
EXTENDS Naturals

CONSTANT Runs

VARIABLES
    phase,      \* "none", "active", an outcome, or "gone"
    announced   \* entries of the log that end it: their position and type

vars == <<phase, announced>>

Outcomes == {"completed", "failed", "canceled"}
Announcements == {"done", "error", "canceled"}

Init ==
    /\ phase = [r \in Runs |-> "none"]
    /\ announced = [r \in Runs |-> {}]

Create(r) ==
    /\ phase[r] = "none"
    /\ phase' = [phase EXCEPT ![r] = "active"]
    /\ UNCHANGED announced

End(r) ==
    /\ phase[r] = "active"
    /\ \E outcome \in Outcomes : phase' = [phase EXCEPT ![r] = outcome]
    /\ UNCHANGED announced

\* An announcement goes to the end of the log, and no other announcement of
\* the same source is there: "canceled" comes from whoever canceled the run,
\* "done" and "error" from the goroutine.
Announce(r, type) ==
    /\ phase[r] \notin {"none", "gone"}
    /\ type = "canceled" => phase[r] = "canceled"
    /\ \A entry \in announced[r] :
          (type = "canceled") # (entry.type = "canceled")
    /\ \E entry \in announced'[r] :
          /\ entry.type = type
          /\ entry.position \in Nat
          /\ \A earlier \in announced[r] : earlier.position < entry.position
          /\ announced' = [announced EXCEPT ![r] = @ \cup {entry}]
    /\ UNCHANGED phase

Remove ==
    /\ phase' = [r \in Runs |-> "gone"]
    /\ announced' = [r \in Runs |-> {}]

Next ==
    \/ \E r \in Runs :
          \/ Create(r)
          \/ End(r)
          \/ \E type \in Announcements : Announce(r, type)
    \/ Remove

Spec == Init /\ [][Next]_vars

=============================================================================
