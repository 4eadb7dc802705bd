-------------------------- MODULE ContentRequests --------------------------
(***************************************************************************)
(* The conversation that a share, an artifact and an attachment belong to, *)
(* and the requests that work on them.  A request takes one step for each  *)
(* statement whose order matters and may end after any of them: a failed   *)
(* statement, a client that hangs up (the statements run under the         *)
(* request's context) and the loss of the process leave the same state.    *)
(***************************************************************************)
EXTENDS Naturals, FiniteSets

CONSTANTS
    Requests,   \* HTTP requests and generations
    MaxFaults,  \* bound: requests that end early
    None

ASSUME RequestsAssumption == MaxFaults \in Nat

VARIABLES
    conv,    \* the row in conversations exists
    req,     \* what each request does, and where it is
    faults

requestVars == <<conv, req, faults>>

Idle == [op |-> "idle", at |-> "start"]
Over == [op |-> "over", at |-> "end"]

RequestsInit ==
    /\ conv = TRUE
    /\ req = [q \in Requests |-> Idle]
    /\ faults = 0

At(q, op, at) == req[q].op = op /\ req[q].at = at
Advance(q, r) == req' = [req EXCEPT ![q] = r]
Begin(q, r) == req[q] = Idle /\ Advance(q, r)
Goto(q, at) == req' = [req EXCEPT ![q].at = at]
Finish(q) == Advance(q, Over)

Fail(q) ==
    /\ req[q] \notin {Idle, Over}
    /\ faults < MaxFaults /\ faults' = faults + 1
    /\ Finish(q)
=============================================================================
