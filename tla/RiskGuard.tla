----------------------------- MODULE RiskGuard -----------------------------
(***************************************************************************)
(* The limit on requests per address and per device (riskGuard): for each  *)
(* of the two keys of a request, Redis is asked whether the key is         *)
(* blocked, its counter is incremented, given its expiry when it was new,  *)
(* compared with the limit, and the key is blocked when it is over it.     *)
(* Four commands, one step each; a command that fails lets the request     *)
(* through, and a client that hangs up cancels the commands that are left. *)
(* One rule, one address, and the devices behind it.  What a request does  *)
(* when it has been let through is the module that extends this one.       *)
(***************************************************************************)
EXTENDS Naturals

CONSTANTS
    Requests,            \* HTTP requests
    Address,             \* the address they all come from
    Devices,             \* fingerprints
    LimitPerIP,
    LimitPerFingerprint,
    MaxFailures          \* bound: failed commands and hang-ups

ASSUME RiskAssumption ==
    /\ Address \notin Devices /\ Devices # {}
    /\ LimitPerIP \in Nat \ {0} /\ LimitPerFingerprint \in Nat \ {0}
    /\ MaxFailures \in Nat

Keys == {Address} \cup Devices

\* The rule of the route. (Zero, for the devices of /v1, turns a limit off.)
Limit(k) == IF k = Address THEN LimitPerIP ELSE LimitPerFingerprint

VARIABLES
    count,       \* risk:<scope>:<key>
    expiring,    \* the counters that have an expiry
    blocked,     \* risk:block:<scope>:<key>
    stage,       \* where each request is
    fingerprint, \* the device each request says it comes from
    key,         \* the key under test
    lost,        \* history: counters that were left without their expiry
    failures

guardVars ==
    <<count, expiring, blocked, stage, fingerprint, key, lost, failures>>

GuardStages == {"blocked?", "count", "expire", "block"}

GuardInit ==
    /\ count = [k \in Keys |-> 0]
    /\ expiring = {} /\ blocked = {}
    /\ stage = [q \in Requests |-> "new"]
    /\ fingerprint \in [Requests -> Devices]
    /\ key = [q \in Requests |-> Address]
    /\ lost = {} /\ failures = 0

AtStage(q, s) == stage[q] = s
ToStage(q, s) == stage' = [stage EXCEPT ![q] = s]
Failure == failures < MaxFailures /\ failures' = failures + 1

\* enforceRiskRule: the address first, then the device, then the handler.
PassKey(q) ==
    IF key[q] = Address
    THEN key' = [key EXCEPT ![q] = fingerprint[q]] /\ ToStage(q, "blocked?")
    ELSE UNCHANGED key /\ ToStage(q, "handler")

EnterGuard(q) ==
    /\ AtStage(q, "new") /\ ToStage(q, "blocked?")
    /\ UNCHANGED <<count, expiring, blocked, fingerprint, key, lost, failures>>

CheckBlock(q) ==
    /\ AtStage(q, "blocked?")
    /\ ToStage(q, IF key[q] \in blocked THEN "limited" ELSE "count")
    /\ UNCHANGED <<count, expiring, blocked, fingerprint, key, lost, failures>>

\* Mutant of NeedsExpiry: the value before the increment is looked at.
NeedsExpiryOld(n) == n = 0

\* INCR answers with the new value; the first one sets the expiry.
NeedsExpiry(n) == n = 1

Count(q) ==
    /\ AtStage(q, "count")
    /\ LET k == key[q]
           n == count[k] + 1
       IN /\ count' = [count EXCEPT ![k] = n]
          /\ \/ NeedsExpiry(n) /\ ToStage(q, "expire") /\ UNCHANGED key
             \/ ~NeedsExpiry(n) /\ n <= Limit(k) /\ PassKey(q)
             \/ /\ ~NeedsExpiry(n) /\ n > Limit(k)
                /\ ToStage(q, "block") /\ UNCHANGED key
    /\ UNCHANGED <<expiring, blocked, fingerprint, lost, failures>>

SetExpiry(q) ==
    /\ AtStage(q, "expire")
    /\ expiring' = expiring \cup {key[q]}
    /\ PassKey(q)
    /\ UNCHANGED <<count, blocked, fingerprint, lost, failures>>

Block(q) ==
    /\ AtStage(q, "block")
    /\ blocked' = blocked \cup {key[q]}
    /\ ToStage(q, "limited")
    /\ UNCHANGED <<count, expiring, fingerprint, key, lost, failures>>

\* The command was carried out and its answer is lost, or it was not. After
\* an error the request is served; after a hang-up nothing it asks for is.
CommandFails(q) ==
    /\ stage[q] \in GuardStages /\ Failure
    /\ ToStage(q, "handler") \/ ToStage(q, "done")
    /\ LET k == key[q] IN
       \/ UNCHANGED <<count, expiring, blocked>>
          /\ lost' = IF AtStage(q, "expire") THEN lost \cup {k} ELSE lost
       \/ /\ AtStage(q, "count") /\ count' = [count EXCEPT ![k] = @ + 1]
          /\ lost' = IF NeedsExpiry(count[k] + 1) THEN lost \cup {k} ELSE lost
          /\ UNCHANGED <<expiring, blocked>>
       \/ /\ AtStage(q, "expire") /\ expiring' = expiring \cup {k}
          /\ UNCHANGED <<count, blocked, lost>>
       \/ /\ AtStage(q, "block") /\ blocked' = blocked \cup {k}
          /\ UNCHANGED <<count, expiring, lost>>
    /\ UNCHANGED <<fingerprint, key>>

\* The window of a counter, the duration of a block.
CounterExpires(k) ==
    /\ k \in expiring
    /\ count' = [count EXCEPT ![k] = 0] /\ expiring' = expiring \ {k}
    /\ UNCHANGED <<blocked, stage, fingerprint, key, lost, failures>>

BlockExpires(k) ==
    /\ k \in blocked /\ blocked' = blocked \ {k}
    /\ UNCHANGED <<count, expiring, stage, fingerprint, key, lost, failures>>

GuardStep(q) == CheckBlock(q) \/ Count(q) \/ SetExpiry(q) \/ Block(q)
Timers == \E k \in Keys : CounterExpires(k) \/ BlockExpires(k)

-----------------------------------------------------------------------------
(* Properties.                                                             *)

\* consumeRiskQuota: a counter without an expiry is about to get it, or the
\* one command that would have set it failed: nothing sets it later.
CountersExpire ==
    \A k \in Keys :
        count[k] > 0 => \/ k \in expiring \cup lost
                        \/ \E q \in Requests : AtStage(q, "expire") /\ key[q] = k

\* Whoever is over the limit is so for a time only, unless the expiry was
\* lost: then the counter stays, and every block is followed by another.
NobodyBlockedForGood ==
    \A k \in Keys :
        /\ k \in blocked ~> k \notin blocked
        /\ count[k] > Limit(k) ~> count[k] = 0 \/ k \in lost
=============================================================================
