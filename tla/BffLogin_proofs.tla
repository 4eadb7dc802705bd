---------------------------- MODULE BffLogin_proofs ---------------------------
(***************************************************************************)
(* Proofs about the two logins the BFF serves, which share no state: the   *)
(* device authorization of Infinite Code (DeviceAuth, section 1), for      *)
(* every set of polls, refreshes and pages and any number of faults, and   *)
(* the first administrator behind riskGuard (AdminAccess, section 2), for  *)
(* any sets of requests and devices, any limits and any number of          *)
(* failures.                                                               *)
(***************************************************************************)
EXTENDS DeviceAuth, AdminAccess, FiniteSetTheorems, TLAPS

-----------------------------------------------------------------------------
(* 1. The device authorization.                                            *)
(*                                                                         *)
(* The inductive invariant behind the properties.                          *)

\* Requests that found what they came for, and may be on their way to tokens.
Took(a) == pc[a] \in {"access", "refresh", "delete", "answer", "answered"} \/ a \in live

\* Before the client knows the code nobody has done anything with it.
NotYetKnown ==
    creation # "answered" =>
        /\ creation = "state stored" => device # NoState
        /\ ~expired /\ ~userCode /\ ~confirmed /\ ~refused
        /\ deleted = {} /\ received = {}
        /\ \A p \in Polls : pc[p] = "idle"
        /\ \A g \in Pages : pc[g] \in {"idle", "expired"}

\* A token is in Redis until the client knows it, and only one the client
\* knows is replaced, by one of the same session.
TokensChained ==
    /\ \A a \in Issuers : pc[a] \in {"delete", "answer"} => a \in live
    /\ \A a \in live : pc[a] \in {"delete", "answer", "answered", "lost"}
    /\ \A a \in received : pc[a] = "answered"
    /\ \A a \in Issuers : Took(a) => session[a] \in Polls
    /\ \A q \in Refreshes :
           Took(q) => used[q] \in received /\ session[q] = session[used[q]]

\* Unless a page wrote a state back, the keys of a valid code are there until
\* the first deletion, and whoever read them did so before it.
KeysUntilDeleted ==
    ~revived =>
        /\ creation = "answered" /\ ~expired =>
               /\ device # NoState <=> deleted = {}
               /\ userCode <=> deleted = {}
        /\ device # NoState => deleted = {}
        /\ \A p \in Polls : Took(p) => seen[p] = {}
        /\ \A g \in Pages : pc[g] = "store" => seen[g] = {}

\* A refusal that was stored is what the key says, if it is there, and who
\* reads it then gets nothing.
RefusalStored ==
    faults = 0 =>
        /\ refused => device = NoState \/ device.denied
        /\ \A p \in tooLate : pc[p] # "idle" /\ ~Took(p)

IInv ==
    /\ Typed
    /\ NotYetKnown
    /\ TokensChained
    /\ KeysUntilDeleted
    /\ RefusalStored
    /\ ApprovalNotLost
    /\ SessionKeepsToken

\* The initial values have their types.
LEMMA InitTyped == Init => Typed
<1> SUFFICES ASSUME Init PROVE Typed
  OBVIOUS
<1>1. pc \in [Actors -> Labels]
  BY DEF Init, Labels
<1>2. device \in States \cup {NoState} /\ read \in [Pages -> States]
  <2>1. Pending \in States
    BY DEF States, Pending
  <2> QED
    BY <2>1 DEF Init
<1>3. /\ used \in [Refreshes -> Issuers \cup {NoToken}]
      /\ session \in [Issuers -> Polls \cup {NoToken}]
      /\ seen \in [Polls \cup Pages -> SUBSET Polls]
  BY DEF Init
<1>4. /\ creation \in {"new", "state stored", "answered", "failed"}
      /\ userCode \in BOOLEAN /\ expired \in BOOLEAN
      /\ revived \in BOOLEAN /\ confirmed \in BOOLEAN /\ refused \in BOOLEAN
      /\ live \subseteq Issuers /\ received \subseteq Issuers
      /\ deleted \subseteq Polls /\ tooLate \subseteq Polls
  BY DEF Init
<1>5. faults \in 0..MaxFaults
  <2>1. faults = 0 /\ MaxFaults \in Nat
    BY DeviceAuthAssumption DEF Init
  <2> QED
    BY <2>1
<1> QED
  BY <1>1, <1>2, <1>3, <1>4, <1>5 DEF Typed

\* The invariant holds before anything was asked of the BFF.
LEMMA InitIInv == Init => IInv
<1> SUFFICES ASSUME Init PROVE IInv
  OBVIOUS
<1> USE DEF Init
<1>1. Issued = {} /\ \A a \in Issuers : ~Took(a)
  BY DEF Issued, Took, Actors, Issuers
<1>2. Typed
  BY InitTyped
<1>3. NotYetKnown /\ TokensChained
  BY <1>1 DEF NotYetKnown, TokensChained, Actors, Issuers
<1>4. KeysUntilDeleted /\ RefusalStored
  BY <1>1 DEF KeysUntilDeleted, RefusalStored, Issuers
<1>5. ApprovalNotLost /\ SessionKeepsToken
  BY <1>1 DEF ApprovalNotLost, SessionKeepsToken
<1> QED
  BY <1>2, <1>3, <1>4, <1>5 DEF IInv

-----------------------------------------------------------------------------
(* Types.                                                                  *)

\* A step to a known place moves one request, and no other.
LEMMA Move ==
    ASSUME Typed, NEW a \in Actors, NEW l \in Labels, Goto(a, l)
    PROVE  /\ pc' \in [Actors -> Labels]
           /\ pc'[a] = l
           /\ \A b \in Actors : b # a => pc'[b] = pc[b]
<1>1. pc \in [Actors -> Labels]
  BY DEF Typed
<1> QED
  BY <1>1 DEF Goto

\* Besides, a step with a fault is not one before the first.
LEMMA Faults ==
    ASSUME Typed, Fault \/ UNCHANGED faults
    PROVE  faults' \in 0..MaxFaults /\ (Fault => faults' # 0)
<1>1. faults \in 0..MaxFaults /\ MaxFaults \in Nat
  BY DeviceAuthAssumption DEF Typed
<1> QED
  BY <1>1 DEF Fault

\* Every step keeps the types.
LEMMA TypedStep == ASSUME Typed, [Next]_vars PROVE Typed'
<1> USE DEF redis, client, history
<1>1. CASE CreateDevice
  <2>1. device' \in States \cup {NoState} /\ userCode' \in BOOLEAN
    <3>1. device \in States \cup {NoState} /\ userCode \in BOOLEAN /\ Pending \in States
      BY DEF Typed, Pending, States
    <3> QED
      BY <1>1, <3>1 DEF CreateDevice
  <2>2. creation' \in {"new", "state stored", "answered", "failed"}
    BY <1>1 DEF CreateDevice, Typed
  <2>3. faults' \in 0..MaxFaults
    BY <1>1, Faults DEF CreateDevice
  <2> QED
    BY <1>1, <2>1, <2>2, <2>3 DEF CreateDevice, Typed
<1>2. ASSUME NEW a \in Issuers, IssueTokens(a) PROVE Typed'
  <2>1. \E l \in Labels : Goto(a, l)
    BY <1>2 DEF IssueTokens, Labels, Ended
  <2>2. pc' \in [Actors -> Labels]
    BY <2>1, Move DEF Actors
  <2>3. live' \subseteq Issuers
    BY <1>2 DEF IssueTokens, Typed
  <2>4. faults' \in 0..MaxFaults
    BY <1>2, Faults DEF IssueTokens
  <2> QED
    BY <1>2, <2>2, <2>3, <2>4 DEF IssueTokens, Typed
<1>3. ASSUME NEW a \in Issuers, Answer(a) PROVE Typed'
  <2>1. \E l \in Labels : Goto(a, l)
    BY <1>3 DEF Answer, Labels, Ended
  <2>2. pc' \in [Actors -> Labels]
    BY <2>1, Move DEF Actors
  <2>3. received' \subseteq Issuers
    BY <1>3 DEF Answer, Typed
  <2> QED
    BY <1>3, <2>2, <2>3 DEF Answer, Typed
<1>4. ASSUME NEW p \in Polls, LoadState(p) PROVE Typed'
  <2>1. \E l \in Labels : Goto(p, l)
    BY <1>4 DEF LoadState, PollOutcome, Labels, Ended
  <2>2. pc' \in [Actors -> Labels]
    BY <2>1, Move DEF Actors, Issuers
  <2>3. faults' \in 0..MaxFaults
    BY <1>4, Faults DEF LoadState
  <2>4. seen' \in [Polls \cup Pages -> SUBSET Polls]
    <3>1. seen \in [Polls \cup Pages -> SUBSET Polls] /\ deleted \in SUBSET Polls
      BY DEF Typed
    <3> QED
      BY <1>4, <3>1 DEF LoadState
  <2>5. session' \in [Issuers -> Polls \cup {NoToken}]
    <3>1. session \in [Issuers -> Polls \cup {NoToken}]
      BY DEF Typed
    <3> QED
      BY <1>4, <3>1 DEF LoadState
  <2>6. tooLate' \subseteq Polls
    BY <1>4 DEF LoadState, Typed
  <2> QED
    BY <1>4, <2>2, <2>3, <2>4, <2>5, <2>6 DEF LoadState, Typed
<1>5. ASSUME NEW p \in Polls, DeleteDevice(p) PROVE Typed'
  <2>1. pc' \in [Actors -> Labels]
    BY <1>5, Move DEF DeleteDevice, Labels, Actors, Issuers
  <2>2. /\ device' \in States \cup {NoState}
        /\ userCode' \in BOOLEAN
        /\ deleted' \subseteq Polls
    <3>1. device \in States \cup {NoState} /\ userCode \in BOOLEAN /\ deleted \subseteq Polls
      BY DEF Typed
    <3> QED
      BY <1>5, <3>1 DEF DeleteDevice
  <2>3. faults' \in 0..MaxFaults
    BY <1>5, Faults DEF DeleteDevice
  <2> QED
    BY <1>5, <2>1, <2>2, <2>3 DEF DeleteDevice, Typed
<1>6. ASSUME NEW q \in Refreshes, LoadToken(q) PROVE Typed'
  <2>1. \E l \in Labels : Goto(q, l)
    BY <1>6 DEF LoadToken, Labels, Ended
  <2>2. pc' \in [Actors -> Labels]
    BY <2>1, Move DEF Actors, Issuers
  <2>3. /\ used' \in [Refreshes -> Issuers \cup {NoToken}]
        /\ session' \in [Issuers -> Polls \cup {NoToken}]
    <3>1. /\ used \in [Refreshes -> Issuers \cup {NoToken}]
          /\ session \in [Issuers -> Polls \cup {NoToken}]
          /\ received \subseteq Issuers
      BY DEF Typed
    <3> QED
      BY <1>6, <3>1 DEF LoadToken
  <2>4. faults' \in 0..MaxFaults
    BY <1>6, Faults DEF LoadToken
  <2> QED
    BY <1>6, <2>2, <2>3, <2>4 DEF LoadToken, Typed
<1>7. ASSUME NEW q \in Refreshes, DeleteToken(q) PROVE Typed'
  <2>1. pc' \in [Actors -> Labels]
    BY <1>7, Move DEF DeleteToken, Labels, Actors, Issuers
  <2>2. faults' \in 0..MaxFaults
    BY <1>7, Faults DEF DeleteToken
  <2>3. live' \subseteq Issuers
    BY <1>7 DEF DeleteToken, Typed
  <2> QED
    BY <1>7, <2>1, <2>2, <2>3 DEF DeleteToken, Typed
<1>8. ASSUME NEW g \in Pages, FindDevice(g) PROVE Typed'
  <2>1. \E l \in Labels : Goto(g, l)
    BY <1>8 DEF FindDevice, Labels, Ended
  <2>2. pc' \in [Actors -> Labels]
    BY <2>1, Move DEF Actors
  <2>3. faults' \in 0..MaxFaults
    BY <1>8, Faults DEF FindDevice
  <2> QED
    BY <1>8, <2>2, <2>3 DEF FindDevice, Typed
<1>9. ASSUME NEW g \in Pages, ReadState(g) PROVE Typed'
  <2>1. \E l \in Labels : Goto(g, l)
    BY <1>9 DEF ReadState, Labels, Ended
  <2>2. pc' \in [Actors -> Labels]
    BY <2>1, Move DEF Actors
  <2>3. read' \in [Pages -> States]
    <3>1. read \in [Pages -> States] /\ device \in States \cup {NoState}
      BY DEF Typed
    <3> QED
      BY <1>9, <3>1 DEF ReadState, Loadable
  <2>4. seen' \in [Polls \cup Pages -> SUBSET Polls]
    <3>1. seen \in [Polls \cup Pages -> SUBSET Polls] /\ deleted \in SUBSET Polls
      BY DEF Typed
    <3> QED
      BY <1>9, <3>1 DEF ReadState
  <2>5. faults' \in 0..MaxFaults
    BY <1>9, Faults DEF ReadState
  <2> QED
    BY <1>9, <2>2, <2>3, <2>4, <2>5 DEF ReadState, Typed
<1>10. ASSUME NEW g \in Pages, Approve(g) \/ Deny(g) \/ TurnAway(g) PROVE Typed'
  <2>1. \E l \in Labels : Goto(g, l)
    BY <1>10 DEF Approve, Deny, TurnAway, Labels, Ended
  <2>2. pc' \in [Actors -> Labels]
    BY <2>1, Move DEF Actors
  <2>3. faults' \in 0..MaxFaults
    BY <1>10, Faults DEF Approve, Deny, TurnAway, StoreState
  <2>4. device' \in States \cup {NoState}
    <3>1. read[g] \in States /\ device \in States \cup {NoState}
      BY DEF Typed
    <3>2. /\ [approved |-> TRUE, denied |-> FALSE] \in States
          /\ [read[g] EXCEPT !.denied = TRUE] \in States
      BY <3>1 DEF States
    <3> QED
      BY <1>10, <3>1, <3>2 DEF Approve, Deny, TurnAway, StoreState
  <2>5. revived' \in BOOLEAN /\ confirmed' \in BOOLEAN /\ refused' \in BOOLEAN
    <3>1. revived \in BOOLEAN /\ confirmed \in BOOLEAN /\ refused \in BOOLEAN
      BY DEF Typed
    <3> QED
      BY <1>10, <3>1 DEF Approve, Deny, TurnAway, StoreState
  <2>6. UNCHANGED pageFrame
    BY <1>10 DEF Approve, Deny, TurnAway, pageFrame
  <2> QED
    BY <2>2, <2>3, <2>4, <2>5, <2>6 DEF pageFrame, Typed
<1>11. CASE Expire \/ Evict
  BY <1>11 DEF Expire, Evict, Typed
<1>12. CASE Crash
  <2>1. pc' \in [Actors -> Labels]
    <3>1. pc \in [Actors -> Labels] /\ "lost" \in Labels
      BY DEF Typed, Labels, Ended
    <3> QED
      BY <1>12, <3>1 DEF Crash
  <2>2. creation' \in {"new", "state stored", "answered", "failed"}
    BY <1>12 DEF Crash, Typed
  <2>3. faults' \in 0..MaxFaults
    BY <1>12, Faults DEF Crash
  <2> QED
    BY <1>12, <2>1, <2>2, <2>3 DEF Crash, Typed
<1>13. CASE UNCHANGED vars
  BY <1>13 DEF vars, Typed
<1>14. QED
  BY <1>1, <1>2, <1>3, <1>4, <1>5, <1>6, <1>7, <1>8, <1>9, <1>10, <1>11, <1>12, <1>13
     DEF Next, PollStep, RefreshStep, PageStep, Quiescent, Issuers

-----------------------------------------------------------------------------
(* What each action does, one request at a time.                           *)

\* Every request but a is where it was.
Others(a) == \A b \in Actors : b # a => pc'[b] = pc[b]

\* A poll moves on from what it read of the state, and only it.
LEMMA LoadStateEffect ==
    ASSUME Typed, NEW p \in Polls, LoadState(p)
    PROVE  /\ pc[p] = "idle" /\ pc'[p] \in {"access", "pending", "denied", "expired"}
           /\ pc'[p] = "access" => device # NoState /\ ~device.denied
           /\ Others(p)
           /\ seen'[p] = deleted
           /\ \A b \in Polls \cup Pages : b # p => seen'[b] = seen[b]
           /\ session'[p] = p /\ \A b \in Issuers : b # p => session'[b] = session[b]
<1>1. /\ \A l \in {"access", "pending", "denied", "expired"} :
            Goto(p, l) => pc'[p] = l /\ Others(p)
  BY Move DEF Others, Actors, Issuers, Labels, Ended
<1>2. /\ seen \in [Polls \cup Pages -> SUBSET Polls]
      /\ session \in [Issuers -> Polls \cup {NoToken}]
  BY DEF Typed
<1>3. PollOutcome(device) \in {"access", "pending", "denied"}
  BY DEF PollOutcome
<1>4. PollOutcome(device) = "access" => ~device.denied
  BY DEF PollOutcome
<1>5. pc[p] = "idle"
  BY DEF LoadState, At
<1>6. \/ Loadable /\ Goto(p, PollOutcome(device))
      \/ Goto(p, "expired")
  BY DEF LoadState
<1>7. /\ seen' = [seen EXCEPT ![p] = deleted]
      /\ session' = [session EXCEPT ![p] = p]
  BY DEF LoadState
<1> QED
  BY <1>1, <1>2, <1>3, <1>4, <1>5, <1>6, <1>7 DEF Loadable, Issuers

\* Issuing stores the token of the request that issues, or fails.
LEMMA IssueTokensEffect ==
    ASSUME Typed, NEW a \in Issuers, IssueTokens(a)
    PROVE  /\ pc[a] \in {"access", "refresh"}
           /\ \/ pc'[a] \in {"refresh", "error"} /\ UNCHANGED live
              \/ pc'[a] = "delete" /\ live' = live \cup {a}
           /\ Others(a)
<1>1. \A l \in {"refresh", "delete", "error"} : Goto(a, l) => pc'[a] = l /\ Others(a)
  BY Move DEF Others, Actors, Labels, Ended
<1> QED
  BY <1>1 DEF IssueTokens, At

\* An answer arrives or is lost; the client knows only what arrived.
LEMMA AnswerEffect ==
    ASSUME Typed, NEW a \in Issuers, Answer(a)
    PROVE  /\ pc[a] = "answer"
           /\ \/ pc'[a] = "answered" /\ received' = received \cup {a}
              \/ pc'[a] = "lost" /\ UNCHANGED received
           /\ Others(a)
<1>1. \A l \in {"answered", "lost"} : Goto(a, l) => pc'[a] = l /\ Others(a)
  BY Move DEF Others, Actors, Labels, Ended
<1> QED
  BY <1>1 DEF Answer, At

\* Both deletions go on to the answer, whether they worked or not.
LEMMA DeleteEffect ==
    ASSUME Typed, NEW a \in Issuers, Goto(a, "answer")
    PROVE  pc'[a] = "answer" /\ Others(a)
  BY Move DEF Others, Actors, Labels

\* A refresh goes on only with a token that is in Redis, and joins its session.
LEMMA LoadTokenEffect ==
    ASSUME Typed, NEW q \in Refreshes, LoadToken(q)
    PROVE  /\ pc[q] = "idle" /\ pc'[q] \in {"access", "expired"}
           /\ Others(q)
           /\ \E t \in received :
                 /\ used'[q] = t /\ session'[q] = session[t]
                 /\ pc'[q] = "access" => t \in live
           /\ \A b \in Refreshes : b # q => used'[b] = used[b]
           /\ \A b \in Issuers : b # q => session'[b] = session[b]
<1>1. \A l \in {"access", "expired"} : Goto(q, l) => pc'[q] = l /\ Others(q)
  BY Move DEF Others, Actors, Issuers, Labels, Ended
<1>2. /\ used \in [Refreshes -> Issuers \cup {NoToken}]
      /\ session \in [Issuers -> Polls \cup {NoToken}]
  BY DEF Typed
<1>3. PICK t \in received :
         /\ used' = [used EXCEPT ![q] = t]
         /\ session' = [session EXCEPT ![q] = session[t]]
         /\ \/ t \in live /\ Goto(q, "access")
            \/ Goto(q, "expired")
  BY DEF LoadToken
<1>4. pc[q] = "idle"
  BY DEF LoadToken, At
<1> QED
  BY <1>1, <1>2, <1>3, <1>4 DEF Issuers

\* A page comes to write only by having found a state.
LEMMA PageEffect ==
    ASSUME Typed, NEW g \in Pages, PageStep(g)
    PROVE  /\ pc[g] \in {"idle", "user code", "store"}
           /\ pc'[g] \in {"user code", "store", "expired", "confirmed", "refused", "error"}
           /\ pc'[g] = "store" => ReadState(g) /\ device # NoState
           /\ Others(g)
<1>1. \A l \in {"user code", "store", "expired", "confirmed", "refused", "error"} :
         Goto(g, l) => pc'[g] = l /\ Others(g)
  BY Move DEF Others, Actors, Labels, Ended
<1>2. CASE FindDevice(g)
  BY <1>1, <1>2 DEF FindDevice, At
<1>3. CASE ReadState(g)
  BY <1>1, <1>3 DEF ReadState, Loadable, At
<1>4. CASE Approve(g) \/ Deny(g) \/ TurnAway(g)
  BY <1>1, <1>4 DEF Approve, Deny, TurnAway, At
<1> QED
  BY <1>2, <1>3, <1>4 DEF PageStep

\* A lost process takes the requests with it that were under way.
LEMMA CrashEffect ==
    ASSUME Typed, Crash
    PROVE  \A a \in Actors : \/ pc'[a] = "lost" /\ pc[a] # "idle"
                             \/ pc'[a] = pc[a] /\ pc[a] \in Ended \cup {"idle"}
<1>1. pc' = [a \in Actors |-> IF pc[a] \in Ended \cup {"idle"} THEN pc[a] ELSE "lost"]
  BY DEF Crash
<1> QED
  BY <1>1

-----------------------------------------------------------------------------
(* One lemma per conjunct of the invariant, one step per action.           *)

\* Only the answer to the client makes the code known.
LEMMA NotYetKnownStep == ASSUME IInv, [Next]_vars PROVE NotYetKnown'
<1>1. Typed /\ NotYetKnown /\ TokensChained
  BY DEF IInv
<1>2. SUFFICES ASSUME creation' # "answered" PROVE NotYetKnown'
  BY DEF NotYetKnown
<1> USE <1>1, <1>2, DeviceAuthAssumption, NoStateAssumption
    DEF NotYetKnown, redis, client, history
<1>3. CASE CreateDevice
  <2>1. Pending # NoState
    <3>1. Pending \in States
      BY DEF States, Pending
    <3> QED
      BY <3>1
  <2> QED
    BY <1>3, <2>1 DEF CreateDevice
<1>4. ASSUME NEW a \in Issuers, IssueTokens(a) PROVE NotYetKnown'
  BY <1>4, IssueTokensEffect DEF IssueTokens, Others, Actors, Issuers
<1>5. ASSUME NEW a \in Issuers, Answer(a) PROVE NotYetKnown'
  <2>1. creation # "answered" /\ pc[a] = "answer"
    BY <1>5, AnswerEffect DEF Answer
  <2>2. a \in Refreshes /\ Took(a)
    BY <2>1 DEF Took, Issuers
  <2> QED
    BY <2>1, <2>2 DEF TokensChained
<1>6. ASSUME NEW p \in Polls, LoadState(p) \/ DeleteDevice(p) PROVE NotYetKnown'
  BY <1>6 DEF LoadState, DeleteDevice, At
<1>7. ASSUME NEW q \in Refreshes, LoadToken(q) \/ DeleteToken(q) PROVE NotYetKnown'
  <2>1. CASE LoadToken(q)
    BY <2>1 DEF LoadToken
  <2>2. CASE DeleteToken(q)
    BY <2>2, DeleteEffect DEF DeleteToken, Others, Actors, Issuers
  <2> QED
    BY <1>7, <2>1, <2>2
<1>8. ASSUME NEW g \in Pages, PageStep(g) PROVE NotYetKnown'
  <2>1. CASE FindDevice(g)
    <3>1. creation # "answered" /\ Goto(g, "expired")
      BY <2>1 DEF FindDevice
    <3>2. pc'[g] = "expired" /\ \A b \in Actors : b # g => pc'[b] = pc[b]
      BY <3>1, Move DEF Actors, Labels, Ended
    <3> QED
      BY <2>1, <3>2 DEF FindDevice, Actors, Issuers
  <2>2. CASE ReadState(g) \/ Approve(g) \/ Deny(g) \/ TurnAway(g)
    BY <2>2 DEF ReadState, Approve, Deny, TurnAway, pageFrame, At
  <2> QED
    BY <1>8, <2>1, <2>2 DEF PageStep
<1>9. CASE Expire \/ Evict
  BY <1>9 DEF Expire, Evict
<1>10. CASE Crash
  <2>1. /\ \A p \in Polls : pc'[p] = pc[p]
        /\ \A g \in Pages : pc'[g] = pc[g]
    BY <1>10, CrashEffect DEF Crash, Actors, Issuers, Ended
  <2> QED
    BY <1>10, <2>1 DEF Crash
<1>11. CASE UNCHANGED vars
  BY <1>11 DEF vars
<1> QED
  BY <1>3, <1>4, <1>5, <1>6, <1>7, <1>8, <1>9, <1>10, <1>11
     DEF Next, PollStep, RefreshStep, Quiescent, Issuers

\* A page takes part in no token's story.
LEMMA TokensChainedFrame ==
    ASSUME TokensChained,
           UNCHANGED <<live, session, used, received>>,
           \A a \in Issuers : pc'[a] = pc[a],
           Typed
    PROVE  TokensChained'
<1>1. live \subseteq Issuers /\ received \subseteq Issuers
  BY DEF Typed
<1> QED
  BY <1>1 DEF TokensChained, Took, Issuers

\* No step breaks the chain of tokens of a session.
LEMMA TokensChainedStep == ASSUME IInv, [Next]_vars PROVE TokensChained'
<1>1. /\ Typed /\ TokensChained
      /\ live \subseteq Issuers /\ received \subseteq Issuers
  BY DEF IInv, Typed
<1> USE <1>1, DeviceAuthAssumption DEF Issuers, redis, client, history
<1>2. CASE CreateDevice \/ Expire \/ Evict \/ UNCHANGED vars
  BY <1>2, TokensChainedFrame DEF CreateDevice, Expire, Evict, vars
<1>3. ASSUME NEW a \in Issuers, IssueTokens(a) PROVE TokensChained'
  <2>1. /\ \A b \in Issuers : b # a => pc'[b] = pc[b]
        /\ UNCHANGED <<session, used, received>>
        /\ pc[a] \in {"access", "refresh"}
        /\ \/ pc'[a] \in {"refresh", "error"} /\ UNCHANGED live
           \/ pc'[a] = "delete" /\ live' = live \cup {a}
    BY <1>3, IssueTokensEffect DEF IssueTokens, Others, Actors
  <2> QED
    BY <2>1 DEF TokensChained, Took
<1>4. ASSUME NEW a \in Issuers, Answer(a) PROVE TokensChained'
  <2>1. /\ \A b \in Issuers : b # a => pc'[b] = pc[b]
        /\ UNCHANGED <<session, used, live>>
        /\ pc[a] = "answer"
        /\ \/ pc'[a] = "answered" /\ received' = received \cup {a}
           \/ pc'[a] = "lost" /\ UNCHANGED received
    BY <1>4, AnswerEffect DEF Answer, Others, Actors
  <2> QED
    BY <2>1 DEF TokensChained, Took
<1>5. ASSUME NEW p \in Polls, LoadState(p) PROVE TokensChained'
  <2>1. /\ \A b \in Issuers : b # p => pc'[b] = pc[b] /\ session'[b] = session[b]
        /\ UNCHANGED <<used, live, received>>
        /\ pc[p] = "idle" /\ session'[p] = p
        /\ pc'[p] \in {"access", "pending", "denied", "expired"}
    BY <1>5, LoadStateEffect DEF LoadState, Others, Actors
  <2> QED
    BY <2>1 DEF TokensChained, Took
<1>6. ASSUME NEW p \in Polls, DeleteDevice(p) PROVE TokensChained'
  <2>1. /\ \A b \in Issuers : b # p => pc'[b] = pc[b]
        /\ UNCHANGED <<session, used, live, received>>
        /\ pc[p] = "delete" /\ pc'[p] = "answer"
    BY <1>6, DeleteEffect DEF DeleteDevice, Others, Actors, At
  <2> QED
    BY <2>1 DEF TokensChained, Took
<1>7. ASSUME NEW q \in Refreshes, LoadToken(q) PROVE TokensChained'
  <2>1. /\ \A b \in Issuers : b # q => pc'[b] = pc[b] /\ session'[b] = session[b]
        /\ \A b \in Refreshes : b # q => used'[b] = used[b]
        /\ UNCHANGED <<live, received>>
        /\ pc[q] = "idle" /\ pc'[q] \in {"access", "expired"}
    BY <1>7, LoadTokenEffect DEF LoadToken, Others, Actors
  <2>2. PICK t \in received : /\ used'[q] = t /\ session'[q] = session[t]
                              /\ pc'[q] = "access" => t \in live
    BY <1>7, LoadTokenEffect
  <2>3. t \in Issuers /\ t # q
    BY <2>1 DEF TokensChained
  <2> QED
    BY <2>1, <2>2, <2>3 DEF TokensChained, Took
<1>8. ASSUME NEW q \in Refreshes, DeleteToken(q) PROVE TokensChained'
  <2>1. /\ \A b \in Issuers : b # q => pc'[b] = pc[b]
        /\ UNCHANGED <<session, used, received>>
        /\ pc[q] = "delete" /\ pc'[q] = "answer"
        /\ live' \in {live, live \ {used[q]}}
    BY <1>8, DeleteEffect DEF DeleteToken, Others, Actors, At
  <2>2. used[q] \in received /\ pc[used[q]] = "answered"
    BY <2>1 DEF TokensChained, Took
  <2> QED
    BY <2>1, <2>2 DEF TokensChained, Took
<1>9. ASSUME NEW g \in Pages, PageStep(g) PROVE TokensChained'
  <2>1. \A b \in Issuers : pc'[b] = pc[b]
    BY <1>9, PageEffect DEF Others, Actors
  <2>2. UNCHANGED <<live, session, used, received>>
    BY <1>9 DEF PageStep, FindDevice, ReadState, Approve, Deny, TurnAway, pageFrame
  <2> QED
    BY <2>1, <2>2, TokensChainedFrame
<1>10. CASE Crash
  <2>1. /\ UNCHANGED <<live, session, used, received>>
        /\ \A a \in Issuers : \/ pc'[a] = "lost"
                              \/ pc'[a] = pc[a] /\ pc[a] \notin {"delete", "answer"}
        /\ \A a \in Issuers : pc[a] = "answered" => pc'[a] = "answered"
    BY <1>10, CrashEffect DEF Crash, Actors, Ended
  <2> QED
    BY <2>1 DEF TokensChained, Took
<1> QED
  BY <1>2, <1>3, <1>4, <1>5, <1>6, <1>7, <1>8, <1>9, <1>10
     DEF Next, PollStep, RefreshStep, Quiescent

\* The keys go with the first deletion.
LEMMA KeysUntilDeletedStep == ASSUME IInv, [Next]_vars PROVE KeysUntilDeleted'
<1>1. /\ Typed /\ NotYetKnown /\ TokensChained /\ KeysUntilDeleted
      /\ live \subseteq Issuers /\ deleted \subseteq Polls
      /\ revived \in BOOLEAN
  BY DEF IInv, Typed
<1> USE <1>1, DeviceAuthAssumption, NoStateAssumption DEF Issuers, redis, client, history
<1>2. CASE CreateDevice
  <2>1. Pending # NoState
    <3>1. Pending \in States
      BY DEF States, Pending
    <3> QED
      BY <3>1
  <2>2. creation # "answered" /\ UNCHANGED <<expired, live, pc, deleted, seen, revived>>
    BY <1>2 DEF CreateDevice
  <2>3. creation' = "answered" =>
           userCode' /\ creation = "state stored" /\ device' = device
    BY <1>2 DEF CreateDevice
  <2> QED
    BY <2>1, <2>2, <2>3 DEF KeysUntilDeleted, NotYetKnown, Took
<1>3. ASSUME NEW a \in Issuers, IssueTokens(a) PROVE KeysUntilDeleted'
  <2>1. /\ \A b \in Actors : b # a => pc'[b] = pc[b]
        /\ UNCHANGED <<creation, device, userCode, expired, deleted, seen, revived>>
        /\ pc[a] \in {"access", "refresh"}
        /\ pc'[a] \in {"refresh", "error", "delete"}
        /\ live' \in {live, live \cup {a}}
    BY <1>3, IssueTokensEffect DEF IssueTokens, Others
  <2> QED
    BY <2>1 DEF KeysUntilDeleted, Took, Actors
<1>4. ASSUME NEW a \in Issuers, Answer(a) PROVE KeysUntilDeleted'
  <2>1. /\ \A b \in Actors : b # a => pc'[b] = pc[b]
        /\ UNCHANGED <<creation, redis, expired, deleted, seen, revived>>
        /\ pc[a] = "answer"
        /\ pc'[a] \in {"answered", "lost"}
    BY <1>4, AnswerEffect DEF Answer, Others
  <2> QED
    BY <2>1 DEF KeysUntilDeleted, Took, Actors
<1>5. ASSUME NEW p \in Polls, LoadState(p) PROVE KeysUntilDeleted'
  <2>1. /\ \A b \in Actors : b # p => pc'[b] = pc[b]
        /\ UNCHANGED <<creation, redis, expired, deleted, revived>>
        /\ pc[p] = "idle" /\ pc'[p] \in {"access", "pending", "denied", "expired"}
        /\ pc'[p] = "access" => device # NoState
        /\ seen'[p] = deleted
        /\ \A b \in Polls \cup Pages : b # p => seen'[b] = seen[b]
    BY <1>5, LoadStateEffect DEF LoadState, Others
  <2> QED
    BY <2>1 DEF KeysUntilDeleted, TokensChained, Took, Actors
<1>6. ASSUME NEW p \in Polls, DeleteDevice(p) PROVE KeysUntilDeleted'
  <2>1. /\ \A b \in Actors : b # p => pc'[b] = pc[b]
        /\ UNCHANGED <<creation, live, expired, seen, revived>>
        /\ pc[p] = "delete" /\ pc'[p] = "answer"
    BY <1>6, DeleteEffect DEF DeleteDevice, Others, At
  <2>2. \/ device' = NoState /\ userCode' = FALSE /\ deleted' = deleted \cup {p}
        \/ UNCHANGED <<device, userCode, deleted>>
    BY <1>6 DEF DeleteDevice
  <2> QED
    BY <2>1, <2>2 DEF KeysUntilDeleted, Took, Actors
<1>7. ASSUME NEW q \in Refreshes, LoadToken(q) \/ DeleteToken(q) PROVE KeysUntilDeleted'
  <2>1. /\ UNCHANGED <<creation, device, userCode, expired, deleted, seen, revived>>
        /\ live' \subseteq live
    BY <1>7 DEF LoadToken, DeleteToken
  <2>2. \A b \in Polls \cup Pages : pc'[b] = pc[b]
    BY <1>7, LoadTokenEffect, DeleteEffect DEF DeleteToken, Others, Actors
  <2> QED
    BY <2>1, <2>2 DEF KeysUntilDeleted, Took
<1>8. ASSUME NEW g \in Pages, PageStep(g) PROVE KeysUntilDeleted'
  <2>1. /\ \A b \in Actors : b # g => pc'[b] = pc[b]
        /\ pc'[g] = "store" => ReadState(g) /\ device # NoState
    BY <1>8, PageEffect DEF Others
  <2>2. CASE FindDevice(g)
    <3>1. UNCHANGED <<creation, redis, expired, deleted, seen, revived>>
      BY <2>2 DEF FindDevice
    <3>2. pc'[g] # "store"
      <4>1. \A l \in {"user code", "expired"} : Goto(g, l) => pc'[g] = l
        BY Move DEF Actors, Labels, Ended
      <4> QED
        BY <2>2, <4>1 DEF FindDevice
    <3> QED
      BY <2>1, <3>1, <3>2 DEF KeysUntilDeleted, Took, Actors
  <2>3. CASE ReadState(g)
    <3>2. seen'[g] = deleted /\ \A b \in Polls \cup Pages : b # g => seen'[b] = seen[b]
      <4>1. seen \in [Polls \cup Pages -> SUBSET Polls]
        BY DEF Typed
      <4> QED
        BY <2>3, <4>1 DEF ReadState
    <3>3. UNCHANGED <<creation, redis, expired, deleted, revived>>
      BY <2>3 DEF ReadState
    <3> QED
      BY <2>1, <3>2, <3>3 DEF KeysUntilDeleted, Took, Actors
  <2>4. CASE Approve(g) \/ Deny(g) \/ TurnAway(g)
    <3>1. pc[g] = "store" /\ pc'[g] # "store"
      <4>1. \A l \in {"confirmed", "refused", "error"} : Goto(g, l) => pc'[g] = l
        BY Move DEF Actors, Labels, Ended
      <4> QED
        BY <2>4, <4>1 DEF Approve, Deny, TurnAway, At
    <3>2. /\ UNCHANGED <<creation, userCode, live, expired, deleted, seen>>
          /\ \/ UNCHANGED <<device, revived>>
             \/ /\ device' \in States
                /\ revived' = (revived \/ deleted # seen[g])
      <4>1. read[g] \in States
        BY DEF Typed
      <4>2. /\ [approved |-> TRUE, denied |-> FALSE] \in States
            /\ [read[g] EXCEPT !.denied = TRUE] \in States
        BY <4>1 DEF States
      <4> QED
        BY <2>4, <4>2 DEF Approve, Deny, TurnAway, StoreState, pageFrame
    <3> QED
      BY <2>1, <3>1, <3>2 DEF KeysUntilDeleted, Took, Actors
  <2> QED
    BY <1>8, <2>2, <2>3, <2>4 DEF PageStep
<1>9. CASE Expire \/ Evict
  BY <1>9 DEF Expire, Evict, KeysUntilDeleted, Took
<1>10. CASE Crash
  <2>1. /\ UNCHANGED <<redis, expired, deleted, seen, revived>>
        /\ creation' = "answered" => creation = "answered"
    BY <1>10 DEF Crash
  <2>2. \A a \in Actors : pc'[a] = "lost" \/ pc'[a] = pc[a]
    BY <1>10, CrashEffect
  <2> QED
    BY <2>1, <2>2 DEF KeysUntilDeleted, Took, Actors
<1>11. CASE UNCHANGED vars
  BY <1>11 DEF vars, KeysUntilDeleted, Took
<1> QED
  BY <1>2, <1>3, <1>4, <1>5, <1>6, <1>7, <1>8, <1>9, <1>10, <1>11
     DEF Next, PollStep, RefreshStep, Quiescent

\* While no command fails, no step undoes a refusal unseen.
LEMMA RefusalStoredStep == ASSUME IInv, [Next]_vars PROVE RefusalStored'
<1>1. /\ Typed /\ NotYetKnown /\ TokensChained /\ RefusalStored
      /\ live \subseteq Issuers /\ tooLate \subseteq Polls
      /\ refused \in BOOLEAN
  BY DEF IInv, Typed
<1>2. SUFFICES ASSUME faults' = 0 PROVE RefusalStored'
  BY DEF RefusalStored
<1> USE <1>1, <1>2, DeviceAuthAssumption DEF Issuers, redis, client, history
<1>3. ~Fault
  BY Faults
<1>4. CASE CreateDevice
  <2>1. ~refused /\ UNCHANGED <<faults, refused, tooLate, pc, live>>
    BY <1>3, <1>4 DEF CreateDevice, NotYetKnown
  <2> QED
    BY <2>1 DEF RefusalStored, Took
<1>5. ASSUME NEW a \in Issuers, IssueTokens(a) PROVE RefusalStored'
  <2>1. /\ \A b \in Actors : b # a => pc'[b] = pc[b]
        /\ UNCHANGED <<device, refused, tooLate, faults>>
        /\ pc[a] \in {"access", "refresh"}
        /\ live' \in {live, live \cup {a}}
    BY <1>3, <1>5, IssueTokensEffect DEF IssueTokens, Others
  <2>2. a \notin tooLate
    BY <2>1 DEF RefusalStored, Took
  <2> QED
    BY <2>1, <2>2 DEF RefusalStored, Took, Actors
<1>6. ASSUME NEW a \in Issuers, Answer(a) PROVE RefusalStored'
  <2>1. /\ \A b \in Actors : b # a => pc'[b] = pc[b]
        /\ UNCHANGED <<device, live, refused, tooLate, faults>>
        /\ pc[a] = "answer"
    BY <1>6, AnswerEffect DEF Answer, Others
  <2>2. a \notin tooLate
    BY <2>1 DEF RefusalStored, Took
  <2> QED
    BY <2>1, <2>2 DEF RefusalStored, Took, Actors
<1>7. ASSUME NEW p \in Polls, LoadState(p) PROVE RefusalStored'
  <2>1. /\ \A b \in Actors : b # p => pc'[b] = pc[b]
        /\ UNCHANGED <<device, live, refused, faults>>
        /\ tooLate' = IF refused THEN tooLate \cup {p} ELSE tooLate
        /\ pc[p] = "idle" /\ pc'[p] \in {"access", "pending", "denied", "expired"}
        /\ pc'[p] = "access" => device # NoState /\ ~device.denied
    BY <1>3, <1>7, LoadStateEffect DEF LoadState, Others
  <2>2. p \notin tooLate /\ p \notin live
    BY <2>1 DEF RefusalStored, TokensChained
  <2>3. refused => pc'[p] # "access"
    BY <2>1 DEF RefusalStored
  <2> QED
    BY <2>1, <2>2, <2>3 DEF RefusalStored, Took, Actors
<1>8. ASSUME NEW p \in Polls, DeleteDevice(p) PROVE RefusalStored'
  <2>1. /\ \A b \in Actors : b # p => pc'[b] = pc[b]
        /\ UNCHANGED <<live, refused, tooLate, faults>>
        /\ device' = NoState
        /\ pc[p] = "delete"
    BY <1>3, <1>8, DeleteEffect DEF DeleteDevice, Others, At
  <2>2. p \notin tooLate
    BY <2>1 DEF RefusalStored, Took
  <2> QED
    BY <2>1, <2>2 DEF RefusalStored, Took, Actors
<1>9. ASSUME NEW q \in Refreshes, LoadToken(q) \/ DeleteToken(q) PROVE RefusalStored'
  <2>1. /\ UNCHANGED <<device, refused, tooLate, faults>>
        /\ live' \subseteq live
    BY <1>3, <1>9 DEF LoadToken, DeleteToken
  <2>2. \A b \in Polls : pc'[b] = pc[b]
    BY <1>9, LoadTokenEffect, DeleteEffect DEF DeleteToken, Others, Actors
  <2> QED
    BY <2>1, <2>2 DEF RefusalStored, Took
<1>10. ASSUME NEW g \in Pages, PageStep(g) PROVE RefusalStored'
  <2>1. /\ \A b \in Polls : pc'[b] = pc[b]
    BY <1>10, PageEffect DEF Others, Actors
  <2>2. UNCHANGED <<live, tooLate, faults>>
    BY <1>3, <1>10
       DEF PageStep, FindDevice, ReadState, Approve, Deny, TurnAway, StoreState, pageFrame
  <2>3. refused' => device' = NoState \/ device'.denied
    <3>1. CASE Deny(g)
      <4>1. read[g] \in States
        BY DEF Typed
      <4>2. [read[g] EXCEPT !.denied = TRUE].denied = TRUE
        BY <4>1 DEF States
      <4> QED
        BY <1>3, <3>1, <4>2 DEF Deny, StoreState
    <3>2. CASE Approve(g)
      BY <1>3, <3>2 DEF Approve
    <3>3. CASE FindDevice(g) \/ ReadState(g) \/ TurnAway(g)
      BY <2>2, <3>3 DEF FindDevice, ReadState, TurnAway, RefusalStored
    <3> QED
      BY <1>10, <3>1, <3>2, <3>3 DEF PageStep
  <2> QED
    BY <2>1, <2>2, <2>3 DEF RefusalStored, Took
<1>11. CASE Expire \/ Evict
  BY <1>11 DEF Expire, Evict, RefusalStored, Took
<1>12. CASE Crash
  BY <1>3, <1>12 DEF Crash
<1>13. CASE UNCHANGED vars
  BY <1>13 DEF vars, RefusalStored, Took
<1> QED
  BY <1>4, <1>5, <1>6, <1>7, <1>8, <1>9, <1>10, <1>11, <1>12, <1>13
     DEF Next, PollStep, RefreshStep, Quiescent

\* A token once stored counts as issued for good.
LEMMA IssuedStays == ASSUME IInv, [Next]_vars PROVE Issued \subseteq Issued'
<1>1. /\ Typed /\ TokensChained
      /\ live \subseteq Issuers /\ received \subseteq Issuers
  BY DEF IInv, Typed
<1> USE <1>1, DeviceAuthAssumption DEF Issuers, redis, client, history
<1>2. CASE CreateDevice \/ Expire \/ Evict \/ UNCHANGED vars
  BY <1>2 DEF CreateDevice, Expire, Evict, vars, Issued
<1>3. ASSUME NEW a \in Issuers, IssueTokens(a) PROVE Issued \subseteq Issued'
  <2>1. /\ \A b \in Issuers : b # a => pc'[b] = pc[b]
        /\ pc[a] \in {"access", "refresh"}
        /\ live \subseteq live'
    BY <1>3, IssueTokensEffect DEF Others, Actors
  <2> QED
    BY <2>1 DEF TokensChained, Issued
<1>4. ASSUME NEW a \in Issuers, Answer(a) PROVE Issued \subseteq Issued'
  <2>1. /\ \A b \in Issuers : b # a => pc'[b] = pc[b]
        /\ pc[a] = "answer"
        /\ UNCHANGED live
    BY <1>4, AnswerEffect DEF Answer, Others, Actors
  <2> QED
    BY <2>1 DEF TokensChained, Issued
<1>5. ASSUME NEW p \in Polls, LoadState(p) PROVE Issued \subseteq Issued'
  <2>1. /\ \A b \in Issuers : b # p => pc'[b] = pc[b]
        /\ pc[p] = "idle"
        /\ UNCHANGED live
    BY <1>5, LoadStateEffect DEF LoadState, Others, Actors
  <2> QED
    BY <2>1 DEF TokensChained, Issued
<1>6. ASSUME NEW p \in Polls, DeleteDevice(p) PROVE Issued \subseteq Issued'
  <2>1. /\ \A b \in Issuers : b # p => pc'[b] = pc[b]
        /\ pc'[p] = "answer"
        /\ UNCHANGED live
    BY <1>6, DeleteEffect DEF DeleteDevice, Others, Actors
  <2> QED
    BY <2>1 DEF Issued
<1>7. ASSUME NEW q \in Refreshes, LoadToken(q) PROVE Issued \subseteq Issued'
  <2>1. /\ \A b \in Issuers : b # q => pc'[b] = pc[b]
        /\ pc[q] = "idle"
        /\ UNCHANGED live
    BY <1>7, LoadTokenEffect DEF LoadToken, Others, Actors
  <2> QED
    BY <2>1 DEF TokensChained, Issued
<1>8. ASSUME NEW q \in Refreshes, DeleteToken(q) PROVE Issued \subseteq Issued'
  <2>1. /\ \A b \in Issuers : b # q => pc'[b] = pc[b]
        /\ pc[q] = "delete" /\ pc'[q] = "answer"
        /\ live' \in {live, live \ {used[q]}}
    BY <1>8, DeleteEffect DEF DeleteToken, Others, Actors, At
  <2>2. pc[used[q]] = "answered"
    BY <2>1 DEF TokensChained, Took
  <2> QED
    BY <2>1, <2>2 DEF Issued
<1>9. ASSUME NEW g \in Pages, PageStep(g) PROVE Issued \subseteq Issued'
  <2>1. \A b \in Issuers : pc'[b] = pc[b]
    BY <1>9, PageEffect DEF Others, Actors
  <2>2. UNCHANGED live
    BY <1>9 DEF PageStep, FindDevice, ReadState, Approve, Deny, TurnAway, pageFrame
  <2> QED
    BY <2>1, <2>2 DEF Issued
<1>10. CASE Crash
  <2>1. /\ UNCHANGED live
        /\ \A a \in Issuers : pc[a] = "answered" => pc'[a] = "answered"
    BY <1>10, CrashEffect DEF Crash, Actors, Ended
  <2> QED
    BY <2>1 DEF TokensChained, Issued
<1> QED
  BY <1>2, <1>3, <1>4, <1>5, <1>6, <1>7, <1>8, <1>9, <1>10
     DEF Next, PollStep, RefreshStep, Quiescent

\* Only an exchange takes a confirmed state away, and it has its tokens.
LEMMA ApprovalNotLostStep == ASSUME IInv, [Next]_vars PROVE ApprovalNotLost'
<1>1. Typed /\ NotYetKnown /\ TokensChained /\ ApprovalNotLost
  BY DEF IInv
<1>2. Issued \cap Polls \subseteq Issued' \cap Polls
  BY IssuedStays
<1> USE <1>1, <1>2 DEF redis, client, history
<1>3. CASE CreateDevice
  BY <1>3 DEF CreateDevice, NotYetKnown, ApprovalNotLost
<1>4. ASSUME NEW p \in Polls, DeleteDevice(p) PROVE ApprovalNotLost'
  <2>1. p \in Issued'
    BY <1>4, DeleteEffect DEF DeleteDevice, Issued, Issuers
  <2> QED
    BY <2>1 DEF ApprovalNotLost
<1>5. ASSUME NEW g \in Pages, PageStep(g) PROVE ApprovalNotLost'
  <2>1. CASE Approve(g)
    <3>1. \/ device' = [approved |-> TRUE, denied |-> FALSE]
          \/ UNCHANGED <<device, expired, confirmed, refused>>
      BY <2>1 DEF Approve, StoreState, pageFrame
    <3> QED
      BY <3>1 DEF ApprovalNotLost
  <2>2. CASE Deny(g)
    BY <2>2 DEF Deny, ApprovalNotLost
  <2>3. CASE FindDevice(g) \/ ReadState(g) \/ TurnAway(g)
    BY <2>3 DEF FindDevice, ReadState, TurnAway, ApprovalNotLost
  <2> QED
    BY <1>5, <2>1, <2>2, <2>3 DEF PageStep
<1>6. CASE Expire \/ Evict
  BY <1>6 DEF Expire, Evict, ApprovalNotLost
<1>7. CASE UNCHANGED <<device, expired, confirmed, refused>>
  BY <1>7 DEF ApprovalNotLost
<1>8. ASSUME NEW a \in Issuers, IssueTokens(a) \/ Answer(a) PROVE ApprovalNotLost'
  BY <1>7, <1>8 DEF IssueTokens, Answer
<1>9. ASSUME NEW p \in Polls, LoadState(p) PROVE ApprovalNotLost'
  BY <1>7, <1>9 DEF LoadState
<1>10. ASSUME NEW q \in Refreshes, LoadToken(q) \/ DeleteToken(q) PROVE ApprovalNotLost'
  BY <1>7, <1>10 DEF LoadToken, DeleteToken
<1>11. CASE Crash \/ UNCHANGED vars
  BY <1>7, <1>11 DEF Crash, vars
<1> QED
  BY <1>3, <1>4, <1>5, <1>6, <1>8, <1>9, <1>10, <1>11
     DEF Next, PollStep, RefreshStep, Quiescent, Issuers

\* When no token is added or removed and none changes its session.
LEMMA SessionFrame ==
    ASSUME SessionKeepsToken, Issued' \subseteq Issued, live \subseteq live',
           \A a \in Issued \cup live : session'[a] = session[a]
    PROVE  SessionKeepsToken'
  BY DEF SessionKeepsToken

\* Every step leaves each session a token.
LEMMA SessionKeepsTokenStep == ASSUME IInv, [Next]_vars PROVE SessionKeepsToken'
<1>1. /\ Typed /\ TokensChained /\ SessionKeepsToken
      /\ live \subseteq Issuers /\ received \subseteq Issuers
  BY DEF IInv, Typed
<1> USE <1>1, DeviceAuthAssumption DEF Issuers, redis, client, history
<1>2. CASE CreateDevice \/ Expire \/ Evict \/ UNCHANGED vars
  BY <1>2 DEF CreateDevice, Expire, Evict, vars, Issued, SessionKeepsToken
<1>3. ASSUME NEW a \in Issuers, IssueTokens(a) PROVE SessionKeepsToken'
  <2>1. /\ \A b \in Issuers : b # a => pc'[b] = pc[b]
        /\ UNCHANGED session
        /\ \/ pc'[a] \in {"refresh", "error"} /\ UNCHANGED live
           \/ pc'[a] = "delete" /\ live' = live \cup {a}
    BY <1>3, IssueTokensEffect DEF IssueTokens, Others, Actors
  <2>2. live \subseteq live' /\ \A b \in Issued' : b \in Issued \/ b \in live'
    BY <2>1 DEF Issued
  <2>3. ASSUME NEW b \in Issued' PROVE \E t \in live' : session'[t] = session'[b]
    <3>1. CASE b \in Issued
      <4>1. PICK t \in live : session[t] = session[b]
        BY <3>1 DEF SessionKeepsToken
      <4> QED
        BY <2>1, <2>2, <4>1
    <3>2. CASE b \in live'
      BY <3>2
    <3> QED
      BY <2>2, <3>1, <3>2
  <2> QED
    BY <2>3 DEF SessionKeepsToken
<1>4. ASSUME NEW a \in Issuers, Answer(a) PROVE SessionKeepsToken'
  <2>1. /\ \A b \in Issuers : b # a => pc'[b] = pc[b]
        /\ pc[a] = "answer"
        /\ UNCHANGED <<live, session>>
    BY <1>4, AnswerEffect DEF Answer, Others, Actors
  <2>2. Issued' \subseteq Issued
    BY <2>1 DEF Issued
  <2> QED
    BY <2>1, <2>2, SessionFrame
<1>5. ASSUME NEW p \in Polls, LoadState(p) PROVE SessionKeepsToken'
  <2>1. /\ \A b \in Issuers : b # p => pc'[b] = pc[b] /\ session'[b] = session[b]
        /\ pc[p] = "idle" /\ pc'[p] \in {"access", "pending", "denied", "expired"}
        /\ UNCHANGED live
    BY <1>5, LoadStateEffect DEF LoadState, Others, Actors
  <2>2. p \notin Issued /\ p \notin live /\ Issued' \subseteq Issued
    BY <2>1 DEF Issued, TokensChained
  <2>3. \A a \in Issued \cup live : session'[a] = session[a]
    BY <2>1, <2>2 DEF Issued
  <2> QED
    BY <2>1, <2>2, <2>3, SessionFrame
<1>6. ASSUME NEW p \in Polls, DeleteDevice(p) PROVE SessionKeepsToken'
  <2>1. /\ \A b \in Issuers : b # p => pc'[b] = pc[b]
        /\ pc[p] = "delete"
        /\ UNCHANGED <<live, session>>
    BY <1>6, DeleteEffect DEF DeleteDevice, Others, Actors, At
  <2>2. Issued' \subseteq Issued
    BY <2>1 DEF Issued
  <2> QED
    BY <2>1, <2>2, SessionFrame
<1>7. ASSUME NEW q \in Refreshes, LoadToken(q) PROVE SessionKeepsToken'
  <2>1. /\ \A b \in Issuers : b # q => pc'[b] = pc[b] /\ session'[b] = session[b]
        /\ pc[q] = "idle" /\ pc'[q] \in {"access", "expired"}
        /\ UNCHANGED live
    BY <1>7, LoadTokenEffect DEF LoadToken, Others, Actors
  <2>2. q \notin Issued /\ q \notin live /\ Issued' \subseteq Issued
    BY <2>1 DEF Issued, TokensChained
  <2>3. \A a \in Issued \cup live : session'[a] = session[a]
    BY <2>1, <2>2 DEF Issued
  <2> QED
    BY <2>1, <2>2, <2>3, SessionFrame
<1>8. ASSUME NEW q \in Refreshes, DeleteToken(q) PROVE SessionKeepsToken'
  <2>1. /\ \A b \in Issuers : b # q => pc'[b] = pc[b]
        /\ UNCHANGED session
        /\ pc[q] = "delete" /\ pc'[q] = "answer"
        /\ live' \in {live, live \ {used[q]}}
    BY <1>8, DeleteEffect DEF DeleteToken, Others, Actors, At
  <2>2. Issued' \subseteq Issued
    BY <2>1 DEF Issued
  \* The new token takes over from the one that goes.
  <2>3. q \in live' /\ session[q] = session[used[q]]
    BY <2>1 DEF TokensChained, Took
  <2>4. ASSUME NEW a \in Issued' PROVE \E t \in live' : session'[t] = session'[a]
    <3>1. PICK t \in live : session[t] = session[a]
      BY <2>2 DEF SessionKeepsToken
    <3>2. CASE t \in live'
      BY <2>1, <3>1, <3>2
    <3>3. CASE t \notin live'
      BY <2>1, <2>3, <3>1, <3>3
    <3> QED
      BY <3>2, <3>3
  <2> QED
    BY <2>4 DEF SessionKeepsToken
<1>9. ASSUME NEW g \in Pages, PageStep(g) PROVE SessionKeepsToken'
  <2>1. \A b \in Issuers : pc'[b] = pc[b]
    BY <1>9, PageEffect DEF Others, Actors
  <2>2. UNCHANGED <<live, session>>
    BY <1>9 DEF PageStep, FindDevice, ReadState, Approve, Deny, TurnAway, pageFrame
  <2>3. Issued' \subseteq Issued
    BY <2>1, <2>2 DEF Issued
  <2> QED
    BY <2>2, <2>3, SessionFrame
<1>10. CASE Crash
  <2>1. /\ UNCHANGED <<live, session>>
        /\ \A a \in Issuers : pc'[a] = "lost" \/ pc'[a] = pc[a]
    BY <1>10, CrashEffect DEF Crash, Actors
  <2>2. Issued' \subseteq Issued
    BY <2>1 DEF Issued
  <2> QED
    BY <2>1, <2>2, SessionFrame
<1> QED
  BY <1>2, <1>3, <1>4, <1>5, <1>6, <1>7, <1>8, <1>9, <1>10
     DEF Next, PollStep, RefreshStep, Quiescent

-----------------------------------------------------------------------------
(* The theorems.                                                           *)

\* The inductive invariant, at any number of requests and faults.
THEOREM Inductive == Spec => []IInv
<1>1. IInv /\ [Next]_vars => IInv'
  <2>1. IInv /\ [Next]_vars => Typed'
    BY TypedStep DEF IInv
  <2> QED
    BY <2>1, NotYetKnownStep, TokensChainedStep, KeysUntilDeletedStep,
       RefusalStoredStep, ApprovalNotLostStep, SessionKeepsTokenStep DEF IInv
<1> QED
  BY <1>1, InitIInv, PTL DEF Spec

\* Every variable keeps its type, a stored token belongs to a session, and a
\* code's two keys come and go together until a page revives one of them.
THEOREM TypeCorrect == Spec => []TypeOK
<1>1. IInv => TypeOK
  BY DEF IInv, TypeOK, KeysUntilDeleted, TokensChained, Issued, Took
<1> QED
  BY <1>1, Inductive, PTL

\* The exchange of a device code: two polls get tokens for one code only if
\* both read it before either deleted it, or a page wrote it back.
THEOREM CodeExchangedOnce == Spec => []ExchangedOnceUnlessOverlapped
<1>1. IInv => ExchangedOnceUnlessOverlapped
  BY DEF IInv, KeysUntilDeleted, ExchangedOnceUnlessOverlapped, Issued, Took
<1> QED
  BY <1>1, Inductive, PTL

\* An authorization the user was told of survives every failure of the
\* exchange and every loss of the BFF, until it expires.
THEOREM ApprovalKept == Spec => []ApprovalNotLost
<1>1. IInv => ApprovalNotLost
  BY DEF IInv
<1> QED
  BY <1>1, Inductive, PTL

\* While no command fails, a poll after a refusal gets no tokens, whatever
\* pages overlap.
THEOREM RefusalKept == Spec => []RefusalHolds
<1>1. IInv => RefusalHolds
  BY DEF IInv, RefusalStored, RefusalHolds, Issued, Took
<1> QED
  BY <1>1, Inductive, PTL

\* Refreshes that overlap, repeat or stop half-way never leave a session
\* without a refresh token.
THEOREM SessionKept == Spec => []SessionKeepsToken
<1>1. IInv => SessionKeepsToken
  BY DEF IInv
<1> QED
  BY <1>1, Inductive, PTL

-----------------------------------------------------------------------------
(* 2. The first administrator.  OneFirstAdmin and CountersExpire are       *)
(* inductive once what the variables range over is known (TypeInv) and,    *)
(* for the first, that a session belongs to a request that is done, so     *)
(* that nothing changes the administrator it is for.                       *)

Stages == GuardStages \cup HandlerStages \cup {"new", "limited", "done"}

TypeInv ==
    /\ count \in [Keys -> Nat]
    /\ stage \in [Requests -> Stages]
    /\ fingerprint \in [Requests -> Devices]
    /\ key \in [Requests -> Keys]
    /\ who \in [Requests -> Requests]
    /\ setups \subseteq Requests
    /\ admins \subseteq Requests
    /\ sessions \subseteq Requests

\* At most one administrator; whoever is about to forget its setup is it;
\* sessions are open, or about to be, for it alone.
AdminInv ==
    /\ \A a, b \in admins : a = b
    /\ \A q \in Requests :
          /\ AtStage(q, "forget") => q \in admins
          /\ q \in sessions => AtStage(q, "done")
          /\ AtStage(q, "session") \/ q \in sessions => who[q] \in admins

AdminIInv == TypeInv /\ AdminInv /\ CountersExpire

-----------------------------------------------------------------------------
(* The steps of one request, seen from the others.                         *)

\* What a step of a request does to the variables that are indexed by
\* requests: it moves the request itself, and that one only.
Moves(q) ==
    /\ \E s \in Stages : stage' = [stage EXCEPT ![q] = s]
    /\ \A p \in Requests \ {q} : key'[p] = key[p] /\ who'[p] = who[p]

\* riskGuard: the steps behind the guard are typed, and move their request.
LEMMA GuardTyped ==
    ASSUME TypeInv, NEW q \in Requests, Guarded(q)
    PROVE  TypeInv' /\ Moves(q)
<1> USE DEF TypeInv
<1>1. UNCHANGED <<setups, admins, sessions, who>>
  BY DEF Guarded, adminVars
<1>2. key[q] \in Keys /\ fingerprint[q] \in Keys
  BY DEF Keys
<1>3. count' \in [Keys -> Nat]
  <2>1. CASE Count(q)
    BY <2>1, <1>2 DEF Count
  <2>2. CASE CommandFails(q)
    BY <2>2, <1>2 DEF CommandFails
  <2>3. CASE UNCHANGED count
    BY <2>3
  <2> QED
    BY <2>1, <2>2, <2>3 DEF Guarded, EnterGuard, GuardStep, CheckBlock, SetExpiry, Block
<1>4. \E s \in Stages : stage' = [stage EXCEPT ![q] = s]
  <2>1. CASE EnterGuard(q)
    BY <2>1 DEF EnterGuard, ToStage, Stages, GuardStages
  <2>2. CASE CheckBlock(q)
    BY <2>2 DEF CheckBlock, ToStage, Stages, GuardStages
  <2>3. CASE Count(q)
    BY <2>3 DEF Count, PassKey, ToStage, Stages, GuardStages, HandlerStages
  <2>4. CASE SetExpiry(q)
    BY <2>4 DEF SetExpiry, PassKey, ToStage, Stages, GuardStages, HandlerStages
  <2>5. CASE Block(q)
    BY <2>5 DEF Block, ToStage, Stages
  <2>6. CASE CommandFails(q)
    BY <2>6 DEF CommandFails, ToStage, Stages, HandlerStages
  <2> QED
    BY <2>1, <2>2, <2>3, <2>4, <2>5, <2>6 DEF Guarded, GuardStep
<1>5. \/ UNCHANGED key
      \/ key' = [key EXCEPT ![q] = fingerprint[q]]
  BY DEF Guarded, GuardStep, EnterGuard, CheckBlock, Count, SetExpiry, Block,
         CommandFails, PassKey
<1>6. UNCHANGED fingerprint
  BY DEF Guarded, GuardStep, EnterGuard, CheckBlock, Count, SetExpiry, Block,
         CommandFails
<1>7. key' \in [Requests -> Keys] /\ \A p \in Requests \ {q} : key'[p] = key[p]
  BY <1>2, <1>5
<1>8. stage' \in [Requests -> Stages]
  BY <1>4
<1>9. TypeInv'
  BY <1>1, <1>3, <1>6, <1>7, <1>8
<1>10. Moves(q)
  BY <1>1, <1>4, <1>7 DEF Moves
<1> QED
  BY <1>9, <1>10

\* handleAdminBootstrapStart, handleAdminBootstrapComplete, handleAdminLogin,
\* handleAdminLogout: likewise.
LEMMA HandlerTyped ==
    ASSUME TypeInv, NEW q \in Requests,
           Handler(q) \/ StartSetup(q) \/ BeginComplete(q) \/ Abandon(q)
    PROVE  TypeInv' /\ Moves(q)
<1> USE DEF TypeInv
<1>1. UNCHANGED <<count, fingerprint, key>>
  BY DEF Handler, StoreSetup, ReadSetup, CreateFirstAdmin, ForgetSetup, Login,
         OpenSession, StartSetup, BeginComplete, Abandon, guardData
<1>2. \E s \in Stages : stage' = [stage EXCEPT ![q] = s]
  BY DEF Handler, StoreSetup, ReadSetup, CreateFirstAdmin, ForgetSetup, Login,
         OpenSession, StartSetup, BeginComplete, Abandon, Finish, ToStage,
         Stages, HandlerStages
<1>3. UNCHANGED who \/ \E r \in Requests : who' = [who EXCEPT ![q] = r]
  BY DEF Handler, StoreSetup, ReadSetup, CreateFirstAdmin, ForgetSetup, Login,
         OpenSession, StartSetup, BeginComplete, Abandon, adminVars
<1>4. setups' \subseteq Requests /\ admins' \subseteq Requests /\ sessions' \subseteq Requests
  BY DEF Handler, StoreSetup, ReadSetup, CreateFirstAdmin, ForgetSetup, Login,
         OpenSession, StartSetup, BeginComplete, Abandon, adminVars
<1>5. stage' \in [Requests -> Stages]
  BY <1>2
<1>6. who' \in [Requests -> Requests] /\ \A p \in Requests \ {q} : who'[p] = who[p]
  BY <1>3
<1>7. TypeInv'
  BY <1>1, <1>4, <1>5, <1>6
<1>8. Moves(q)
  BY <1>1, <1>2, <1>6 DEF Moves
<1> QED
  BY <1>7, <1>8

\* What the expiry of keys and setups, and a logout, leave alone.
LEMMA EnvironmentTyped ==
    ASSUME TypeInv,
           \/ Timers /\ UNCHANGED adminVars
           \/ \E s \in setups : SetupExpires(s)
           \/ \E x \in Requests : Logout(x)
    PROVE  TypeInv' /\ UNCHANGED <<stage, key, who, admins>>
<1> USE DEF TypeInv
<1>1. CASE Timers /\ UNCHANGED adminVars
  <2>1. PICK k \in Keys : CounterExpires(k) \/ BlockExpires(k)
    BY <1>1 DEF Timers
  <2>2. count' \in [Keys -> Nat]
    BY <2>1 DEF CounterExpires, BlockExpires
  <2> QED
    BY <1>1, <2>1, <2>2 DEF CounterExpires, BlockExpires, adminVars
<1>2. CASE \E s \in setups : SetupExpires(s)
  BY <1>2 DEF SetupExpires, guardVars
<1>3. CASE \E x \in Requests : Logout(x)
  BY <1>3 DEF Logout, guardVars
<1> QED
  BY <1>1, <1>2, <1>3

-----------------------------------------------------------------------------
(* CountersExpire.                                                         *)

\* Whoever else is about to set an expiry still is.
LEMMA OthersStillExpire ==
    ASSUME TypeInv, NEW q \in Requests, Moves(q), NEW k \in Keys,
           NEW p \in Requests \ {q}, AtStage(p, "expire"), key[p] = k
    PROVE  AtStage(p, "expire")' /\ key'[p] = k
BY DEF TypeInv, Moves, AtStage

\* A step that leaves the counters and their expiries alone, of a request that
\* is not about to set one.
LEMMA QuietKeepsExpiry ==
    ASSUME TypeInv, CountersExpire, NEW q \in Requests, Moves(q),
           ~AtStage(q, "expire"), UNCHANGED <<count, expiring, lost>>
    PROVE  CountersExpire'
<1> SUFFICES ASSUME NEW k \in Keys, count'[k] > 0
             PROVE  \/ k \in expiring' \cup lost'
                    \/ \E p \in Requests : AtStage(p, "expire")' /\ key'[p] = k
  BY DEF CountersExpire
<1>1. CASE k \in expiring \cup lost
  BY <1>1
<1>2. CASE k \notin expiring \cup lost
  <2>1. PICK p \in Requests : AtStage(p, "expire") /\ key[p] = k
    BY <1>2 DEF CountersExpire
  <2> QED
    BY <2>1, OthersStillExpire
<1> QED
  BY <1>1, <1>2

\* consumeRiskQuota: the increment that makes a counter positive is followed by
\* the command that sets its expiry.
LEMMA CountKeepsExpiry ==
    ASSUME TypeInv, CountersExpire, NEW q \in Requests, Moves(q), Count(q)
    PROVE  CountersExpire'
<1> SUFFICES ASSUME NEW k \in Keys, count'[k] > 0
             PROVE  \/ k \in expiring' \cup lost'
                    \/ \E p \in Requests : AtStage(p, "expire")' /\ key'[p] = k
  BY DEF CountersExpire
<1>1. /\ UNCHANGED <<expiring, lost>> /\ stage[q] = "count"
      /\ count' = [count EXCEPT ![key[q]] = count[key[q]] + 1]
  BY DEF Count, AtStage
<1>2. count \in [Keys -> Nat] /\ stage \in [Requests -> Stages] /\ key[q] \in Keys
  BY DEF TypeInv
<1>3. CASE count[k] > 0
  <2>1. CASE k \in expiring \cup lost
    BY <1>1, <2>1
  <2>2. CASE k \notin expiring \cup lost
    <3>1. PICK p \in Requests : AtStage(p, "expire") /\ key[p] = k
      BY <1>3, <2>2 DEF CountersExpire
    <3>2. p # q
      BY <1>1, <3>1 DEF AtStage
    <3> QED
      BY <3>1, <3>2, OthersStillExpire
  <2> QED
    BY <2>1, <2>2
<1>4. CASE ~(count[k] > 0)
  <2>1. k = key[q] /\ count[k] = 0
    BY <1>1, <1>2, <1>4
  <2>2. NeedsExpiry(count[key[q]] + 1)
    BY <2>1 DEF NeedsExpiry
  <2>3. ToStage(q, "expire") /\ UNCHANGED key
    BY <2>2 DEF Count
  <2>4. AtStage(q, "expire")' /\ key'[q] = k
    BY <1>2, <2>1, <2>3 DEF ToStage, AtStage
  <2> QED
    BY <2>4
<1> QED
  BY <1>3, <1>4

\* ExpireNX: the counter it is for has an expiry from then on.
LEMMA SetExpiryKeepsExpiry ==
    ASSUME TypeInv, CountersExpire, NEW q \in Requests, Moves(q), SetExpiry(q)
    PROVE  CountersExpire'
<1> SUFFICES ASSUME NEW k \in Keys, count'[k] > 0
             PROVE  \/ k \in expiring' \cup lost'
                    \/ \E p \in Requests : AtStage(p, "expire")' /\ key'[p] = k
  BY DEF CountersExpire
<1>1. UNCHANGED <<count, lost>> /\ expiring' = expiring \cup {key[q]}
  BY DEF SetExpiry
<1>2. CASE k \in expiring \cup lost \cup {key[q]}
  BY <1>1, <1>2
<1>3. CASE k \notin expiring \cup lost \cup {key[q]}
  <2>1. PICK p \in Requests : AtStage(p, "expire") /\ key[p] = k
    BY <1>1, <1>3 DEF CountersExpire
  <2>2. p # q
    BY <1>3, <2>1
  <2> QED
    BY <2>1, <2>2, OthersStillExpire
<1> QED
  BY <1>2, <1>3

\* A command that fails and would have set the expiry, or would have led to it,
\* leaves the counter among the lost.
LEMMA FailureKeepsExpiry ==
    ASSUME TypeInv, CountersExpire, NEW q \in Requests, Moves(q), CommandFails(q)
    PROVE  CountersExpire'
<1> SUFFICES ASSUME NEW k \in Keys, count'[k] > 0
             PROVE  \/ k \in expiring' \cup lost'
                    \/ \E p \in Requests : AtStage(p, "expire")' /\ key'[p] = k
  BY DEF CountersExpire
<1>1. count \in [Keys -> Nat] /\ key[q] \in Keys
  BY DEF TypeInv
<1>2. expiring \subseteq expiring' /\ lost \subseteq lost'
  BY DEF CommandFails
<1>3. AtStage(q, "expire") => key[q] \in expiring' \cup lost'
  BY DEF CommandFails, AtStage
<1>4. CASE count[k] > 0
  <2>1. CASE k \in expiring \cup lost
    BY <1>2, <2>1
  <2>2. CASE k \notin expiring \cup lost
    <3>1. PICK p \in Requests : AtStage(p, "expire") /\ key[p] = k
      BY <1>4, <2>2 DEF CountersExpire
    <3>2. CASE p = q
      BY <1>3, <3>1, <3>2
    <3>3. CASE p # q
      BY <3>1, <3>3, OthersStillExpire
    <3> QED
      BY <3>2, <3>3
  <2> QED
    BY <2>1, <2>2
<1>5. CASE ~(count[k] > 0)
  <2>1. count[k] = 0 /\ count' # count
    BY <1>1, <1>5
  <2>2. /\ count' = [count EXCEPT ![key[q]] = count[key[q]] + 1]
        /\ lost' = IF NeedsExpiry(count[key[q]] + 1) THEN lost \cup {key[q]} ELSE lost
    BY <2>1 DEF CommandFails
  <2>3. k = key[q]
    BY <1>1, <2>1, <2>2
  <2> QED
    BY <2>1, <2>2, <2>3 DEF NeedsExpiry
<1> QED
  BY <1>4, <1>5

\* The end of a counter takes its value along with its expiry.
LEMMA EnvironmentKeepsExpiry ==
    ASSUME TypeInv, CountersExpire, UNCHANGED <<stage, key>>,
           \/ UNCHANGED <<count, expiring, lost>>
           \/ \E k \in Keys : CounterExpires(k)
    PROVE  CountersExpire'
<1> SUFFICES ASSUME NEW k \in Keys, count'[k] > 0
             PROVE  \/ k \in expiring' \cup lost'
                    \/ \E p \in Requests : AtStage(p, "expire")' /\ key'[p] = k
  BY DEF CountersExpire
<1>1. count \in [Keys -> Nat]
  BY DEF TypeInv
<1>2. CASE UNCHANGED <<count, expiring, lost>>
  BY <1>2 DEF CountersExpire, AtStage
<1>3. CASE \E x \in Keys : CounterExpires(x)
  <2>1. PICK x \in Keys : CounterExpires(x)
    BY <1>3
  <2>2. x # k /\ count[k] > 0
    BY <1>1, <2>1 DEF CounterExpires
  <2> QED
    BY <2>1, <2>2 DEF CounterExpires, CountersExpire, AtStage
<1> QED
  BY <1>2, <1>3

\* Every step keeps CountersExpire.
LEMMA StepKeepsExpiry ==
    ASSUME TypeInv, CountersExpire, [AdminNext]_accessVars
    PROVE  CountersExpire'
<1>1. ASSUME NEW q \in Requests, Guarded(q)
      PROVE  CountersExpire'
  <2>1. Moves(q)
    BY <1>1, GuardTyped
  <2>2. CASE EnterGuard(q) \/ CheckBlock(q) \/ Block(q)
    <3>1. ~AtStage(q, "expire") /\ UNCHANGED <<count, expiring, lost>>
      BY <2>2 DEF EnterGuard, CheckBlock, Block, AtStage
    <3> QED
      BY <2>1, <3>1, <1>1, QuietKeepsExpiry
  <2>3. CASE Count(q)
    BY <1>1, <2>1, <2>3, CountKeepsExpiry
  <2>4. CASE SetExpiry(q)
    BY <1>1, <2>1, <2>4, SetExpiryKeepsExpiry
  <2>5. CASE CommandFails(q)
    BY <1>1, <2>1, <2>5, FailureKeepsExpiry
  <2> QED
    BY <1>1, <2>2, <2>3, <2>4, <2>5 DEF Guarded, GuardStep
<1>2. ASSUME NEW q \in Requests,
             Handler(q) \/ StartSetup(q) \/ BeginComplete(q) \/ Abandon(q)
      PROVE  CountersExpire'
  <2>1. Moves(q)
    BY <1>2, HandlerTyped
  <2>2. ~AtStage(q, "expire")
    BY <1>2 DEF Handler, StoreSetup, ReadSetup, CreateFirstAdmin, ForgetSetup,
                Login, OpenSession, StartSetup, BeginComplete, Abandon,
                HandlerStages, AtStage
  <2>3. UNCHANGED <<count, expiring, lost>>
    BY <1>2 DEF Handler, StoreSetup, ReadSetup, CreateFirstAdmin, ForgetSetup,
                Login, OpenSession, StartSetup, BeginComplete, Abandon, guardData
  <2> QED
    BY <1>2, <2>1, <2>2, <2>3, QuietKeepsExpiry
<1>3. ASSUME NEW q \in Requests, Logout(q)
      PROVE  CountersExpire'
  <2>1. UNCHANGED <<stage, key, count, expiring, lost>>
    BY <1>3 DEF Logout, guardVars
  <2> QED
    BY <2>1, EnvironmentKeepsExpiry
<1>4. ASSUME NEW s \in setups, SetupExpires(s)
      PROVE  CountersExpire'
  <2>1. UNCHANGED <<stage, key, count, expiring, lost>>
    BY <1>4 DEF SetupExpires, guardVars
  <2> QED
    BY <2>1, EnvironmentKeepsExpiry
<1>5. CASE Timers
  <2>1. UNCHANGED <<stage, key>>
    BY <1>5 DEF Timers, CounterExpires, BlockExpires
  <2>2. UNCHANGED <<count, expiring, lost>> \/ \E k \in Keys : CounterExpires(k)
    BY <1>5 DEF Timers, BlockExpires
  <2> QED
    BY <2>1, <2>2, EnvironmentKeepsExpiry
<1>6. CASE UNCHANGED accessVars
  <2>1. UNCHANGED <<stage, key, count, expiring, lost>>
    BY <1>6 DEF accessVars, guardVars
  <2> QED
    BY <2>1, EnvironmentKeepsExpiry
<1> QED
  BY <1>1, <1>2, <1>3, <1>4, <1>5, <1>6 DEF AdminNext, Step

-----------------------------------------------------------------------------
(* OneFirstAdmin.                                                          *)

\* What AdminInv says of one request.
Rightful(q) ==
    /\ AtStage(q, "forget") => q \in admins
    /\ q \in sessions => AtStage(q, "done")
    /\ AtStage(q, "session") \/ q \in sessions => who[q] \in admins

\* A request that does not move stays rightful while no administrator is
\* removed and no session opened for it.
LEMMA OthersStayRightful ==
    ASSUME TypeInv, NEW q \in Requests, Moves(q),
           NEW p \in Requests \ {q}, Rightful(p),
           admins \subseteq admins', p \in sessions' => p \in sessions
    PROVE  Rightful(p)'
BY DEF TypeInv, Moves, Rightful, AtStage

\* CreateFirstAdmin: the table was empty, so whoever holds a session, or is
\* about to get one, would have contradicted AdminInv.
LEMMA HandlerKeepsAdmin ==
    ASSUME TypeInv, AdminInv, NEW q \in Requests,
           Handler(q) \/ StartSetup(q) \/ BeginComplete(q) \/ Abandon(q)
    PROVE  AdminInv'
<1>1. Moves(q) /\ TypeInv'
  BY HandlerTyped
<1>2. \A p \in Requests : Rightful(p)
  BY DEF AdminInv, Rightful
<1>3. stage \in [Requests -> Stages] /\ who \in [Requests -> Requests]
  BY DEF TypeInv
<1>4. \A a, b \in admins : a = b
  BY DEF AdminInv
<1>5. q \notin sessions
  BY <1>2 DEF Rightful, Handler, StoreSetup, ReadSetup, CreateFirstAdmin,
              ForgetSetup, Login, OpenSession, StartSetup, BeginComplete,
              Abandon, HandlerStages, AtStage
<1>6. \A a, b \in admins' : a = b
  BY <1>4 DEF Handler, StoreSetup, ReadSetup, CreateFirstAdmin, ForgetSetup,
              Login, OpenSession, StartSetup, BeginComplete, Abandon, adminVars
<1>7. admins \subseteq admins'
  BY DEF Handler, StoreSetup, ReadSetup, CreateFirstAdmin, SetupRequired,
         ForgetSetup, Login, OpenSession, StartSetup, BeginComplete, Abandon,
         adminVars
<1>8. \A p \in Requests \ {q} : p \in sessions' => p \in sessions
  BY DEF Handler, StoreSetup, ReadSetup, CreateFirstAdmin, ForgetSetup, Login,
         OpenSession, StartSetup, BeginComplete, Abandon, adminVars
<1>9. \A p \in Requests \ {q} : Rightful(p)'
  BY <1>1, <1>2, <1>7, <1>8, OthersStayRightful
<1>10. Rightful(q)'
  <2>1. CASE CreateFirstAdmin(q)
    BY <2>1, <1>3, <1>5 DEF CreateFirstAdmin, Finish, ToStage, AtStage, Rightful
  <2>2. CASE ForgetSetup(q)
    <3>1. q \in admins /\ UNCHANGED <<admins, sessions>>
      BY <2>2, <1>2 DEF ForgetSetup, Rightful
    <3>2. who'[q] = q /\ stage'[q] = "session"
      BY <2>2, <1>3 DEF ForgetSetup, ToStage
    <3> QED
      BY <3>1, <3>2, <1>5 DEF Rightful, AtStage
  <2>3. CASE Login(q)
    BY <2>3, <1>3, <1>5 DEF Login, Finish, ToStage, AtStage, Rightful
  <2>4. CASE OpenSession(q)
    <3>1. who[q] \in admins /\ UNCHANGED <<admins, who>>
      BY <2>4, <1>2 DEF OpenSession, Rightful
    <3>2. stage'[q] = "done"
      BY <2>4, <1>3 DEF OpenSession, Finish, ToStage
    <3> QED
      BY <3>1, <3>2 DEF Rightful, AtStage
  <2>5. CASE StoreSetup(q) \/ ReadSetup(q) \/ StartSetup(q) \/ BeginComplete(q) \/ Abandon(q)
    <3>1. stage'[q] \in {"done", "create", "store", "read"}
      BY <2>5, <1>3 DEF StoreSetup, ReadSetup, StartSetup, BeginComplete,
                        Abandon, Finish, ToStage
    <3>2. q \notin sessions'
      BY <2>5, <1>5 DEF StoreSetup, ReadSetup, StartSetup, BeginComplete,
                        Abandon, adminVars
    <3> QED
      BY <3>1, <3>2 DEF Rightful, AtStage
  <2> QED
    BY <2>1, <2>2, <2>3, <2>4, <2>5 DEF Handler
<1>11. \A p \in Requests : Rightful(p)'
  BY <1>9, <1>10
<1> QED
  BY <1>6, <1>11 DEF AdminInv, Rightful

\* The guard moves a request to a stage that AdminInv says nothing of.
LEMMA GuardKeepsAdmin ==
    ASSUME TypeInv, AdminInv, NEW q \in Requests, Guarded(q)
    PROVE  AdminInv'
<1>1. Moves(q)
  BY GuardTyped
<1>2. \A p \in Requests : Rightful(p)
  BY DEF AdminInv, Rightful
<1>3. UNCHANGED <<admins, sessions>>
  BY DEF Guarded, adminVars
<1>4. stage \in [Requests -> Stages]
  BY DEF TypeInv
<1>5. stage[q] \in GuardStages \cup {"new"}
  BY DEF Guarded, GuardStep, EnterGuard, CheckBlock, Count, SetExpiry, Block,
         CommandFails, GuardStages, AtStage
<1>6. q \notin sessions
  BY <1>2, <1>5 DEF Rightful, GuardStages, AtStage
<1>7. stage'[q] \in GuardStages \cup {"handler", "limited", "done"}
  <2>1. CASE EnterGuard(q) \/ CheckBlock(q) \/ Block(q)
    BY <2>1, <1>4 DEF EnterGuard, CheckBlock, Block, ToStage, GuardStages
  <2>2. CASE Count(q) \/ SetExpiry(q)
    BY <2>2, <1>4 DEF Count, SetExpiry, PassKey, ToStage, GuardStages
  <2>3. CASE CommandFails(q)
    BY <2>3, <1>4 DEF CommandFails, ToStage
  <2> QED
    BY <2>1, <2>2, <2>3 DEF Guarded, GuardStep
<1>8. Rightful(q)'
  BY <1>3, <1>6, <1>7 DEF Rightful, AtStage, GuardStages
<1>9. \A p \in Requests : Rightful(p)'
  BY <1>1, <1>2, <1>3, <1>8, OthersStayRightful
<1> QED
  BY <1>3, <1>9 DEF AdminInv, Rightful

\* Every step keeps AdminInv.
LEMMA StepKeepsAdmin ==
    ASSUME TypeInv, AdminInv, [AdminNext]_accessVars
    PROVE  AdminInv'
<1>1. ASSUME UNCHANGED <<stage, who, admins>>, sessions' \subseteq sessions
      PROVE  AdminInv'
  BY <1>1 DEF AdminInv, AtStage
<1>2. CASE Timers /\ UNCHANGED adminVars
  BY <1>1, <1>2 DEF Timers, CounterExpires, BlockExpires, adminVars
<1>3. CASE \E s \in setups : SetupExpires(s)
  BY <1>1, <1>3 DEF SetupExpires, guardVars
<1>4. CASE \E q \in Requests : Logout(q)
  BY <1>1, <1>4 DEF Logout, guardVars
<1>5. CASE UNCHANGED accessVars
  BY <1>1, <1>5 DEF accessVars, guardVars, adminVars
<1> QED
  BY <1>2, <1>3, <1>4, <1>5, GuardKeepsAdmin, HandlerKeepsAdmin DEF AdminNext, Step

-----------------------------------------------------------------------------
(* The theorems.                                                           *)

\* Every step keeps TypeInv.
LEMMA StepKeepsTypes ==
    ASSUME TypeInv, [AdminNext]_accessVars
    PROVE  TypeInv'
<1>1. CASE UNCHANGED accessVars
  BY <1>1 DEF accessVars, guardVars, adminVars, TypeInv
<1>2. CASE AdminNext
  BY <1>2, GuardTyped, HandlerTyped, EnvironmentTyped DEF AdminNext, Step
<1> QED
  BY <1>1, <1>2

\* IInv is inductive: it holds in every state of every behaviour.
THEOREM AdminInductive == AdminSpec => []AdminIInv
<1>1. AdminInit => AdminIInv
  <2> SUFFICES ASSUME AdminInit PROVE AdminIInv
    OBVIOUS
  <2>1. TypeInv
    BY DEF AdminInit, GuardInit, TypeInv, Keys, Stages
  <2>2. AdminInv
    BY DEF AdminInit, GuardInit, AdminInv, AtStage
  <2>3. CountersExpire
    BY DEF AdminInit, GuardInit, CountersExpire
  <2> QED
    BY <2>1, <2>2, <2>3 DEF AdminIInv
<1>2. AdminIInv /\ [AdminNext]_accessVars => AdminIInv'
  BY StepKeepsTypes, StepKeepsAdmin, StepKeepsExpiry DEF AdminIInv
<1> QED
  BY <1>1, <1>2, PTL DEF AdminSpec

\* CreateFirstAdmin: at most one administrator comes of any number of setups
\* completed side by side, and every session is for that administrator.
THEOREM FirstAdminIsAlone == AdminSpec => []OneFirstAdmin
<1>1. AdminIInv => OneFirstAdmin
  <2> SUFFICES ASSUME AdminIInv PROVE OneFirstAdmin
    OBVIOUS
  <2>1. AdminInv
    BY DEF AdminIInv
  <2>2. Cardinality(admins) <= 1
    <3>1. CASE admins = {}
      BY <3>1, FS_EmptySet
    <3>2. CASE admins # {}
      <4>1. PICK a \in admins : TRUE
        BY <3>2
      <4>2. admins = {a}
        BY <2>1, <4>1 DEF AdminInv
      <4>3. Cardinality({a}) = 1
        BY FS_Singleton
      <4> QED
        BY <4>2, <4>3
    <3> QED
      BY <3>1, <3>2
  <2> QED
    BY <2>1, <2>2 DEF AdminInv, OneFirstAdmin
<1> QED
  BY <1>1, AdminInductive, PTL

\* consumeRiskQuota: a positive counter has its expiry, or is about to get it
\* from the request that made it positive, or a command failed.
THEOREM CounterExpiryKept == AdminSpec => []CountersExpire
<1>1. AdminIInv => CountersExpire
  BY DEF AdminIInv
<1> QED
  BY <1>1, AdminInductive, PTL

==============================================================================
