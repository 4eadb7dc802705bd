------------------------ MODULE SharedConversations ------------------------
(***************************************************************************)
(* The share of a conversation and the users who collaborate on it.  The   *)
(* owner saves the settings as a whole: a save that gives no code reads    *)
(* the code there is and writes it back.  A user joins, or posts, with the *)
(* code, and takes a place if the plan of the owner has one left: counted  *)
(* and inserted in one transaction that locks nothing.  The title, the     *)
(* page of messages and the model limit of the owner are left out.         *)
(***************************************************************************)
EXTENDS ContentRequests

CONSTANTS
    Owner, Users,  \* the owner of the conversation and the others
    Codes,         \* collaboration codes
    MaxLimit       \* bound: the largest number of collaborators in a plan

ASSUME SharingAssumption ==
    Owner \notin Users /\ None \notin Codes /\ MaxLimit \in Nat

VARIABLES
    share,          \* conversation_shares, one row for a conversation
    collaborators,  \* conversation_share_collaborators
    limit,          \* collaborators in the plan the owner has now
    authors,        \* who posted into the conversation through the share
    meant,          \* history: the code the owner has set last
    savesCrossed    \* history: a save was written between two steps of another

sharingVars ==
    <<share, collaborators, limit, authors, meant, savesCrossed>>
members == <<collaborators, authors>>

NoShare == [active |-> FALSE, collab |-> FALSE, code |-> None]

SharingInit ==
    /\ share = NoShare
    /\ collaborators = {} /\ authors = {}
    /\ limit \in 0..MaxLimit
    /\ meant = None /\ savesCrossed = FALSE

-----------------------------------------------------------------------------
(* handleUpsertConversationShare.                                          *)

SaveRequest == [op: {"save"}, at: {"read"}, enabled: BOOLEAN,
                collab: BOOLEAN, code: Codes \cup {None}]

\* Collaboration needs a plan that has it, and a code, given or stored.
BeginSave(q) ==
    /\ \E r \in SaveRequest :
          /\ r.collab => limit > 0
          /\ r.collab => None # IF r.code = None THEN share.code ELSE r.code
          /\ Begin(q, r)
    /\ UNCHANGED <<conv, faults, sharingVars>>

\* Mutant of StoredCode: the code there is wins over the one that is given.
OldCodeFirst(r) ==
    CASE ~r.collab -> None
      [] r.collab /\ share.code # None -> share.code
      [] OTHER -> r.code

\* The code that is written: the one given, or else the one read here.
StoredCode(r) ==
    CASE ~r.collab -> None
      [] r.collab /\ r.code # None -> r.code
      [] OTHER -> share.code

ReadShare(q) ==
    /\ At(q, "save", "read")
    /\ LET r == req[q] IN
       Advance(q, [op |-> "save", at |-> "write", enabled |-> r.enabled,
                   collab |-> r.collab, code |-> r.code,
                   stored |-> StoredCode(r)])
    /\ UNCHANGED <<conv, faults, sharingVars>>

\* What the owner wants the code to be once this save is written.
Meant(r) ==
    CASE ~r.collab -> None
      [] r.collab /\ r.code # None -> r.code
      [] OTHER -> meant

\* The upsert; the row cannot be written without its conversation.
WriteShare(q) ==
    /\ At(q, "save", "write")
    /\ Finish(q)
    /\ LET r == req[q] IN
       IF conv
       THEN /\ share' = [active |-> r.enabled, collab |-> r.collab,
                         code |-> r.stored]
            /\ meant' = Meant(r)
            /\ savesCrossed' = (savesCrossed \/
                  \E p \in Requests \ {q} : At(p, "save", "write"))
       ELSE UNCHANGED <<share, meant, savesCrossed>>
    /\ UNCHANGED <<conv, faults, members, limit>>

-----------------------------------------------------------------------------
(* handleJoinSharedConversationCollaboration, and                          *)
(* handleCreateSharedConversationMessage, which joins on the way.          *)

JoinRequest == [op: {"join", "post"}, at: {"code"}, user: Users, code: Codes,
                limit: 1..MaxLimit]

\* The share is loaded and the plan of its owner looked up.
BeginJoin(q) ==
    /\ share.active /\ share.collab /\ limit > 0
    /\ \E r \in JoinRequest : r.limit = limit /\ Begin(q, r)
    /\ UNCHANGED <<conv, faults, sharingVars>>

OwnerPost == [op |-> "post", at |-> "message", user |-> Owner]

\* The owner needs no code and takes no place.
BeginOwnerPost(q) ==
    /\ share.active /\ share.collab /\ limit > 0
    /\ Begin(q, OwnerPost)
    /\ UNCHANGED <<conv, faults, sharingVars>>

\* ConversationShareAccessAllowed.
AccessAllowed(code) == share.active /\ share.code = code

CheckCode(q) ==
    /\ \E op \in {"join", "post"} : At(q, op, "code")
    /\ IF AccessAllowed(req[q].code) THEN Goto(q, "count") ELSE Finish(q)
    /\ UNCHANGED <<conv, faults, sharingVars>>

\* Joined: the request to join is answered, a message is posted.
Admitted(q) ==
    IF req[q].op = "join" THEN Finish(q) ELSE Goto(q, "message")

\* Mutant of PlaceLeft: one place too many.
OneMore(r) == Cardinality(collaborators) <= r.limit

PlaceLeft(r) == Cardinality(collaborators) < r.limit

\* EnsureConversationShareCollaborator: who is in, and how many are.
CountCollaborators(q) ==
    /\ \E op \in {"join", "post"} : At(q, op, "count")
    /\ LET r == req[q] IN
       CASE r.user \in collaborators -> Admitted(q)
         [] r.user \notin collaborators /\ PlaceLeft(r) ->
              Advance(q, [op |-> r.op, at |-> "insert", user |-> r.user,
                          limit |-> r.limit, seen |-> collaborators])
         [] OTHER -> Finish(q)
    /\ UNCHANGED <<conv, faults, sharingVars>>

\* The insert fails when the conversation, and the share with it, is gone.
InsertCollaborator(q) ==
    /\ \E op \in {"join", "post"} : At(q, op, "insert")
    /\ IF conv
       THEN /\ collaborators' = collaborators \cup {req[q].user}
            /\ Admitted(q)
       ELSE Finish(q) /\ UNCHANGED collaborators
    /\ UNCHANGED <<conv, faults, share, limit, authors, meant, savesCrossed>>

\* CreateMessage, and the answer under the account of the owner.
PostMessage(q) ==
    /\ At(q, "post", "message")
    /\ authors' = IF conv THEN authors \cup {req[q].user} ELSE authors
    /\ Finish(q)
    /\ UNCHANGED <<conv, faults, share, collaborators, limit, meant, savesCrossed>>

\* Another plan, or an administrator who changes what the plans have.
ChangeLimit ==
    /\ limit' \in 0..MaxLimit \ {limit}
    /\ UNCHANGED <<requestVars, share, members, meant, savesCrossed>>

\* ON DELETE CASCADE.
DropShare ==
    /\ share' = NoShare /\ meant' = None
    /\ collaborators' = {} /\ authors' = {}
    /\ UNCHANGED <<limit, savesCrossed>>

SharingStep(q) ==
    \/ BeginSave(q) \/ ReadShare(q) \/ WriteShare(q)
    \/ BeginJoin(q) \/ BeginOwnerPost(q) \/ CheckCode(q)
    \/ CountCollaborators(q) \/ InsertCollaborator(q) \/ PostMessage(q)
=============================================================================
