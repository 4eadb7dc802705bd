------------------------ MODULE ConversationContent ------------------------
(***************************************************************************)
(* The share of one conversation, an artifact made in it and an attachment *)
(* of it, worked on by the same requests, while the owner may delete the   *)
(* conversation, which takes the rows that refer to it along.              *)
(***************************************************************************)
EXTENDS SharedConversations, Artifacts, Attachments

vars == <<requestVars, sharingVars, artifactVars, attachmentVars>>

Init == RequestsInit /\ SharingInit /\ ArtifactInit /\ AttachmentInit

\* DeleteConversation.
DeleteConversation ==
    /\ conv /\ conv' = FALSE
    /\ DropShare /\ DropArtifact /\ UnlinkAttachment
    /\ UNCHANGED <<req, faults>>

Abandon(q) ==
    /\ Fail(q)
    /\ updateLost' = (updateLost \/ At(q, "version", "update"))
    /\ UNCHANGED <<conv, sharingVars, artifact, versions, published,
                   updatesCrossed, attachmentVars>>

Next ==
    \/ \E q \in Requests :
          \/ SharingStep(q) /\ UNCHANGED <<artifactVars, attachmentVars>>
          \/ ArtifactStep(q) /\ UNCHANGED <<sharingVars, attachmentVars>>
          \/ AttachmentStep(q) /\ UNCHANGED <<sharingVars, artifactVars>>
          \/ Abandon(q)
    \/ ChangeLimit /\ UNCHANGED <<artifactVars, attachmentVars>>
    \/ SessionExpires /\ UNCHANGED <<sharingVars, artifactVars>>
    \/ DeleteConversation

Spec == Init /\ [][Next]_vars

-----------------------------------------------------------------------------

\* Whoever joins finds a place in the plan of the owner, unless the plan has
\* changed since the request looked it up or another has joined since it
\* counted (conversation_shares.go:227).
JoinsKeepLimit ==
    [][\A u \in collaborators' \ collaborators :
          \E q \in Requests :
             /\ req[q] # req'[q] /\ req[q].at = "insert" /\ req[q].user = u
             /\ \/ Cardinality(collaborators') <= limit
                \/ req[q].limit # limit
                \/ req[q].seen # collaborators]_vars

\* A code the owner has replaced, or taken away, lets nobody in from then on,
\* unless two saves of the settings overlapped: the one that gave no code then
\* writes back the code it had read (conversation_shares.go:102).
OldCodeAdmitsNobody ==
    [][\A q \in Requests :
          req[q].at = "code" /\ req'[q].at = "count" =>
             req[q].code = meant \/ savesCrossed]_vars
=============================================================================
