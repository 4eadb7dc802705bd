----------------------------- MODULE Artifacts -----------------------------
(***************************************************************************)
(* A code preview made from an assistant message, and its versions.  The   *)
(* row in chat_artifacts shows one version and chat_artifact_versions      *)
(* keeps all of them; a save reads the largest number, inserts the next    *)
(* and then updates the row, in three statements without a transaction.    *)
(* Files are named by the request that wrote them; how they are cut out of *)
(* the answer is left out.                                                 *)
(***************************************************************************)
EXTENDS ContentRequests, FiniteSetsExt

VARIABLES
    artifact,   \* the row: the version it shows and the files of it
    versions,   \* chat_artifact_versions: number -> files
    published,  \* the user has been told of the artifact
    updatesCrossed,  \* history: a version came before the update of another
    updateLost       \* history: a save ended before it updated the row

artifactVars == <<artifact, versions, published, updatesCrossed, updateLost>>

NoArtifact == [version |-> 0, files |-> None]

ArtifactInit ==
    /\ artifact = NoArtifact
    /\ versions = <<>>
    /\ published = FALSE /\ updatesCrossed = FALSE /\ updateLost = FALSE

NextVersion == IF versions = <<>> THEN 1 ELSE Max(DOMAIN versions) + 1

-----------------------------------------------------------------------------
(* createArtifactsForAssistantMessage, at the end of a generation.         *)

CreateArtifact(q) ==
    /\ conv /\ artifact = NoArtifact /\ ~published
    /\ Begin(q, [op |-> "create", at |-> "version"])
    /\ artifact' = [version |-> 1, files |-> q]
    /\ UNCHANGED <<conv, faults, versions, published, updatesCrossed, updateLost>>

FirstVersion(q) == IF artifact = NoArtifact THEN versions ELSE <<q>>

\* The first version; its error is dropped, and the message names the
\* artifact either way.
StoreFirstVersion(q) ==
    /\ At(q, "create", "version")
    /\ \/ /\ versions' = FirstVersion(q)
          /\ UNCHANGED faults
       \/ /\ faults < MaxFaults /\ faults' = faults + 1
          /\ UNCHANGED versions
    /\ published' = TRUE
    /\ Finish(q)
    /\ UNCHANGED <<conv, artifact, updatesCrossed, updateLost>>

-----------------------------------------------------------------------------
(* handleCreateChatArtifactVersion.                                        *)

BeginVersion(q) ==
    /\ published /\ artifact # NoArtifact
    /\ Begin(q, [op |-> "version", at |-> "number"])
    /\ UNCHANGED <<conv, faults, artifactVars>>

ReadNextVersion(q) ==
    /\ At(q, "version", "number")
    /\ Advance(q, [op |-> "version", at |-> "insert", number |-> NextVersion])
    /\ UNCHANGED <<conv, faults, artifactVars>>

\* A number that is taken, and an artifact that is gone, refuse the insert.
InsertVersion(q) ==
    /\ At(q, "version", "insert")
    /\ LET n == req[q].number IN
       IF artifact # NoArtifact /\ n \notin DOMAIN versions
       THEN /\ versions' = [m \in DOMAIN versions \cup {n} |->
                              IF m = n THEN q ELSE versions[m]]
            /\ Goto(q, "update")
            /\ updatesCrossed' = (updatesCrossed \/
                  \E p \in Requests : At(p, "version", "update"))
       ELSE Finish(q) /\ UNCHANGED <<versions, updatesCrossed>>
    /\ UNCHANGED <<conv, faults, artifact, published, updateLost>>

\* Mutant of UpdateArtifact: the number of the version is not written.
UpdateFilesOnly(q) ==
    /\ At(q, "version", "update")
    /\ artifact' = IF artifact = NoArtifact THEN artifact
                   ELSE [artifact EXCEPT !.files = q]
    /\ Finish(q)
    /\ UNCHANGED <<conv, faults, versions, published, updatesCrossed, updateLost>>

UpdateArtifact(q) ==
    /\ At(q, "version", "update")
    /\ artifact' = IF artifact = NoArtifact THEN artifact
                   ELSE [version |-> req[q].number, files |-> q]
    /\ Finish(q)
    /\ UNCHANGED <<conv, faults, versions, published, updatesCrossed, updateLost>>

\* ON DELETE CASCADE.
DropArtifact ==
    /\ artifact' = NoArtifact /\ versions' = <<>>
    /\ UNCHANGED <<published, updatesCrossed, updateLost>>

ArtifactStep(q) ==
    \/ CreateArtifact(q) \/ StoreFirstVersion(q)
    \/ BeginVersion(q) \/ ReadNextVersion(q) \/ InsertVersion(q)
    \/ UpdateArtifact(q)

-----------------------------------------------------------------------------

Updating == \E q \in Requests : At(q, "version", "update")

\* The preview shows the newest version, unless an update is still to come,
\* was lost, or ran beside a newer one and was the last to write: the row is
\* updated after the version is inserted and nothing orders two updates
\* (artifacts.go:92).
ArtifactShowsNewest ==
    artifact # NoArtifact /\ versions # <<>> =>
        \/ Updating \/ updateLost \/ updatesCrossed
        \/ LET n == Max(DOMAIN versions) IN
           artifact = [version |-> n, files |-> versions[n]]
=============================================================================
