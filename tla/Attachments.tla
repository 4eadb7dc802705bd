---------------------------- MODULE Attachments ----------------------------
(***************************************************************************)
(* A file a user attaches: the row, its upload session in Redis, and the   *)
(* object in MinIO.  An upload writes the object as long as the row is     *)
(* pending; completing reads the text of the object, marks the row ready   *)
(* and drops the session.  Status, object and text live in three stores    *)
(* and no step covers two of them.  The file is one of those whose text is *)
(* extracted, and may be empty.  An object is named by the request that    *)
(* put it there, and so is the text read from it; an object without bytes, *)
(* and one that cannot be read, is given a line with the file's name.      *)
(***************************************************************************)
EXTENDS ContentRequests

CONSTANTS
    Empty,       \* an object without bytes
    Placeholder  \* the line that stands in for a text

ASSUME AttachmentsAssumption ==
    Requests \cap {None, Empty, Placeholder} = {} /\ None \notin {Empty, Placeholder}

VARIABLES
    attachment,  \* the row: status, extracted text, linked to the conversation
    session,     \* attachmentUploadSessionKey exists
    object,      \* the object in MinIO
    uploadCrossed, \* history: an upload ran beside a completion
    readFailed   \* history: an object could not be read when a completion tried

attachmentVars == <<attachment, session, object, uploadCrossed, readFailed>>

NoAttachment == [status |-> "none", text |-> None, linked |-> FALSE]

AttachmentInit ==
    /\ attachment = NoAttachment
    /\ session = FALSE /\ object = None
    /\ uploadCrossed = FALSE /\ readFailed = FALSE

Pending == attachment.status = "pending"
Ready == attachment.status = "ready"

-----------------------------------------------------------------------------
(* handleAttachmentUploadInit.                                             *)

CreateAttachment(q) ==
    /\ attachment = NoAttachment
    /\ Begin(q, [op |-> "attach", at |-> "session"])
    /\ \E l \in {FALSE, conv} :
          attachment' = [status |-> "pending", text |-> None, linked |-> l]
    /\ UNCHANGED <<conv, faults, session, object, uploadCrossed, readFailed>>

OpenUploadSession(q) ==
    /\ At(q, "attach", "session")
    /\ session' = TRUE
    /\ Finish(q)
    /\ UNCHANGED <<conv, faults, attachment, object, uploadCrossed, readFailed>>

\* The session is kept for fifteen minutes.
SessionExpires ==
    /\ session /\ session' = FALSE
    /\ UNCHANGED <<requestVars, attachment, object, uploadCrossed, readFailed>>

-----------------------------------------------------------------------------
(* handleAttachmentUpload and handleAttachmentComplete.                    *)

\* Mutant of MayUpload: the status is not looked at.
AnyStatus == session

\* The file of an attachment that is ready is left alone.
MayUpload == session /\ Pending

BeginUpload(q) ==
    /\ MayUpload
    /\ Begin(q, [op |-> "upload", at |-> "put"])
    /\ UNCHANGED <<conv, faults, attachmentVars>>

PutObject(q) ==
    /\ At(q, "upload", "put")
    /\ object' \in {q, Empty}
    /\ uploadCrossed' = (uploadCrossed \/
          \E p \in Requests : At(p, "complete", "update"))
    /\ Finish(q)
    /\ UNCHANGED <<conv, faults, attachment, session, readFailed>>

BeginComplete(q) ==
    /\ Pending
    /\ Begin(q, [op |-> "complete", at |-> "extract"])
    /\ UNCHANGED <<conv, faults, attachmentVars>>

FileText == IF object = Empty THEN Placeholder ELSE object

\* StatObject, then extractAttachmentText: GetObject or ReadAll may fail, and
\* the completion goes on all the same.
ExtractText(q) ==
    /\ At(q, "complete", "extract")
    /\ \/ /\ object = None
          /\ Finish(q)
          /\ UNCHANGED <<faults, readFailed>>
       \/ /\ object # None
          /\ Advance(q, [op |-> "complete", at |-> "update", text |-> FileText])
          /\ UNCHANGED <<faults, readFailed>>
       \/ /\ object # None /\ faults < MaxFaults
          /\ faults' = faults + 1 /\ readFailed' = TRUE
          /\ Advance(q, [op |-> "complete", at |-> "update", text |-> Placeholder])
    /\ UNCHANGED <<conv, attachment, session, object, uploadCrossed>>

\* CompleteAttachment.
MarkReady(q) ==
    /\ At(q, "complete", "update")
    /\ attachment' = [attachment EXCEPT !.status = "ready",
                                        !.text = req[q].text]
    /\ uploadCrossed' = (uploadCrossed \/
          \E p \in Requests : At(p, "upload", "put"))
    /\ Goto(q, "forget")
    /\ UNCHANGED <<conv, faults, session, object, readFailed>>

ForgetSession(q) ==
    /\ At(q, "complete", "forget")
    /\ session' = FALSE
    /\ Finish(q)
    /\ UNCHANGED <<conv, faults, attachment, object, uploadCrossed, readFailed>>

\* AssignAttachmentsToConversation, by a message that names the attachment,
\* ready or not.
LinkToConversation(q) ==
    /\ conv /\ attachment # NoAttachment
    /\ req[q] = Idle /\ Finish(q)
    /\ attachment' = [attachment EXCEPT !.linked = TRUE]
    /\ UNCHANGED <<conv, faults, session, object, uploadCrossed, readFailed>>

\* ON DELETE SET NULL.
UnlinkAttachment ==
    /\ attachment' = [attachment EXCEPT !.linked = FALSE]
    /\ UNCHANGED <<session, object, uploadCrossed, readFailed>>

AttachmentStep(q) ==
    \/ CreateAttachment(q) \/ OpenUploadSession(q)
    \/ BeginUpload(q) \/ PutObject(q)
    \/ BeginComplete(q) \/ ExtractText(q) \/ MarkReady(q) \/ ForgetSession(q)
    \/ LinkToConversation(q)

-----------------------------------------------------------------------------

\* The texts a completion may have found: that of the file, and the line with
\* its name once a read has failed.
Extracts == {FileText} \cup (IF readFailed THEN {Placeholder} ELSE {})

\* The text a model is given for a ready attachment is that of the file a
\* user downloads, or the line with its name when the file is empty or could
\* not be read, unless an upload had passed its check of the status before
\* the completion wrote it (user_handlers.go:717, 759, 1359).
TextIsOfTheFile == Ready => attachment.text \in Extracts \/ uploadCrossed
=============================================================================
