--------------------- MODULE ConversationContent_proofs ---------------------
(***************************************************************************)
(* Proofs about ConversationContent, for every set of requests, users and  *)
(* codes and every value of the bounds.  A request works on the share, on  *)
(* the artifact or on the attachment: the part of the invariant about one  *)
(* of them is kept by the steps on the others because these leave alone    *)
(* its rows and the requests that work on it (the Quiet predicates).       *)
(***************************************************************************)
EXTENDS ConversationContent, SequenceTheorems, FiniteSetTheorems, TLAPS

-----------------------------------------------------------------------------
(* The inductive invariant.                                                *)

Answers == Codes \cup {None}
Files == Requests \cup {None}
Objects == Files \cup {Empty}
Lines == Files \cup {Placeholder}

\* What a request is, from what it does and where it is.
Plain == {Idle, Over, [op |-> "create", at |-> "version"],
          [op |-> "version", at |-> "number"], [op |-> "attach", at |-> "session"],
          [op |-> "upload", at |-> "put"], [op |-> "complete", at |-> "extract"]}
Writes == [op : {"save"}, at : {"write"}, enabled : BOOLEAN, collab : BOOLEAN,
           code : Answers, stored : Answers]
Joins == [op : {"join", "post"}, at : {"code", "count", "message"},
          user : Users, code : Codes, limit : Nat]
Entries == [op : {"join", "post"}, at : {"insert", "message"},
            user : Users, limit : Nat, seen : SUBSET Users]
Numbers == [op : {"version"}, at : {"insert", "update"}, number : Nat \ {0}]
Texts == [op : {"complete"}, at : {"update", "forget"}, text : Lines]
States == Plain \cup SaveRequest \cup Writes \cup Joins \cup {OwnerPost}
          \cup Entries \cup Numbers \cup Texts

\* Every variable has its type; the versions are numbered from one.
TypeOK ==
    /\ conv \in BOOLEAN /\ faults \in Nat
    /\ req \in [Requests -> States]
    /\ share \in [active : BOOLEAN, collab : BOOLEAN, code : Answers]
    /\ collaborators \in SUBSET Users /\ IsFiniteSet(collaborators)
    /\ authors \in SUBSET (Users \cup {Owner})
    /\ limit \in Nat /\ meant \in Answers /\ savesCrossed \in BOOLEAN
    /\ artifact \in [version : Nat, files : Files]
    /\ versions \in Seq(Requests)
    /\ published \in BOOLEAN /\ updatesCrossed \in BOOLEAN /\ updateLost \in BOOLEAN
    /\ attachment \in [status : {"none", "pending", "ready"}, text : Lines,
                       linked : BOOLEAN]
    /\ session \in BOOLEAN /\ object \in Objects
    /\ uploadCrossed \in BOOLEAN /\ readFailed \in BOOLEAN

\* Unless saves have crossed, the code in the row is the one that is meant, and
\* what a save is about to write is what it means.
ShareInv ==
    /\ ~conv => share = NoShare /\ meant = None
    /\ conv /\ ~savesCrossed =>
           /\ share.code = meant
           /\ \A q \in Requests :
                 At(q, "save", "write") => req[q].stored = Meant(req[q])

\* A request that is about to take a place has seen one.
JoinInv ==
    \A q \in Requests : req[q].op \in {"join", "post"} /\ req[q].at = "insert" =>
        Cardinality(req[q].seen) < req[q].limit /\ req[q].user \notin req[q].seen

\* Before the user is told of the artifact one request at most has made it and
\* it has no version; afterwards a save inserts a number that is there or the
\* next one, and updates the row for a version of its own.
VersionInv ==
    /\ ~conv => artifact = NoArtifact
    /\ artifact = NoArtifact => Len(versions) = 0
    /\ ~published => Len(versions) = 0 /\ \A q \in Requests : req[q].op # "version"
    /\ \A q \in Requests : At(q, "create", "version") /\ conv =>
           artifact = [version |-> 1, files |-> q] /\ ~published
    /\ artifact # NoArtifact => \A q \in Requests :
           /\ At(q, "version", "insert") => req[q].number \in 1..Len(versions) + 1
           /\ At(q, "version", "update") =>
                 req[q].number \in 1..Len(versions) /\ versions[req[q].number] = q

\* Unless updates have crossed or one was lost, one request at most is to
\* update the row, for the newest version, and with none the row shows it.
NewestInv ==
    ~updateLost /\ ~updatesCrossed /\ artifact # NoArtifact =>
        /\ \A q \in Requests : At(q, "version", "update") =>
               /\ req[q].number = Len(versions)
               /\ \A p \in Requests : At(p, "version", "update") => p = q
        /\ ~Updating /\ Len(versions) # 0 =>
               artifact = [version |-> Len(versions), files |-> versions[Len(versions)]]

\* Unless an upload has crossed a completion, a text that was read is that of
\* the file there is (or the line with its name, once a read has failed), and no
\* upload is under way once the attachment is ready.
TextInv ==
    ~uploadCrossed =>
        /\ \A q \in Requests : At(q, "complete", "update") => req[q].text \in Extracts
        /\ Ready => attachment.text \in Extracts /\ \A q \in Requests : ~At(q, "upload", "put")

IInv == TypeOK /\ ShareInv /\ JoinInv /\ VersionInv /\ NewestInv /\ TextInv

-----------------------------------------------------------------------------
(* What the steps of a request do to it.                                   *)

Others(q) == \A p \in Requests \ {q} : req'[p] = req[p]

\* What follows from where a request is.
LEMMA StateOf ==
    ASSUME NEW r \in States
    PROVE  /\ r.op = "save" /\ r.at = "read" => r \in SaveRequest
           /\ r.op = "save" /\ r.at = "write" => r \in Writes
           /\ r.op \in {"join", "post"} /\ r.at \in {"code", "count"} => r \in Joins
           /\ r.op \in {"join", "post"} /\ r.at = "insert" => r \in Entries
           /\ r.op = "version" /\ r.at \in {"insert", "update"} => r \in Numbers
           /\ r.op = "complete" /\ r.at \in {"update", "forget"} => r \in Texts
           /\ r.op = "post" /\ r.at = "message" => r.user \in Users \cup {Owner}
BY DEF States, Plain, SaveRequest, Writes, Joins, Entries, Numbers, Texts, Idle, Over,
   OwnerPost

\* A request that is given another state.
LEMMA Moved ==
    ASSUME req \in [Requests -> States], NEW q \in Requests, NEW r \in States,
           Advance(q, r)
    PROVE  req' \in [Requests -> States] /\ req'[q] = r /\ Others(q)
BY DEF Advance, Others

\* A request that is over.
LEMMA Ends ==
    ASSUME req \in [Requests -> States], NEW q \in Requests, Finish(q)
    PROVE  /\ req' \in [Requests -> States] /\ req'[q] = Over /\ Others(q)
           /\ Over \in States
<1>1. Over \in States
  BY DEF States, Plain
<1> QED
  BY <1>1, Moved DEF Finish

\* A request that only moves to another place.
LEMMA Goes ==
    ASSUME req \in [Requests -> States], NEW q \in Requests, NEW at, Goto(q, at),
           [req[q] EXCEPT !.at = at] \in States
    PROVE  /\ req' \in [Requests -> States] /\ Others(q)
           /\ req'[q] = [req[q] EXCEPT !.at = at]
BY DEF Goto, Others

\* The two answers to one who joins: the request is over, or posts its message.
LEMMA AdmittedMoves ==
    ASSUME req \in [Requests -> States], NEW q \in Requests, Admitted(q),
           req[q] \in Joins \cup Entries
    PROVE  /\ req' \in [Requests -> States] /\ Others(q)
           /\ req'[q].op \in {"over", "post"} /\ req'[q].at \in {"end", "message"}
<1>1. CASE Finish(q)
  BY <1>1, Ends DEF Over
<1>2. CASE Goto(q, "message") /\ req[q].op = "post"
  <2>1. /\ [req[q] EXCEPT !.at = "message"] \in States
        /\ [req[q] EXCEPT !.at = "message"].op = "post"
        /\ [req[q] EXCEPT !.at = "message"].at = "message"
    BY <1>2 DEF States, Joins, Entries
  <2> QED
    BY <1>2, <2>1, Goes
<1> QED
  BY <1>1, <1>2 DEF Admitted, Joins, Entries

\* A save begins.
LEMMA BeginSaveMoves ==
    ASSUME req \in [Requests -> States], NEW q \in Requests, BeginSave(q)
    PROVE  /\ req' \in [Requests -> States] /\ Others(q)
           /\ req[q] = Idle /\ req'[q] \in SaveRequest
<1>1. PICK r \in SaveRequest : Begin(q, r)
  BY DEF BeginSave
<1>2. r \in States
  BY DEF States
<1> QED
  BY <1>1, <1>2, Moved DEF Begin

\* A save has read the row, and knows the code it will write.
LEMMA ReadShareMoves ==
    ASSUME TypeOK, NEW q \in Requests, ReadShare(q)
    PROVE  /\ req' \in [Requests -> States] /\ Others(q)
           /\ req[q] \in SaveRequest /\ req'[q] \in Writes
           /\ req'[q].collab = req[q].collab /\ req'[q].code = req[q].code
           /\ req'[q].stored = StoredCode(req[q])
<1> DEFINE r == req[q]
           s == [op |-> "save", at |-> "write", enabled |-> r.enabled,
                 collab |-> r.collab, code |-> r.code, stored |-> StoredCode(r)]
<1>1. r \in SaveRequest
  BY StateOf DEF ReadShare, At, TypeOK
<1>2. StoredCode(r) \in Answers
  BY <1>1 DEF StoredCode, SaveRequest, Answers, TypeOK
<1>3. s \in Writes
  BY <1>1, <1>2 DEF Writes, SaveRequest, Answers
<1>4. Advance(q, s)
  BY DEF ReadShare
<1>5. s \in States
  BY <1>3 DEF States
<1>6. s.collab = r.collab /\ s.code = r.code /\ s.stored = StoredCode(r)
  OBVIOUS
<1> QED
  BY <1>1, <1>3, <1>4, <1>5, <1>6, Moved DEF TypeOK

\* A save is written, or refused, and over.
LEMMA WriteShareMoves ==
    ASSUME TypeOK, NEW q \in Requests, WriteShare(q)
    PROVE  /\ req' \in [Requests -> States] /\ Others(q)
           /\ req[q] \in Writes /\ req'[q] = Over
BY StateOf, Ends DEF WriteShare, At, TypeOK

\* A user brings a code.
LEMMA BeginJoinMoves ==
    ASSUME req \in [Requests -> States], NEW q \in Requests, BeginJoin(q)
    PROVE  /\ req' \in [Requests -> States] /\ Others(q)
           /\ req[q] = Idle /\ req'[q] \in Joins /\ req'[q].at = "code"
<1>1. PICK r \in JoinRequest : Begin(q, r)
  BY DEF BeginJoin
<1>2. r \in Joins /\ r.at = "code"
  BY SharingAssumption DEF JoinRequest, Joins
<1>3. r \in States
  BY <1>2 DEF States
<1> QED
  BY <1>1, <1>2, <1>3, Moved DEF Begin

\* The owner brings none.
LEMMA BeginOwnerPostMoves ==
    ASSUME req \in [Requests -> States], NEW q \in Requests, BeginOwnerPost(q)
    PROVE  /\ req' \in [Requests -> States] /\ Others(q)
           /\ req[q] = Idle /\ req'[q] = OwnerPost
<1>1. OwnerPost \in States
  BY DEF States
<1> QED
  BY <1>1, Moved DEF Begin, BeginOwnerPost

\* Only the code in the row leads to the count.
LEMMA CheckCodeMoves ==
    ASSUME TypeOK, NEW q \in Requests, CheckCode(q)
    PROVE  /\ req' \in [Requests -> States] /\ Others(q)
           /\ req[q] \in Joins /\ req[q].at = "code"
           /\ \/ /\ AccessAllowed(req[q].code)
                 /\ req'[q] \in Joins /\ req'[q].at = "count"
              \/ req'[q] = Over
<1>1. req[q] \in Joins /\ req[q].at = "code"
  BY StateOf DEF CheckCode, At, TypeOK
<1>2. CASE AccessAllowed(req[q].code)
  <2>1. /\ [req[q] EXCEPT !.at = "count"] \in Joins
        /\ [req[q] EXCEPT !.at = "count"].at = "count"
    BY <1>1 DEF Joins
  <2>2. [req[q] EXCEPT !.at = "count"] \in States
    BY <2>1 DEF States
  <2> QED
    BY <1>1, <1>2, <2>1, <2>2, Goes DEF CheckCode, TypeOK
<1>3. CASE ~AccessAllowed(req[q].code)
  BY <1>1, <1>3, Ends DEF CheckCode, TypeOK
<1> QED
  BY <1>2, <1>3

\* One who is to be inserted has seen a place that is left, and is not in yet.
LEMMA CountMoves ==
    ASSUME TypeOK, NEW q \in Requests, CountCollaborators(q)
    PROVE  /\ req' \in [Requests -> States] /\ Others(q)
           /\ req[q].op \in {"join", "post"} /\ req[q].at = "count"
           /\ \/ /\ req'[q] \in Entries
                 /\ req'[q].at = "insert" /\ req'[q].seen = collaborators
                 /\ Cardinality(req'[q].seen) < req'[q].limit
                 /\ req'[q].user \notin req'[q].seen
              \/ /\ req'[q].op \in {"over", "post"}
                 /\ req'[q].at \in {"end", "message"}
<1> DEFINE r == req[q]
           s == [op |-> r.op, at |-> "insert", user |-> r.user,
                 limit |-> r.limit, seen |-> collaborators]
<1>1. r \in Joins /\ r.at = "count" /\ r.op \in {"join", "post"}
  BY StateOf DEF CountCollaborators, At, TypeOK
<1>2. CASE r.user \in collaborators
  BY <1>1, <1>2, AdmittedMoves DEF CountCollaborators, TypeOK
<1>3. CASE r.user \notin collaborators /\ PlaceLeft(r)
  <2>1. s \in Entries /\ s.at = "insert" /\ s.seen = collaborators /\ s.limit = r.limit
        /\ s.user = r.user
    BY <1>1 DEF Entries, Joins, TypeOK
  <2>2. s \in States
    BY <2>1 DEF States
  <2>3. Advance(q, s)
    BY <1>3 DEF CountCollaborators
  <2> HIDE DEF s
  <2>4. req'[q] = s /\ req' \in [Requests -> States] /\ Others(q)
    BY <2>2, <2>3, Moved DEF TypeOK
  <2> QED
    BY <1>1, <1>3, <2>1, <2>4 DEF PlaceLeft
<1>4. CASE r.user \notin collaborators /\ ~PlaceLeft(r)
  <2>1. Finish(q)
    BY <1>4 DEF CountCollaborators
  <2> QED
    BY <1>1, <2>1, Ends DEF TypeOK, Over
<1> QED
  BY <1>2, <1>3, <1>4

\* The insert is the last step of a join, and leads a post to its message.
LEMMA InsertMoves ==
    ASSUME TypeOK, NEW q \in Requests, InsertCollaborator(q)
    PROVE  /\ req' \in [Requests -> States] /\ Others(q)
           /\ req[q] \in Entries /\ req[q].at = "insert" /\ req[q].op \in {"join", "post"}
           /\ req'[q].op \in {"over", "post"} /\ req'[q].at \in {"end", "message"}
<1>1. req[q] \in Entries /\ req[q].at = "insert" /\ req[q].op \in {"join", "post"}
  BY StateOf DEF InsertCollaborator, At, TypeOK
<1>2. CASE Admitted(q)
  BY <1>1, <1>2, AdmittedMoves DEF TypeOK
<1>3. CASE Finish(q)
  BY <1>1, <1>3, Ends DEF TypeOK, Over
<1> QED
  BY <1>2, <1>3 DEF InsertCollaborator

\* A message is posted by a user or the owner.
LEMMA PostMoves ==
    ASSUME TypeOK, NEW q \in Requests, PostMessage(q)
    PROVE  /\ req' \in [Requests -> States] /\ Others(q)
           /\ req[q].op = "post" /\ req[q].user \in Users \cup {Owner}
           /\ req'[q] = Over
BY StateOf, Ends DEF PostMessage, At, TypeOK

\* A generation has made the artifact, its first version comes next.
LEMMA CreateArtifactMoves ==
    ASSUME req \in [Requests -> States], NEW q \in Requests, CreateArtifact(q)
    PROVE  /\ req' \in [Requests -> States] /\ Others(q)
           /\ req[q] = Idle /\ req'[q] = [op |-> "create", at |-> "version"]
<1>1. [op |-> "create", at |-> "version"] \in States
  BY DEF States, Plain
<1> QED
  BY <1>1, Moved DEF Begin, CreateArtifact

\* A save of a version begins.
LEMMA BeginVersionMoves ==
    ASSUME req \in [Requests -> States], NEW q \in Requests, BeginVersion(q)
    PROVE  /\ req' \in [Requests -> States] /\ Others(q)
           /\ req[q] = Idle /\ req'[q] = [op |-> "version", at |-> "number"]
<1>1. [op |-> "version", at |-> "number"] \in States
  BY DEF States, Plain
<1> QED
  BY <1>1, Moved DEF Begin, BeginVersion

\* Versions are numbered from one, so the largest number is how many there are.
LEMMA LargestNumber ==
    ASSUME TypeOK, versions # <<>>
    PROVE  Max(DOMAIN versions) = Len(versions) /\ Len(versions) \in Nat \ {0}
<1>1. Len(versions) \in Nat \ {0} /\ DOMAIN versions = 1..Len(versions)
  BY DEF TypeOK
<1>2. \E n \in 1..Len(versions) : \A m \in 1..Len(versions) : n >= m
  BY <1>1
<1>3. /\ Max(1..Len(versions)) \in 1..Len(versions)
      /\ \A m \in 1..Len(versions) : Max(1..Len(versions)) >= m
  BY <1>2 DEF Max
<1>4. Max(1..Len(versions)) = Len(versions)
  BY <1>1, <1>3
<1> QED
  BY <1>1, <1>4

\* The number after the largest one.
LEMMA NextNumber ==
    ASSUME TypeOK
    PROVE  NextVersion = Len(versions) + 1 /\ NextVersion \in Nat \ {0}
<1>1. Len(versions) \in Nat
  BY DEF TypeOK
<1>2. CASE versions = <<>>
  BY <1>2 DEF NextVersion
<1>3. CASE versions # <<>>
  BY <1>1, <1>3, LargestNumber DEF NextVersion
<1> QED
  BY <1>2, <1>3

\* A save has read the next number.
LEMMA ReadNextVersionMoves ==
    ASSUME TypeOK, NEW q \in Requests, ReadNextVersion(q)
    PROVE  /\ req' \in [Requests -> States] /\ Others(q)
           /\ req[q].op = "version" /\ req[q].at = "number"
           /\ req'[q] = [op |-> "version", at |-> "insert", number |-> Len(versions) + 1]
<1> DEFINE s == [op |-> "version", at |-> "insert", number |-> NextVersion]
<1>1. s \in States
  BY NextNumber DEF States, Numbers
<1>2. Advance(q, s) /\ req[q].op = "version" /\ req[q].at = "number"
  BY DEF ReadNextVersion, At
<1>3. req'[q] = s /\ req' \in [Requests -> States] /\ Others(q)
  BY <1>1, <1>2, Moved DEF TypeOK
<1> QED
  BY <1>2, <1>3, NextNumber

\* A save has inserted its version, or was refused.
LEMMA InsertVersionMoves ==
    ASSUME TypeOK, NEW q \in Requests, InsertVersion(q)
    PROVE  /\ req' \in [Requests -> States] /\ Others(q)
           /\ req[q] \in Numbers /\ req[q].at = "insert"
           /\ IF artifact # NoArtifact /\ req[q].number \notin DOMAIN versions
              THEN /\ req'[q] \in Numbers /\ req'[q].at = "update"
                   /\ req'[q].number = req[q].number
              ELSE req'[q] = Over
<1>1. req[q] \in Numbers /\ req[q].at = "insert"
  BY StateOf DEF InsertVersion, At, TypeOK
<1>2. CASE artifact # NoArtifact /\ req[q].number \notin DOMAIN versions
  <2> DEFINE s == [req[q] EXCEPT !.at = "update"]
  <2>1. s \in Numbers /\ s.at = "update" /\ s.number = req[q].number
    BY <1>1 DEF Numbers
  <2>2. s \in States
    BY <2>1 DEF States
  <2>3. Goto(q, "update")
    BY <1>2 DEF InsertVersion
  <2> QED
    BY <1>1, <1>2, <2>1, <2>2, <2>3, Goes DEF TypeOK
<1>3. CASE ~(artifact # NoArtifact /\ req[q].number \notin DOMAIN versions)
  <2>1. Finish(q)
    BY <1>3 DEF InsertVersion
  <2> QED
    BY <1>1, <1>3, <2>1, Ends DEF TypeOK
<1> QED
  BY <1>2, <1>3

\* A save has updated the row, and is over.
LEMMA UpdateArtifactMoves ==
    ASSUME TypeOK, NEW q \in Requests, UpdateArtifact(q)
    PROVE  /\ req' \in [Requests -> States] /\ Others(q)
           /\ req[q] \in Numbers /\ req[q].at = "update" /\ req'[q] = Over
BY StateOf, Ends DEF UpdateArtifact, At, TypeOK

\* An attachment is created, its upload session comes next.
LEMMA CreateAttachmentMoves ==
    ASSUME req \in [Requests -> States], NEW q \in Requests, CreateAttachment(q)
    PROVE  /\ req' \in [Requests -> States] /\ Others(q)
           /\ req[q] = Idle /\ req'[q] = [op |-> "attach", at |-> "session"]
<1>1. [op |-> "attach", at |-> "session"] \in States
  BY DEF States, Plain
<1> QED
  BY <1>1, Moved DEF Begin, CreateAttachment

\* An upload has passed its check.
LEMMA BeginUploadMoves ==
    ASSUME req \in [Requests -> States], NEW q \in Requests, BeginUpload(q)
    PROVE  /\ req' \in [Requests -> States] /\ Others(q)
           /\ req[q] = Idle /\ req'[q] = [op |-> "upload", at |-> "put"]
<1>1. [op |-> "upload", at |-> "put"] \in States
  BY DEF States, Plain
<1> QED
  BY <1>1, Moved DEF Begin, BeginUpload

\* A completion has passed its check.
LEMMA BeginCompleteMoves ==
    ASSUME req \in [Requests -> States], NEW q \in Requests, BeginComplete(q)
    PROVE  /\ req' \in [Requests -> States] /\ Others(q)
           /\ req[q] = Idle /\ req'[q] = [op |-> "complete", at |-> "extract"]
<1>1. [op |-> "complete", at |-> "extract"] \in States
  BY DEF States, Plain
<1> QED
  BY <1>1, Moved DEF Begin, BeginComplete

\* A completion has read a text of the object there is, or found no object.
LEMMA ExtractTextMoves ==
    ASSUME TypeOK, NEW q \in Requests, ExtractText(q)
    PROVE  /\ req' \in [Requests -> States] /\ Others(q) /\ faults' \in Nat
           /\ req[q].op = "complete" /\ req[q].at = "extract"
           /\ \/ /\ req'[q] \in Texts /\ req'[q].at = "update"
                 /\ req'[q].text \in Extracts'
              \/ req'[q] = Over
           /\ readFailed' \in {readFailed, TRUE}
           /\ UNCHANGED <<conv, attachment, session, object, uploadCrossed>>
<1>1. req[q].op = "complete" /\ req[q].at = "extract"
  BY DEF ExtractText, At
<1>2. /\ readFailed' \in {readFailed, TRUE} /\ faults' \in Nat
      /\ UNCHANGED <<conv, attachment, session, object, uploadCrossed>>
  <2>1. faults \in Nat /\ faults + 1 \in Nat
    BY DEF TypeOK
  <2>2. \/ UNCHANGED <<faults, readFailed>>
        \/ faults' = faults + 1 /\ readFailed' = TRUE
    BY DEF ExtractText
  <2>3. UNCHANGED <<conv, attachment, session, object, uploadCrossed>>
    BY DEF ExtractText
  <2> QED
    BY <2>1, <2>2, <2>3
<1>3. ASSUME NEW t, Advance(q, [op |-> "complete", at |-> "update", text |-> t]),
             t \in Lines, t \in Extracts'
      PROVE  /\ req' \in [Requests -> States] /\ Others(q)
             /\ req'[q] \in Texts /\ req'[q].at = "update" /\ req'[q].text \in Extracts'
  <2> DEFINE s == [op |-> "complete", at |-> "update", text |-> t]
  <2>1. s \in Texts /\ s.at = "update" /\ s.text = t
    BY <1>3 DEF Texts
  <2>2. s \in States
    BY <2>1 DEF States
  <2>3. Advance(q, s)
    BY <1>3
  <2> HIDE DEF s
  <2> QED
    BY <1>3, <2>1, <2>2, <2>3, Moved DEF TypeOK
<1>4. CASE Finish(q)
  BY <1>1, <1>2, <1>4, Ends DEF TypeOK
<1>5. CASE /\ object # None
           /\ Advance(q, [op |-> "complete", at |-> "update", text |-> FileText])
  <2>1. FileText \in Lines /\ FileText \in Extracts'
    BY <1>2, <1>5 DEF FileText, Extracts, Lines, Objects, Files, TypeOK
  <2> QED
    BY <1>1, <1>2, <1>3, <1>5, <2>1
<1>6. CASE /\ readFailed' = TRUE
           /\ Advance(q, [op |-> "complete", at |-> "update", text |-> Placeholder])
  <2>1. Placeholder \in Lines /\ Placeholder \in Extracts'
    BY <1>6 DEF Extracts, Lines
  <2> QED
    BY <1>1, <1>2, <1>3, <1>6, <2>1
<1> QED
  BY <1>4, <1>5, <1>6 DEF ExtractText

\* A completion has written what it read.
LEMMA MarkReadyMoves ==
    ASSUME TypeOK, NEW q \in Requests, MarkReady(q)
    PROVE  /\ req' \in [Requests -> States] /\ Others(q)
           /\ req[q] \in Texts /\ req[q].at = "update"
           /\ req'[q] \in Texts /\ req'[q].at = "forget"
<1>1. req[q] \in Texts /\ req[q].at = "update"
  BY StateOf DEF MarkReady, At, TypeOK
<1>2. [req[q] EXCEPT !.at = "forget"] \in Texts /\ [req[q] EXCEPT !.at = "forget"].at = "forget"
  BY <1>1 DEF Texts
<1>3. [req[q] EXCEPT !.at = "forget"] \in States
  BY <1>2 DEF States
<1> QED
  BY <1>1, <1>2, <1>3, Goes DEF MarkReady, TypeOK

\* The steps after which a request is over.
LEMMA LastSteps ==
    ASSUME req \in [Requests -> States], NEW q \in Requests,
           \/ StoreFirstVersion(q) \/ OpenUploadSession(q) \/ PutObject(q)
           \/ ForgetSession(q) \/ LinkToConversation(q) \/ Fail(q)
    PROVE  req' \in [Requests -> States] /\ req'[q] = Over /\ Others(q)
BY Ends DEF StoreFirstVersion, OpenUploadSession, PutObject, ForgetSession,
   LinkToConversation, Fail

-----------------------------------------------------------------------------
(* Types.                                                                  *)

\* The steps on the share keep the types.
LEMMA SharingTypeOK ==
    ASSUME TypeOK, NEW q \in Requests, SharingStep(q), UNCHANGED artifactVars,
           UNCHANGED attachmentVars
    PROVE  TypeOK'
<1> DEFINE Kinds == /\ artifact \in [version : Nat, files : Files]
                    /\ versions \in Seq(Requests) /\ published \in BOOLEAN
                    /\ updatesCrossed \in BOOLEAN /\ updateLost \in BOOLEAN
                    /\ attachment \in [status : {"none", "pending", "ready"},
                                       text : Lines, linked : BOOLEAN]
                    /\ session \in BOOLEAN /\ object \in Objects
                    /\ uploadCrossed \in BOOLEAN /\ readFailed \in BOOLEAN
<1>0. Kinds'
  BY DEF TypeOK, artifactVars, attachmentVars
<1>1. CASE BeginSave(q) \/ BeginJoin(q) \/ BeginOwnerPost(q)
  BY <1>0, <1>1, BeginSaveMoves, BeginJoinMoves, BeginOwnerPostMoves
  DEF TypeOK, BeginSave, BeginJoin, BeginOwnerPost, sharingVars
<1>2. CASE ReadShare(q) \/ CheckCode(q) \/ CountCollaborators(q)
  BY <1>0, <1>2, ReadShareMoves, CheckCodeMoves, CountMoves
  DEF TypeOK, ReadShare, CheckCode, CountCollaborators, sharingVars
<1>3. CASE WriteShare(q)
  <2>1. req[q] \in Writes /\ req' \in [Requests -> States]
    BY <1>3, WriteShareMoves
  <2>2. share' \in [active : BOOLEAN, collab : BOOLEAN, code : Answers]
    BY <1>3, <2>1 DEF WriteShare, Writes, TypeOK
  <2>3. meant' \in Answers
    BY <1>3, <2>1 DEF WriteShare, Writes, Meant, Answers, TypeOK
  <2>4. savesCrossed' \in BOOLEAN
    BY <1>3 DEF WriteShare, TypeOK
  <2> QED
    BY <1>0, <1>3, <2>1, <2>2, <2>3, <2>4
    DEF TypeOK, WriteShare, members
<1>4. CASE InsertCollaborator(q)
  <2>1. req[q].user \in Users /\ req' \in [Requests -> States]
    BY <1>4, InsertMoves DEF Entries
  <2>2. /\ collaborators \cup {req[q].user} \in SUBSET Users
        /\ IsFiniteSet(collaborators \cup {req[q].user})
    BY <2>1, FS_AddElement DEF TypeOK
  <2>3. collaborators' \in {collaborators, collaborators \cup {req[q].user}}
    BY <1>4 DEF InsertCollaborator
  <2> QED
    BY <1>0, <1>4, <2>1, <2>2, <2>3 DEF TypeOK, InsertCollaborator
<1>5. CASE PostMessage(q)
  BY <1>0, <1>5, PostMoves DEF TypeOK, PostMessage
<1> QED
  BY <1>1, <1>2, <1>3, <1>4, <1>5 DEF SharingStep

\* A version is added at the end or in a place that is taken already.
LEMMA VersionAdded ==
    ASSUME NEW s \in Seq(Requests), NEW q \in Requests, NEW n, n = Len(s) + 1
    PROVE  /\ [m \in DOMAIN s \cup {n} |-> IF m = n THEN q ELSE s[m]] \in Seq(Requests)
           /\ Len([m \in DOMAIN s \cup {n} |-> IF m = n THEN q ELSE s[m]]) = n
<1> DEFINE t == [m \in DOMAIN s \cup {n} |-> IF m = n THEN q ELSE s[m]]
<1>1. n \in Nat /\ DOMAIN s \cup {n} = 1..n
  OBVIOUS
<1>2. t \in [1..n -> Requests]
  BY <1>1
<1> HIDE DEF t
<1>3. t \in Seq(Requests)
  BY <1>1, <1>2, SeqDef
<1>4. Len(t) = n
  BY <1>1, <1>2, <1>3
<1> QED
  BY <1>3, <1>4 DEF t

\* So do those on the artifact: a number that is not taken is the next one.
LEMMA ArtifactTypeOK ==
    ASSUME TypeOK, VersionInv, NEW q \in Requests, ArtifactStep(q), UNCHANGED sharingVars,
           UNCHANGED attachmentVars
    PROVE  TypeOK'
<1>1. CASE CreateArtifact(q)
  BY <1>1, CreateArtifactMoves
  DEF TypeOK, CreateArtifact, sharingVars, attachmentVars, Files
<1>2. CASE StoreFirstVersion(q)
  <2>1. <<q>> \in Seq(Requests)
    OBVIOUS
  <2>2. versions' \in Seq(Requests)
    BY <1>2, <2>1 DEF StoreFirstVersion, FirstVersion, TypeOK
  <2>3. faults' \in Nat /\ req' \in [Requests -> States]
    BY <1>2, LastSteps DEF StoreFirstVersion, TypeOK
  <2> QED
    BY <1>2, <2>2, <2>3 DEF TypeOK, StoreFirstVersion, sharingVars, attachmentVars
<1>3. CASE BeginVersion(q) \/ ReadNextVersion(q)
  BY <1>3, BeginVersionMoves, ReadNextVersionMoves
  DEF TypeOK, BeginVersion, ReadNextVersion, sharingVars, artifactVars, attachmentVars
<1>4. CASE InsertVersion(q)
  <2>1. req' \in [Requests -> States] /\ req[q] \in Numbers /\ At(q, "version", "insert")
    BY <1>4, InsertVersionMoves DEF InsertVersion
  <2>2. versions' \in Seq(Requests)
    <3>1. CASE artifact # NoArtifact /\ req[q].number \notin DOMAIN versions
      <4>1. req[q].number = Len(versions) + 1
        BY <2>1, <3>1 DEF VersionInv, TypeOK
      <4> QED
        <5> DEFINE n == req[q].number
                   t == [m \in DOMAIN versions \cup {n} |->
                            IF m = n THEN q ELSE versions[m]]
        <5>1. versions' = t
          BY <1>4, <3>1 DEF InsertVersion
        <5>2. t \in Seq(Requests)
          BY <4>1, VersionAdded DEF TypeOK
        <5> QED
          BY <5>1, <5>2
    <3>2. CASE ~(artifact # NoArtifact /\ req[q].number \notin DOMAIN versions)
      BY <1>4, <3>2 DEF InsertVersion, TypeOK
    <3> QED
      BY <3>1, <3>2
  <2>3. updatesCrossed' \in BOOLEAN
    BY <1>4 DEF InsertVersion, TypeOK
  <2> QED
    BY <1>4, <2>1, <2>2, <2>3 DEF TypeOK, InsertVersion, sharingVars, attachmentVars
<1>5. CASE UpdateArtifact(q)
  BY <1>5, UpdateArtifactMoves
  DEF TypeOK, UpdateArtifact, sharingVars, attachmentVars, Files, Numbers
<1> QED
  BY <1>1, <1>2, <1>3, <1>4, <1>5 DEF ArtifactStep

\* So do those on the attachment.
LEMMA AttachmentTypeOK ==
    ASSUME TypeOK, NEW q \in Requests, AttachmentStep(q), UNCHANGED sharingVars,
           UNCHANGED artifactVars
    PROVE  TypeOK'
<1>1. CASE CreateAttachment(q)
  <2>1. attachment' \in [status : {"none", "pending", "ready"}, text : Lines,
                         linked : BOOLEAN]
    <3>1. PICK l \in {FALSE, conv} :
             attachment' = [status |-> "pending", text |-> None, linked |-> l]
      BY <1>1 DEF CreateAttachment
    <3> QED
      BY <3>1 DEF TypeOK, Files, Lines
  <2> QED
    BY <1>1, <2>1, CreateAttachmentMoves
    DEF TypeOK, CreateAttachment, sharingVars, artifactVars
<1>2. CASE OpenUploadSession(q) \/ ForgetSession(q) \/ LinkToConversation(q)
  BY <1>2, LastSteps
  DEF TypeOK, OpenUploadSession, ForgetSession, LinkToConversation, sharingVars, artifactVars
<1>3. CASE BeginUpload(q) \/ BeginComplete(q)
  BY <1>3, BeginUploadMoves, BeginCompleteMoves
  DEF TypeOK, BeginUpload, BeginComplete, sharingVars, artifactVars, attachmentVars
<1>4. CASE PutObject(q)
  BY <1>4, LastSteps DEF TypeOK, PutObject, sharingVars, artifactVars, Files, Objects
<1>5. CASE MarkReady(q)
  <2>1. req' \in [Requests -> States] /\ req[q].text \in Lines
    BY <1>5, MarkReadyMoves DEF Texts
  <2> QED
    BY <1>5, <2>1 DEF TypeOK, MarkReady, sharingVars, artifactVars
<1>6. CASE ExtractText(q)
  BY <1>6, ExtractTextMoves DEF TypeOK, sharingVars, artifactVars
<1> QED
  BY <1>1, <1>2, <1>3, <1>4, <1>5, <1>6 DEF AttachmentStep

\* So does every step.
LEMMA NextTypeOK == TypeOK /\ VersionInv /\ [Next]_vars => TypeOK'
<1> SUFFICES ASSUME TypeOK, VersionInv, [Next]_vars PROVE TypeOK'
  OBVIOUS
<1>1. ASSUME NEW q \in Requests, Abandon(q) PROVE TypeOK'
  BY <1>1, LastSteps DEF TypeOK, Abandon, Fail, sharingVars, attachmentVars
<1>2. ASSUME ChangeLimit, UNCHANGED artifactVars, UNCHANGED attachmentVars PROVE TypeOK'
  BY <1>2, SharingAssumption
  DEF TypeOK, ChangeLimit, requestVars, members, artifactVars, attachmentVars
<1>3. ASSUME SessionExpires, UNCHANGED sharingVars, UNCHANGED artifactVars PROVE TypeOK'
  BY <1>3 DEF TypeOK, SessionExpires, requestVars, sharingVars, artifactVars
<1>4. ASSUME DeleteConversation PROVE TypeOK'
  <2>1. versions' \in Seq(Requests) /\ artifact' \in [version : Nat, files : Files]
    <3>1. NoArtifact \in [version : Nat, files : Files]
      BY DEF NoArtifact, Files
    <3> QED
      BY <1>4, <3>1 DEF DeleteConversation, DropArtifact
  <2>2. /\ share' \in [active : BOOLEAN, collab : BOOLEAN, code : Answers]
        /\ collaborators' \in SUBSET Users /\ IsFiniteSet(collaborators')
        /\ authors' \in SUBSET (Users \cup {Owner}) /\ meant' \in Answers
    BY <1>4, FS_EmptySet DEF DeleteConversation, DropShare, NoShare, Answers
  <2>3. attachment' \in [status : {"none", "pending", "ready"}, text : Lines,
                         linked : BOOLEAN]
    BY <1>4 DEF DeleteConversation, UnlinkAttachment, TypeOK
  <2> QED
    BY <1>4, <2>1, <2>2, <2>3
    DEF TypeOK, DeleteConversation, DropShare, DropArtifact, UnlinkAttachment
<1>5. ASSUME UNCHANGED vars PROVE TypeOK'
  BY <1>5 DEF TypeOK, vars, requestVars, sharingVars, artifactVars, attachmentVars
<1> QED
  BY <1>1, <1>2, <1>3, <1>4, <1>5, SharingTypeOK, ArtifactTypeOK, AttachmentTypeOK DEF Next

-----------------------------------------------------------------------------
(* Steps that do not concern a part of the invariant.                      *)

\* A request that does one of these after the step is where it was before.
Kept(ops) == \A q \in Requests : req'[q].op \in ops => req'[q] = req[q]

\* A step that writes no row of the share and begins or moves no save.
LEMMA ShareQuiet ==
    ASSUME ShareInv, UNCHANGED <<conv, share, meant, savesCrossed>>, Kept({"save"})
    PROVE  ShareInv'
<1>1. \A q \in Requests : At(q, "save", "write")' =>
         At(q, "save", "write") /\ req'[q] = req[q]
  BY DEF Kept, At
<1>2. \A q \in Requests : At(q, "save", "write")' /\ req[q].stored = Meant(req[q]) =>
         (req[q].stored = Meant(req[q]))'
  BY <1>1 DEF Meant
<1> QED
  BY <1>1, <1>2 DEF ShareInv

\* A step that brings nobody to the insert.
LEMMA JoinQuiet ==
    ASSUME JoinInv,
           \A q \in Requests : req'[q].op \in {"join", "post"} /\ req'[q].at = "insert" =>
              req'[q] = req[q]
    PROVE  JoinInv'
BY DEF JoinInv

\* A step that leaves the artifact, its versions and their updates alone.
LEMMA ArtifactQuiet ==
    ASSUME VersionInv, NewestInv, UNCHANGED <<conv, artifactVars>>,
           Kept({"create", "version"}),
           \A q \in Requests : At(q, "version", "update") => req'[q] = req[q]
    PROVE  VersionInv' /\ NewestInv'
<1>1. \A q \in Requests : At(q, "version", "update")' <=> At(q, "version", "update")
  BY DEF Kept, At
<1>2. Updating' <=> Updating
  BY <1>1 DEF Updating
<1>3. VersionInv'
  BY DEF VersionInv, Kept, At, artifactVars
<1>4. NewestInv'
  <2>1. \A q \in Requests : At(q, "version", "update")' => req'[q] = req[q]
    BY <1>1
  <2> QED
    BY <1>1, <1>2, <2>1 DEF NewestInv, artifactVars
<1> QED
  BY <1>3, <1>4

\* A step that leaves the text, the object, uploads and completions alone.
LEMMA TextQuiet ==
    ASSUME TextInv, attachment'.status = attachment.status,
           attachment'.text = attachment.text, UNCHANGED <<object, uploadCrossed, readFailed>>,
           Kept({"upload", "complete"})
    PROVE  TextInv'
BY DEF TextInv, Ready, Kept, At, Extracts, FileText

\* What a request did before the step, and does after it.
LEMMA SharingOps ==
    ASSUME TypeOK, NEW q \in Requests, SharingStep(q)
    PROVE  /\ Others(q) /\ req[q].op \in {"idle", "save", "join", "post"}
           /\ req'[q].op \in {"save", "join", "post", "over"}
<1>1. CASE BeginSave(q) \/ BeginJoin(q) \/ BeginOwnerPost(q)
  BY <1>1, BeginSaveMoves, BeginJoinMoves, BeginOwnerPostMoves
  DEF TypeOK, Idle, SaveRequest, Joins, OwnerPost
<1>2. CASE ReadShare(q) \/ WriteShare(q)
  BY <1>2, ReadShareMoves, WriteShareMoves DEF SaveRequest, Writes, Over
<1>3. CASE CheckCode(q)
  BY <1>3, CheckCodeMoves DEF Joins, Over
<1>4. CASE CountCollaborators(q) \/ InsertCollaborator(q) \/ PostMessage(q)
  BY <1>4, CountMoves, InsertMoves, PostMoves DEF Entries, Over
<1> QED
  BY <1>1, <1>2, <1>3, <1>4 DEF SharingStep

\* The same for a request that works on the artifact.
LEMMA ArtifactOps ==
    ASSUME TypeOK, NEW q \in Requests, ArtifactStep(q)
    PROVE  /\ Others(q) /\ req[q].op \in {"idle", "create", "version"}
           /\ req'[q].op \in {"create", "version", "over"}
<1>1. CASE CreateArtifact(q) \/ BeginVersion(q)
  BY <1>1, CreateArtifactMoves, BeginVersionMoves DEF TypeOK, Idle
<1>2. CASE StoreFirstVersion(q)
  BY <1>2, LastSteps DEF StoreFirstVersion, At, TypeOK, Over
<1>3. CASE ReadNextVersion(q)
  BY <1>3, ReadNextVersionMoves
<1>4. CASE InsertVersion(q) \/ UpdateArtifact(q)
  BY <1>4, InsertVersionMoves, UpdateArtifactMoves DEF Numbers, Over
<1> QED
  BY <1>1, <1>2, <1>3, <1>4 DEF ArtifactStep

\* And for one that works on the attachment.
LEMMA AttachmentOps ==
    ASSUME TypeOK, NEW q \in Requests, AttachmentStep(q)
    PROVE  /\ Others(q) /\ req[q].op \in {"idle", "attach", "upload", "complete"}
           /\ req'[q].op \in {"attach", "upload", "complete", "over"}
<1>1. CASE CreateAttachment(q) \/ BeginUpload(q) \/ BeginComplete(q)
  BY <1>1, CreateAttachmentMoves, BeginUploadMoves, BeginCompleteMoves DEF TypeOK, Idle
<1>2. CASE OpenUploadSession(q) \/ PutObject(q) \/ ForgetSession(q) \/ LinkToConversation(q)
  <2>1. Others(q) /\ req'[q] = Over
    BY <1>2, LastSteps DEF TypeOK
  <2>2. req[q].op \in {"attach", "upload", "complete"} \/ req[q] = Idle
    BY <1>2 DEF OpenUploadSession, PutObject, ForgetSession, LinkToConversation, At
  <2> QED
    BY <2>1, <2>2 DEF Over, Idle
<1>3. CASE MarkReady(q)
  BY <1>3, MarkReadyMoves DEF Texts
<1>4. CASE ExtractText(q)
  <2>1. Others(q) /\ req[q].op = "complete" /\ (req'[q] \in Texts \/ req'[q] = Over)
    BY <1>4, ExtractTextMoves
  <2> QED
    BY <2>1 DEF Texts, Over
<1> QED
  BY <1>1, <1>2, <1>3, <1>4 DEF AttachmentStep

-----------------------------------------------------------------------------
(* The share.                                                              *)

\* What a save reads is what it means, while the row says what is meant.
LEMMA ReadShareKeeps ==
    ASSUME TypeOK, ShareInv, NEW q \in Requests, ReadShare(q)
    PROVE  ShareInv'
<1>1. UNCHANGED <<conv, share, meant, savesCrossed>>
  BY DEF ReadShare, sharingVars
<1>2. /\ Others(q) /\ req[q] \in SaveRequest /\ req'[q].collab = req[q].collab
      /\ req'[q].code = req[q].code /\ req'[q].stored = StoredCode(req[q])
  BY ReadShareMoves
<1>3. ASSUME conv, ~savesCrossed, NEW p \in Requests, At(p, "save", "write")'
      PROVE  (req[p].stored = Meant(req[p]))'
  <2>1. share.code = meant
    BY <1>3 DEF ShareInv
  <2>2. CASE p = q
    <3>1. StoredCode(req[q]) = Meant(req[q])
      BY <1>2, <2>1 DEF StoredCode, Meant, SaveRequest
    <3>2. Meant(req[q])' = Meant(req[q])
      BY <1>1, <1>2 DEF Meant
    <3> QED
      BY <1>2, <2>2, <3>1, <3>2
  <2>3. CASE p # q
    <3>1. req'[p] = req[p] /\ At(p, "save", "write")
      BY <1>2, <1>3, <2>3 DEF Others, At
    <3> QED
      BY <1>1, <1>3, <3>1 DEF ShareInv, Meant
  <2> QED
    BY <2>2, <2>3
<1> QED
  BY <1>1, <1>3 DEF ShareInv

\* A save that no other was about to follow leaves the row as it is meant.
LEMMA WriteShareKeeps ==
    ASSUME TypeOK, ShareInv, NEW q \in Requests, WriteShare(q)
    PROVE  ShareInv'
<1>1. Others(q) /\ req[q] \in Writes /\ At(q, "save", "write") /\ req'[q] = Over
  BY WriteShareMoves DEF WriteShare
<1>2. CASE ~conv
  <2>1. UNCHANGED <<conv, share, meant, savesCrossed>>
    BY <1>2 DEF WriteShare
  <2>2. Kept({"save"})
    BY <1>1 DEF Kept, Others, Over
  <2> QED
    BY <2>1, <2>2, ShareQuiet
<1>3. CASE conv
  <2>1. /\ share'.code = req[q].stored /\ meant' = Meant(req[q]) /\ conv'
        /\ savesCrossed' = (savesCrossed \/
              \E p \in Requests \ {q} : At(p, "save", "write"))
    BY <1>3 DEF WriteShare
  <2>2. ASSUME ~savesCrossed'
        PROVE  /\ share'.code = meant'
               /\ \A p \in Requests : ~At(p, "save", "write")'
    <3>1. ~savesCrossed /\ \A p \in Requests \ {q} : ~At(p, "save", "write")
      BY <2>1, <2>2
    <3>2. req[q].stored = Meant(req[q])
      BY <1>1, <1>3, <3>1 DEF ShareInv
    <3>3. \A p \in Requests : ~At(p, "save", "write")'
      BY <1>1, <3>1 DEF Others, At, Over
    <3> QED
      BY <2>1, <3>2, <3>3
  <2> QED
    BY <2>1, <2>2 DEF ShareInv
<1> QED
  BY <1>2, <1>3 DEF TypeOK

\* The steps on the share keep ShareInv.
LEMMA SharingShare ==
    ASSUME TypeOK, ShareInv, NEW q \in Requests, SharingStep(q)
    PROVE  ShareInv'
<1>1. CASE BeginSave(q)
  <2>1. /\ Others(q) /\ req'[q] \in SaveRequest
        /\ UNCHANGED <<conv, share, meant, savesCrossed>>
    BY <1>1, BeginSaveMoves DEF TypeOK, BeginSave, sharingVars
  <2>2. \A p \in Requests : At(p, "save", "write")' =>
           At(p, "save", "write") /\ req'[p] = req[p]
    BY <2>1 DEF At, Others, SaveRequest
  <2>3. \A p \in Requests : At(p, "save", "write")' /\ req[p].stored = Meant(req[p]) =>
           (req[p].stored = Meant(req[p]))'
    BY <2>1, <2>2 DEF Meant
  <2> QED
    BY <2>1, <2>2, <2>3 DEF ShareInv
<1>2. CASE BeginJoin(q) \/ BeginOwnerPost(q) \/ CheckCode(q) \/ CountCollaborators(q)
           \/ InsertCollaborator(q) \/ PostMessage(q)
  <2>1. UNCHANGED <<conv, share, meant, savesCrossed>>
    BY <1>2 DEF BeginJoin, BeginOwnerPost, CheckCode, CountCollaborators,
       InsertCollaborator, PostMessage, sharingVars
  <2>2. Others(q) /\ req'[q].op # "save"
    BY <1>2, BeginJoinMoves, BeginOwnerPostMoves, CheckCodeMoves, CountMoves, InsertMoves,
       PostMoves DEF TypeOK, Joins, OwnerPost, Entries, Over
  <2> QED
    BY <2>1, <2>2, ShareQuiet DEF Kept, Others
<1>3. CASE ReadShare(q)
  BY <1>3, ReadShareKeeps
<1>4. CASE WriteShare(q)
  BY <1>4, WriteShareKeeps
<1> QED
  BY <1>1, <1>2, <1>3, <1>4 DEF SharingStep

\* Only the count leads to the insert.
LEMMA SharingJoin ==
    ASSUME TypeOK, JoinInv, NEW q \in Requests, SharingStep(q)
    PROVE  JoinInv'
<1>1. CASE CountCollaborators(q)
  BY <1>1, CountMoves DEF JoinInv, Others
<1>2. CASE ~CountCollaborators(q)
  <2>1. Others(q) /\ ~(req'[q].op \in {"join", "post"} /\ req'[q].at = "insert")
    <3>1. CASE BeginSave(q) \/ BeginJoin(q) \/ BeginOwnerPost(q)
      BY <3>1, BeginSaveMoves, BeginJoinMoves, BeginOwnerPostMoves
      DEF TypeOK, SaveRequest, Joins, OwnerPost
    <3>2. CASE ReadShare(q) \/ WriteShare(q) \/ CheckCode(q)
      BY <3>2, ReadShareMoves, WriteShareMoves, CheckCodeMoves DEF Writes, Joins, Over
    <3>3. CASE InsertCollaborator(q) \/ PostMessage(q)
      BY <3>3, InsertMoves, PostMoves DEF Over
    <3> QED
      BY <1>2, <3>1, <3>2, <3>3 DEF SharingStep
  <2> QED
    BY <2>1, JoinQuiet DEF Others
<1> QED
  BY <1>1, <1>2

-----------------------------------------------------------------------------
(* The artifact.                                                           *)

\* The first version of an artifact is a version.
LEMMA FirstIsSome == \A q : [version |-> 1, files |-> q] # NoArtifact
<1> SUFFICES ASSUME NEW q, [version |-> 1, files |-> q] = NoArtifact PROVE FALSE
  OBVIOUS
<1>1. [version |-> 1, files |-> q].version = 1 /\ NoArtifact.version = 0
  BY DEF NoArtifact
<1> QED
  BY <1>1

\* The artifact is made where there was none.
LEMMA CreateKeeps ==
    ASSUME TypeOK, VersionInv, NEW q \in Requests, CreateArtifact(q)
    PROVE  VersionInv' /\ NewestInv'
<1>1. /\ conv /\ artifact = NoArtifact /\ ~published /\ UNCHANGED <<conv, versions, published>>
      /\ artifact' = [version |-> 1, files |-> q]
      /\ Len(versions) = 0
  BY DEF CreateArtifact, VersionInv
<1>2. Others(q) /\ req'[q] = [op |-> "create", at |-> "version"]
  BY CreateArtifactMoves DEF TypeOK
<1>3. \A p \in Requests : req[p].op # "version" /\ ~At(p, "create", "version")
  BY <1>1, FirstIsSome DEF VersionInv
<1>4. \A p \in Requests : req'[p].op # "version" /\ (At(p, "create", "version")' => p = q)
  BY <1>2, <1>3 DEF At, Others
<1>5. artifact' # NoArtifact
  BY <1>1 DEF NoArtifact
<1>6. VersionInv'
  BY <1>1, <1>4, <1>5 DEF VersionInv, At
<1>7. NewestInv'
  BY <1>1, <1>4 DEF NewestInv, At
<1> QED
  BY <1>6, <1>7

\* The first version is stored by the request that made the artifact.
LEMMA StoreFirstKeeps ==
    ASSUME TypeOK, VersionInv, NEW q \in Requests, StoreFirstVersion(q)
    PROVE  VersionInv' /\ NewestInv'
<1>1. /\ UNCHANGED <<conv, artifact>> /\ published' /\ At(q, "create", "version")
      /\ versions' \in {versions, FirstVersion(q)}
  BY DEF StoreFirstVersion
<1>2. Others(q) /\ req'[q] = Over
  BY LastSteps DEF TypeOK
<1>3. ~conv => artifact = NoArtifact
  BY DEF VersionInv
<1>4. artifact = NoArtifact => Len(versions') = 0
  BY <1>1 DEF VersionInv, FirstVersion
<1>5. CASE artifact = NoArtifact
  <2>1. \A p \in Requests : ~(At(p, "create", "version")' /\ conv)
    <3>1. \A p \in Requests : ~(At(p, "create", "version") /\ conv)
      BY <1>5, FirstIsSome DEF VersionInv
    <3> QED
      BY <1>2, <3>1 DEF At, Others, Over
  <2>2. VersionInv'
    BY <1>1, <1>4, <1>5, <2>1 DEF VersionInv
  <2>3. NewestInv'
    BY <1>1, <1>5 DEF NewestInv
  <2> QED
    BY <2>2, <2>3
<1>6. CASE artifact # NoArtifact
  <2>1. /\ conv /\ artifact = [version |-> 1, files |-> q] /\ ~published
        /\ Len(versions) = 0
    BY <1>1, <1>3, <1>6 DEF VersionInv, TypeOK
  <2>2. \A p \in Requests : req[p].op # "version" /\ (At(p, "create", "version") => p = q)
    BY <2>1 DEF VersionInv
  <2>3. \A p \in Requests : req'[p].op # "version" /\ ~At(p, "create", "version")'
    BY <1>2, <2>2 DEF At, Others, Over
  <2>4. Len(versions') = 0 \/ (Len(versions') = 1 /\ versions'[1] = q)
    BY <1>1, <1>6, <2>1 DEF FirstVersion
  <2>5. VersionInv'
    BY <1>1, <1>3, <1>4, <2>3 DEF VersionInv, At
  <2>6. NewestInv'
    BY <1>1, <2>1, <2>3, <2>4 DEF NewestInv, At
  <2> QED
    BY <2>5, <2>6
<1> QED
  BY <1>5, <1>6

\* A number that was read is the next one.
LEMMA ReadNextKeeps ==
    ASSUME TypeOK, VersionInv, NewestInv, NEW q \in Requests, ReadNextVersion(q)
    PROVE  VersionInv' /\ NewestInv'
<1>1. UNCHANGED <<conv, artifact, versions, published, updatesCrossed, updateLost>>
  BY DEF ReadNextVersion, artifactVars
<1>2. /\ Others(q) /\ req[q].op = "version" /\ req[q].at = "number"
      /\ req'[q] = [op |-> "version", at |-> "insert", number |-> Len(versions) + 1]
  BY ReadNextVersionMoves
<1>3. req'[q].op = "version" /\ req'[q].at = "insert" /\ req'[q].number = Len(versions) + 1
  BY <1>2
<1>4. \A p \in Requests : p # q => req'[p] = req[p]
  BY <1>2 DEF Others
<1>5. Len(versions) \in Nat
  BY DEF TypeOK
<1>6. VersionInv'
  BY <1>1, <1>2, <1>3, <1>4, <1>5 DEF VersionInv, At
<1>7. \A p \in Requests : /\ At(p, "version", "update")' <=> At(p, "version", "update")
                          /\ At(p, "version", "update") => req'[p] = req[p]
  BY <1>2, <1>3, <1>4 DEF At
<1>8. Updating' <=> Updating
  BY <1>7 DEF Updating
<1>9. NewestInv'
  BY <1>1, <1>7, <1>8 DEF NewestInv
<1> QED
  BY <1>6, <1>9

\* A version is added at the end, and is the newest then.
LEMMA InsertVersionKeeps ==
    ASSUME TypeOK, VersionInv, NewestInv, NEW q \in Requests, InsertVersion(q), TypeOK'
    PROVE  VersionInv' /\ NewestInv'
<1> DEFINE n == req[q].number
<1>1. /\ Others(q) /\ At(q, "version", "insert")
      /\ UNCHANGED <<conv, artifact, published, updateLost>>
  BY InsertVersionMoves DEF InsertVersion
<1>2. \A p \in Requests : p # q => req'[p] = req[p]
  BY <1>1 DEF Others
<1>3. CASE artifact # NoArtifact /\ n \notin DOMAIN versions
  <2>1. /\ req'[q] \in Numbers /\ req'[q].at = "update" /\ req'[q].number = n
    BY <1>3, InsertVersionMoves
  <2>2. /\ versions' = [m \in DOMAIN versions \cup {n} |-> IF m = n THEN q ELSE versions[m]]
        /\ updatesCrossed' = (updatesCrossed \/
              \E p \in Requests : At(p, "version", "update"))
    BY <1>3 DEF InsertVersion
  <2>3. n = Len(versions) + 1 /\ Len(versions) \in Nat
    BY <1>1, <1>3 DEF VersionInv, TypeOK
  <2>4. /\ Len(versions') = n /\ versions'[n] = q
        /\ \A m \in 1..Len(versions) : versions'[m] = versions[m]
    BY <2>2, <2>3, VersionAdded DEF TypeOK
  <2>5. req'[q].op = "version"
    BY <2>1 DEF Numbers
  <2> HIDE DEF n
  <2>6. VersionInv'
    <3>1. /\ ~conv' => artifact' = NoArtifact
          /\ artifact' # NoArtifact
      BY <1>1, <1>3 DEF VersionInv
    <3>2. published'
      BY <1>1 DEF VersionInv, At
    <3>3. \A p \in Requests : At(p, "create", "version")' /\ conv' =>
             artifact' = [version |-> 1, files |-> p] /\ ~published'
      BY <1>1, <1>2, <2>1 DEF VersionInv, At
    <3>4. ASSUME NEW p \in Requests
          PROVE  /\ At(p, "version", "insert")' => req'[p].number \in 1..Len(versions') + 1
                 /\ At(p, "version", "update")' => /\ req'[p].number \in 1..Len(versions')
                                                   /\ versions'[req'[p].number] = p
      <4>1. CASE p = q
        BY <2>1, <2>3, <2>4, <4>1 DEF At
      <4>2. CASE p # q
        <5>1. req'[p] = req[p]
          BY <1>2, <4>2
        <5>2. /\ At(p, "version", "insert") => req[p].number \in 1..Len(versions) + 1
              /\ At(p, "version", "update") => /\ req[p].number \in 1..Len(versions)
                                               /\ versions[req[p].number] = p
          BY <1>3 DEF VersionInv
        <5> QED
          BY <2>3, <2>4, <5>1, <5>2 DEF At
      <4> QED
        BY <4>1, <4>2
    <3> QED
      BY <3>1, <3>2, <3>3, <3>4 DEF VersionInv
  <2>7. NewestInv'
    <3>1. SUFFICES ASSUME ~updatesCrossed'
                   PROVE  /\ Updating'
                          /\ \A p \in Requests : At(p, "version", "update")' =>
                                p = q /\ req'[p].number = Len(versions')
      BY DEF NewestInv
    <3>2. \A p \in Requests : ~At(p, "version", "update")
      BY <2>2, <3>1
    <3>3. At(q, "version", "update")'
      BY <2>1, <2>5 DEF At
    <3>4. \A p \in Requests : At(p, "version", "update")' => p = q
      BY <1>2, <3>2 DEF At
    <3> QED
      BY <2>1, <2>4, <3>3, <3>4 DEF Updating
  <2> QED
    BY <2>6, <2>7
<1>4. CASE ~(artifact # NoArtifact /\ n \notin DOMAIN versions)
  <2>1. UNCHANGED <<conv, artifactVars>> /\ req'[q] = Over
    BY <1>1, <1>4, InsertVersionMoves DEF InsertVersion, artifactVars
  <2>2. /\ Kept({"create", "version"})
        /\ \A p \in Requests : At(p, "version", "update") => req'[p] = req[p]
    BY <1>1, <1>2, <2>1 DEF Kept, Over, At
  <2> QED
    BY <2>1, <2>2, ArtifactQuiet
<1> QED
  BY <1>3, <1>4

\* The row shows the version of the save that has updated it.
LEMMA UpdateKeeps ==
    ASSUME TypeOK, VersionInv, NewestInv, NEW q \in Requests, UpdateArtifact(q)
    PROVE  VersionInv' /\ NewestInv'
<1>1. /\ Others(q) /\ req[q] \in Numbers /\ req'[q] = Over /\ At(q, "version", "update")
      /\ UNCHANGED <<conv, versions, published, updatesCrossed, updateLost>>
      /\ artifact' = IF artifact = NoArtifact THEN artifact
                     ELSE [version |-> req[q].number, files |-> q]
  BY UpdateArtifactMoves DEF UpdateArtifact
<1>2. /\ \A p \in Requests : p # q => req'[p] = req[p]
      /\ req'[q].op = "over"
  BY <1>1 DEF Others, Over
<1>3. published
  BY <1>1 DEF VersionInv, At
<1>4. CASE artifact = NoArtifact
  <2>1. artifact' = artifact
    BY <1>1, <1>4
  <2>2. VersionInv'
    BY <1>1, <1>2, <1>3, <1>4, <2>1 DEF VersionInv, At
  <2>3. NewestInv'
    BY <1>4, <2>1 DEF NewestInv
  <2> QED
    BY <2>2, <2>3
<1>5. CASE artifact # NoArtifact
  <2>1. /\ artifact' = [version |-> req[q].number, files |-> q]
        /\ req[q].number \in 1..Len(versions) /\ versions[req[q].number] = q
    BY <1>1, <1>5 DEF VersionInv
  <2>2. artifact' # NoArtifact /\ conv
    BY <1>5, <2>1 DEF NoArtifact, VersionInv
  <2>3. VersionInv'
    <3>1. \A p \in Requests : ~At(p, "create", "version")'
      BY <1>2, <1>3, <2>2 DEF VersionInv, At
    <3>2. \A p \in Requests :
             /\ At(p, "version", "insert")' => req'[p].number \in 1..Len(versions) + 1
             /\ At(p, "version", "update")' =>
                   req'[p].number \in 1..Len(versions) /\ versions[req'[p].number] = p
      BY <1>2, <1>5 DEF VersionInv, At
    <3> QED
      BY <1>1, <1>3, <2>2, <3>1, <3>2 DEF VersionInv
  <2>4. NewestInv'
    <3>1. SUFFICES ASSUME ~updateLost, ~updatesCrossed
                   PROVE  /\ \A p \in Requests : ~At(p, "version", "update")'
                          /\ artifact' = [version |-> Len(versions),
                                          files |-> versions[Len(versions)]]
      BY <1>1 DEF NewestInv
    <3>2. /\ req[q].number = Len(versions)
          /\ \A p \in Requests : At(p, "version", "update") => p = q
      BY <1>1, <1>5, <3>1 DEF NewestInv
    <3> QED
      BY <1>2, <2>1, <3>2 DEF At
  <2> QED
    BY <2>3, <2>4
<1> QED
  BY <1>4, <1>5

\* The steps on the artifact keep VersionInv and NewestInv.
LEMMA ArtifactVersions ==
    ASSUME TypeOK, VersionInv, NewestInv, NEW q \in Requests, ArtifactStep(q), TypeOK'
    PROVE  VersionInv' /\ NewestInv'
<1>1. CASE BeginVersion(q)
  <2>1. /\ Others(q) /\ req[q] = Idle /\ req'[q] = [op |-> "version", at |-> "number"]
        /\ UNCHANGED <<conv, artifact, versions, published, updatesCrossed, updateLost>>
        /\ published
    BY <1>1, BeginVersionMoves DEF TypeOK, BeginVersion, artifactVars
  <2>2. /\ \A p \in Requests : p # q => req'[p] = req[p]
        /\ req[q].op = "idle" /\ req'[q].op = "version" /\ req'[q].at = "number"
    BY <2>1 DEF Others, Idle
  <2>3. VersionInv'
    BY <2>1, <2>2 DEF VersionInv, At
  <2>4. \A p \in Requests : /\ At(p, "version", "update")' <=> At(p, "version", "update")
                            /\ At(p, "version", "update") => req'[p] = req[p]
    BY <2>2 DEF At
  <2>5. Updating' <=> Updating
    BY <2>4 DEF Updating
  <2>6. NewestInv'
    BY <2>1, <2>4, <2>5 DEF NewestInv
  <2> QED
    BY <2>3, <2>6
<1> QED
  BY <1>1, CreateKeeps, StoreFirstKeeps, ReadNextKeeps, InsertVersionKeeps, UpdateKeeps
  DEF ArtifactStep

-----------------------------------------------------------------------------
(* The attachment.                                                         *)

\* The steps on the attachment keep TextInv.
LEMMA AttachmentText ==
    ASSUME TypeOK, TextInv, NEW q \in Requests, AttachmentStep(q)
    PROVE  TextInv'
<1>1. CASE CreateAttachment(q)
  <2>1. /\ Others(q) /\ req'[q].op = "attach" /\ attachment'.status = "pending"
        /\ UNCHANGED <<object, uploadCrossed, readFailed>>
    <3>1. Others(q) /\ req'[q].op = "attach"
      BY <1>1, CreateAttachmentMoves DEF TypeOK
    <3>2. PICK l \in {FALSE, conv} :
             attachment' = [status |-> "pending", text |-> None, linked |-> l]
      BY <1>1 DEF CreateAttachment
    <3> QED
      BY <1>1, <3>1, <3>2 DEF CreateAttachment
  <2> QED
    BY <2>1 DEF TextInv, Extracts, FileText, Ready, At, Others
<1>2. CASE OpenUploadSession(q) \/ ForgetSession(q) \/ LinkToConversation(q)
  <2>1. Others(q) /\ req'[q].op = "over"
    BY <1>2, LastSteps DEF TypeOK, Over
  <2>2. /\ attachment'.status = attachment.status /\ attachment'.text = attachment.text
        /\ UNCHANGED <<object, uploadCrossed, readFailed>>
    BY <1>2 DEF OpenUploadSession, ForgetSession, LinkToConversation, TypeOK
  <2> QED
    BY <2>1, <2>2, TextQuiet DEF Kept, Others
<1>3. CASE BeginUpload(q)
  <2>1. /\ Others(q) /\ req'[q].op = "upload" /\ Pending
        /\ UNCHANGED <<attachment, object, uploadCrossed, readFailed>>
    BY <1>3, BeginUploadMoves DEF TypeOK, BeginUpload, MayUpload, attachmentVars
  <2> QED
    BY <2>1 DEF TextInv, Extracts, FileText, Ready, Pending, At, Others
<1>4. CASE PutObject(q)
  <2>1. /\ Others(q) /\ req'[q].op = "over" /\ At(q, "upload", "put")
        /\ uploadCrossed' = (uploadCrossed \/
              \E p \in Requests : At(p, "complete", "update"))
        /\ UNCHANGED attachment
    BY <1>4, LastSteps DEF TypeOK, PutObject, Over
  <2>2. ASSUME ~uploadCrossed'
        PROVE  ~Ready' /\ \A p \in Requests : ~At(p, "complete", "update")'
    <3>1. ~uploadCrossed /\ \A p \in Requests : ~At(p, "complete", "update")
      BY <2>1, <2>2
    <3> QED
      BY <2>1, <3>1 DEF TextInv, Extracts, FileText, Ready, At, Others
  <2> QED
    BY <2>2 DEF TextInv
<1>5. CASE BeginComplete(q)
  <2>1. /\ Others(q) /\ req'[q].op = "complete" /\ req'[q].at = "extract"
        /\ UNCHANGED <<attachment, object, uploadCrossed, readFailed>>
    BY <1>5, BeginCompleteMoves DEF TypeOK, BeginComplete, attachmentVars
  <2> QED
    BY <2>1 DEF TextInv, Extracts, FileText, Ready, At, Others
<1>6. CASE ExtractText(q)
  <2>1. /\ Others(q) /\ UNCHANGED <<attachment, object, uploadCrossed>>
        /\ \/ req'[q] \in Texts /\ req'[q].at = "update" /\ req'[q].text \in Extracts'
           \/ req'[q] = Over
        /\ readFailed' \in {readFailed, TRUE}
    BY <1>6, ExtractTextMoves
  <2>2. Extracts \subseteq Extracts'
    <3>1. readFailed => readFailed'
      BY <2>1
    <3>2. FileText' = FileText
      BY <2>1 DEF FileText
    <3> QED
      BY <3>1, <3>2 DEF Extracts
  <2>3. \/ req'[q].op = "complete" /\ req'[q].at = "update" /\ req'[q].text \in Extracts'
        \/ req'[q].op = "over"
    BY <2>1 DEF Texts, Over
  <2> QED
    BY <2>1, <2>2, <2>3 DEF TextInv, Ready, At, Others
<1>7. CASE MarkReady(q)
  <2>1. /\ Others(q) /\ req'[q].at = "forget" /\ At(q, "complete", "update")
        /\ attachment'.text = req[q].text /\ UNCHANGED <<object, readFailed>>
        /\ uploadCrossed' = (uploadCrossed \/ \E p \in Requests : At(p, "upload", "put"))
    BY <1>7, MarkReadyMoves DEF MarkReady, TypeOK
  <2>2. ASSUME ~uploadCrossed'
        PROVE  /\ \A p \in Requests : At(p, "complete", "update")' => req'[p].text \in Extracts'
               /\ attachment'.text \in Extracts'
               /\ \A p \in Requests : ~At(p, "upload", "put")'
    <3>1. ~uploadCrossed /\ \A p \in Requests : ~At(p, "upload", "put")
      BY <2>1, <2>2
    <3> QED
      BY <2>1, <3>1 DEF TextInv, Extracts, FileText, At, Others
  <2> QED
    BY <2>1, <2>2 DEF TextInv
<1> QED
  BY <1>1, <1>2, <1>3, <1>4, <1>5, <1>6, <1>7 DEF AttachmentStep

-----------------------------------------------------------------------------
(* The invariant of the whole.                                             *)

\* The invariant holds to begin with.
LEMMA InitIInv == Init => IInv
<1> SUFFICES ASSUME Init PROVE IInv
  OBVIOUS
<1>1. /\ conv = TRUE /\ req = [q \in Requests |-> Idle] /\ faults = 0
      /\ share = NoShare /\ collaborators = {} /\ authors = {} /\ limit \in 0..MaxLimit
      /\ meant = None /\ savesCrossed = FALSE
      /\ artifact = NoArtifact /\ versions = <<>> /\ published = FALSE
      /\ updatesCrossed = FALSE /\ updateLost = FALSE
      /\ attachment = NoAttachment /\ session = FALSE /\ object = None
      /\ uploadCrossed = FALSE /\ readFailed = FALSE
  BY DEF Init, RequestsInit, SharingInit, ArtifactInit, AttachmentInit
<1>2. Idle \in States /\ \A q \in Requests : req[q].op = "idle" /\ req[q].at = "start"
  BY <1>1 DEF States, Plain, Idle
<1>3. /\ NoShare \in [active : BOOLEAN, collab : BOOLEAN, code : Answers]
      /\ NoArtifact \in [version : Nat, files : Files]
      /\ NoAttachment \in [status : {"none", "pending", "ready"}, text : Lines,
                           linked : BOOLEAN]
      /\ NoShare.code = None /\ ~Ready /\ IsFiniteSet({})
  BY <1>1, FS_EmptySet DEF NoShare, NoArtifact, NoAttachment, Answers, Files, Lines, Ready
<1>4. TypeOK
  <2>1. versions \in Seq(Requests) /\ limit \in Nat /\ req \in [Requests -> States]
    BY <1>1, <1>2, SharingAssumption
  <2>2. meant \in Answers /\ object \in Objects
    BY <1>1 DEF Answers, Files, Objects
  <2> QED
    BY <1>1, <1>3, <2>1, <2>2 DEF TypeOK
<1>5. ShareInv /\ JoinInv /\ TextInv
  BY <1>1, <1>2, <1>3 DEF ShareInv, JoinInv, TextInv, At
<1>6. VersionInv /\ NewestInv
  BY <1>1, <1>2 DEF VersionInv, NewestInv, At
<1> QED
  BY <1>4, <1>5, <1>6 DEF IInv

\* A step on the share leaves the artifact and the attachment alone.
LEMMA SharingIInv ==
    ASSUME IInv, TypeOK', NEW q \in Requests, SharingStep(q), UNCHANGED artifactVars,
           UNCHANGED attachmentVars
    PROVE  IInv'
<1>1. /\ Others(q) /\ req[q].op \in {"idle", "save", "join", "post"}
      /\ req'[q].op \in {"save", "join", "post", "over"}
  BY SharingOps DEF IInv
<1>2. UNCHANGED conv
  BY DEF SharingStep, BeginSave, ReadShare, WriteShare, BeginJoin, BeginOwnerPost,
     CheckCode, CountCollaborators, InsertCollaborator, PostMessage
<1>3. VersionInv' /\ NewestInv'
  BY <1>1, <1>2, ArtifactQuiet DEF IInv, Kept, Others, At
<1>4. TextInv'
  BY <1>1, TextQuiet DEF IInv, Kept, Others, attachmentVars
<1>5. ShareInv' /\ JoinInv'
  BY SharingShare, SharingJoin DEF IInv
<1> QED
  BY <1>3, <1>4, <1>5 DEF IInv

\* A step on the artifact leaves the share and the attachment alone.
LEMMA ArtifactIInv ==
    ASSUME IInv, TypeOK', NEW q \in Requests, ArtifactStep(q), UNCHANGED sharingVars,
           UNCHANGED attachmentVars
    PROVE  IInv'
<1>1. /\ Others(q) /\ req[q].op \in {"idle", "create", "version"}
      /\ req'[q].op \in {"create", "version", "over"}
  BY ArtifactOps DEF IInv
<1>2. UNCHANGED conv
  BY DEF ArtifactStep, CreateArtifact, StoreFirstVersion, BeginVersion, ReadNextVersion,
     InsertVersion, UpdateArtifact
<1>3. VersionInv' /\ NewestInv'
  BY ArtifactVersions DEF IInv
<1>4. TextInv'
  BY <1>1, TextQuiet DEF IInv, Kept, Others, attachmentVars
<1>5. ShareInv'
  BY <1>1, <1>2, ShareQuiet DEF IInv, Kept, Others, sharingVars
<1>6. JoinInv'
  BY <1>1, JoinQuiet DEF IInv, Others
<1> QED
  BY <1>3, <1>4, <1>5, <1>6 DEF IInv

\* A step on the attachment leaves the share and the artifact alone.
LEMMA AttachmentIInv ==
    ASSUME IInv, TypeOK', NEW q \in Requests, AttachmentStep(q), UNCHANGED sharingVars,
           UNCHANGED artifactVars
    PROVE  IInv'
<1>1. /\ Others(q) /\ req[q].op \in {"idle", "attach", "upload", "complete"}
      /\ req'[q].op \in {"attach", "upload", "complete", "over"}
  BY AttachmentOps DEF IInv
<1>2. UNCHANGED conv
  BY DEF AttachmentStep, CreateAttachment, OpenUploadSession, BeginUpload, PutObject,
     BeginComplete, ExtractText, MarkReady, ForgetSession, LinkToConversation
<1>3. VersionInv' /\ NewestInv'
  BY <1>1, <1>2, ArtifactQuiet DEF IInv, Kept, Others, At
<1>4. TextInv'
  BY AttachmentText DEF IInv
<1>5. ShareInv'
  BY <1>1, <1>2, ShareQuiet DEF IInv, Kept, Others, sharingVars
<1>6. JoinInv'
  BY <1>1, JoinQuiet DEF IInv, Others
<1> QED
  BY <1>3, <1>4, <1>5, <1>6 DEF IInv

\* A request that ends early: only an update of the artifact is missed.
LEMMA AbandonIInv ==
    ASSUME IInv, TypeOK', NEW q \in Requests, Abandon(q)
    PROVE  IInv'
<1>1. /\ Others(q) /\ req'[q].op = "over"
      /\ UNCHANGED <<conv, sharingVars, artifact, versions, published, updatesCrossed,
                     attachmentVars>>
      /\ updateLost' = (updateLost \/ At(q, "version", "update"))
  BY LastSteps DEF IInv, TypeOK, Abandon, Over
<1>2. Kept({"create", "version"}) /\ Kept({"save"}) /\ Kept({"upload", "complete"})
  BY <1>1 DEF Kept, Others
<1>3. ShareInv'
  BY <1>1, <1>2, ShareQuiet DEF IInv, sharingVars
<1>4. JoinInv'
  BY <1>1, JoinQuiet DEF IInv, Others
<1>5. TextInv'
  BY <1>1, <1>2, TextQuiet DEF IInv, attachmentVars
<1>6. VersionInv'
  BY <1>1 DEF IInv, VersionInv, Others, At
<1>7. NewestInv'
  <2>1. CASE At(q, "version", "update")
    BY <1>1, <2>1 DEF NewestInv
  <2>2. CASE ~At(q, "version", "update")
    <3>1. updateLost' = updateLost
      BY <1>1, <2>2 DEF IInv, TypeOK
    <3>2. \A p \in Requests : At(p, "version", "update") => req'[p] = req[p]
      BY <1>1, <2>2 DEF Others
    <3> QED
      BY <1>1, <1>2, <3>1, <3>2, ArtifactQuiet DEF IInv, artifactVars
  <2> QED
    BY <2>1, <2>2
<1> QED
  BY <1>3, <1>4, <1>5, <1>6, <1>7 DEF IInv

\* The deletion takes the share and the artifact along; the attachment stays.
LEMMA DeleteIInv ==
    ASSUME IInv, TypeOK', DeleteConversation
    PROVE  IInv'
<1>1. /\ ~conv' /\ share' = NoShare /\ meant' = None /\ UNCHANGED <<req, published>>
      /\ artifact' = NoArtifact /\ Len(versions') = 0
      /\ attachment' = [attachment EXCEPT !.linked = FALSE]
      /\ UNCHANGED <<object, uploadCrossed, readFailed>>
  BY DEF DeleteConversation, DropShare, DropArtifact, UnlinkAttachment
<1>2. ShareInv' /\ JoinInv'
  BY <1>1 DEF IInv, ShareInv, JoinInv
<1>3. VersionInv' /\ NewestInv'
  BY <1>1 DEF IInv, VersionInv, NewestInv
<1>4. attachment'.status = attachment.status /\ attachment'.text = attachment.text
  BY <1>1 DEF IInv, TypeOK
<1>5. TextInv'
  BY <1>1, <1>4, TextQuiet DEF IInv, Kept
<1> QED
  BY <1>2, <1>3, <1>5 DEF IInv

\* Every step keeps the invariant.
LEMMA NextIInv == IInv /\ [Next]_vars => IInv'
<1> SUFFICES ASSUME IInv, [Next]_vars PROVE IInv'
  OBVIOUS
<1>1. TypeOK'
  BY NextTypeOK DEF IInv
<1>2. ASSUME UNCHANGED <<conv, req, share, meant, savesCrossed, artifactVars, attachment,
                         object, uploadCrossed, readFailed>>
      PROVE  IInv'
  <2>1. ShareInv' /\ JoinInv'
    BY <1>2, ShareQuiet, JoinQuiet DEF IInv, Kept
  <2>2. VersionInv' /\ NewestInv'
    BY <1>2, ArtifactQuiet DEF IInv, Kept
  <2>3. TextInv'
    BY <1>2, TextQuiet DEF IInv, Kept
  <2> QED
    BY <1>1, <2>1, <2>2, <2>3 DEF IInv
<1>3. ASSUME ChangeLimit, UNCHANGED artifactVars, UNCHANGED attachmentVars PROVE IInv'
  BY <1>2, <1>3 DEF ChangeLimit, requestVars, attachmentVars
<1>4. ASSUME SessionExpires, UNCHANGED sharingVars, UNCHANGED artifactVars PROVE IInv'
  BY <1>2, <1>4 DEF SessionExpires, requestVars, sharingVars
<1>5. ASSUME UNCHANGED vars PROVE IInv'
  BY <1>2, <1>5 DEF vars, requestVars, sharingVars, attachmentVars
<1> QED
  BY <1>1, <1>3, <1>4, <1>5, SharingIInv, ArtifactIInv, AttachmentIInv, AbandonIInv,
     DeleteIInv DEF Next

\* What holds of the share, the artifact, the attachment and the requests that
\* work on them, whatever the order of their steps and wherever one ends early.
THEOREM ContentInvariant == Spec => []IInv
BY InitIInv, NextIInv, PTL DEF Spec

\* Every variable keeps its type, whatever the requests do at once.
THEOREM TypeCorrect == Spec => []TypeOK
<1>1. IInv => TypeOK
  BY DEF IInv
<1> QED
  BY <1>1, ContentInvariant, PTL

\* The preview shows the newest version, unless an update is to come, was lost,
\* or crossed another (handleCreateChatArtifactVersion).
THEOREM PreviewIsNewest == Spec => []ArtifactShowsNewest
<1>1. IInv => ArtifactShowsNewest
  <2> SUFFICES ASSUME IInv, artifact # NoArtifact, versions # <<>>, ~Updating, ~updateLost,
                      ~updatesCrossed
               PROVE  artifact = [version |-> Max(DOMAIN versions),
                                  files |-> versions[Max(DOMAIN versions)]]
    BY DEF ArtifactShowsNewest
  <2>1. Max(DOMAIN versions) = Len(versions) /\ Len(versions) # 0
    BY LargestNumber DEF IInv
  <2> QED
    BY <2>1 DEF IInv, NewestInv
<1> QED
  BY <1>1, ContentInvariant, PTL

\* The text of a ready attachment is that of the file there is, or the line with
\* its name when the file is empty or a read of it failed, unless an upload
\* crossed its completion (handleAttachmentUpload, extractAttachmentText).
THEOREM TextMatchesFile == Spec => []TextIsOfTheFile
<1>1. IInv => TextIsOfTheFile
  BY DEF IInv, TextInv, TextIsOfTheFile
<1> QED
  BY <1>1, ContentInvariant, PTL

-----------------------------------------------------------------------------
(* Who joins.                                                              *)

\* The only step that adds a collaborator.
LEMMA JoinStep ==
    ASSUME IInv, [Next]_vars, NEW u \in collaborators', u \notin collaborators
    PROVE  \E q \in Requests : InsertCollaborator(q) /\ req[q].user = u
                /\ collaborators' = collaborators \cup {u}
<1>1. PICK q \in Requests : SharingStep(q)
  BY DEF Next, ArtifactStep, AttachmentStep, Abandon, ChangeLimit, SessionExpires,
     DeleteConversation, DropShare, sharingVars, members, vars, requestVars
<1>2. InsertCollaborator(q)
  BY <1>1 DEF SharingStep, BeginSave, ReadShare, WriteShare, BeginJoin, BeginOwnerPost,
     CheckCode, CountCollaborators, PostMessage, sharingVars, members
<1>3. collaborators' = collaborators \cup {req[q].user}
  BY <1>2 DEF InsertCollaborator
<1> QED
  BY <1>2, <1>3

\* Whoever joins finds a place, unless the plan changed or another joined
\* since (EnsureConversationShareCollaborator).
THEOREM LimitIsKept == Spec => JoinsKeepLimit
<1>1. ASSUME IInv, [Next]_vars, NEW u \in collaborators' \ collaborators
      PROVE  \E q \in Requests :
                /\ req[q] # req'[q] /\ req[q].at = "insert" /\ req[q].user = u
                /\ \/ Cardinality(collaborators') <= limit
                   \/ req[q].limit # limit
                   \/ req[q].seen # collaborators
  <2>1. PICK q \in Requests : /\ InsertCollaborator(q) /\ req[q].user = u
                              /\ collaborators' = collaborators \cup {u}
    BY <1>1, JoinStep
  <2>2. /\ req[q] \in Entries /\ req[q].op \in {"join", "post"} /\ req[q].at = "insert"
        /\ req'[q].at \in {"end", "message"}
    BY <1>1, <2>1, InsertMoves DEF IInv
  <2>3. Cardinality(req[q].seen) < req[q].limit
    BY <1>1, <2>2 DEF IInv, JoinInv
  <2>4. /\ Cardinality(collaborators') = Cardinality(collaborators) + 1
        /\ Cardinality(collaborators) \in Nat
    BY <1>1, <2>1, FS_AddElement, FS_CardinalityType DEF IInv, TypeOK
  <2>5. limit \in Nat
    BY <1>1 DEF IInv, TypeOK
  <2>6. req[q].seen = collaborators /\ req[q].limit = limit =>
           Cardinality(collaborators') <= limit
    BY <2>3, <2>4, <2>5
  <2> QED
    BY <2>1, <2>2, <2>6
<1>2. IInv /\ [Next]_vars =>
         [\A u \in collaborators' \ collaborators :
            \E q \in Requests :
               /\ req[q] # req'[q] /\ req[q].at = "insert" /\ req[q].user = u
               /\ \/ Cardinality(collaborators') <= limit
                  \/ req[q].limit # limit
                  \/ req[q].seen # collaborators]_vars
  BY <1>1
<1> QED
  BY <1>2, ContentInvariant, PTL DEF Spec, JoinsKeepLimit

\* A code that was replaced lets nobody in, unless two saves overlapped
\* (handleUpsertConversationShare, ConversationShareAccessAllowed).
THEOREM ReplacedCodeIsRefused == Spec => OldCodeAdmitsNobody
<1>1. ASSUME IInv, [Next]_vars, NEW q \in Requests, req[q].at = "code", req'[q].at = "count"
      PROVE  req[q].code = meant \/ savesCrossed
  <2>1. PICK p \in Requests : SharingStep(p) \/ ArtifactStep(p) \/ AttachmentStep(p) \/ Abandon(p)
    BY <1>1 DEF Next, ChangeLimit, SessionExpires, DeleteConversation, vars, requestVars
  <2>2. CASE SharingStep(p)
    <3>1. p = q
      BY <1>1, <2>2, SharingOps DEF IInv, Others
    <3>2. CheckCode(q)
      <4>1. ~BeginSave(q) /\ ~BeginJoin(q) /\ ~BeginOwnerPost(q)
        BY <1>1, BeginSaveMoves, BeginJoinMoves, BeginOwnerPostMoves
        DEF IInv, TypeOK, Idle
      <4>2. ~ReadShare(q) /\ ~WriteShare(q)
        BY <1>1 DEF ReadShare, WriteShare, At
      <4>3. ~CountCollaborators(q) /\ ~InsertCollaborator(q) /\ ~PostMessage(q)
        BY <1>1 DEF CountCollaborators, InsertCollaborator, PostMessage, At
      <4> QED
        BY <2>2, <3>1, <4>1, <4>2, <4>3 DEF SharingStep
    <3>3. AccessAllowed(req[q].code)
      BY <1>1, <3>2, CheckCodeMoves DEF IInv, Over
    <3> QED
      BY <1>1, <3>3 DEF IInv, ShareInv, AccessAllowed, NoShare
  <2>3. req[q].op \in {"join", "post"}
    BY <1>1 DEF IInv, TypeOK, States, Plain, Idle, Over, SaveRequest, Writes, Joins, OwnerPost,
       Entries, Numbers, Texts
  <2>4. CASE ArtifactStep(p) \/ AttachmentStep(p)
    BY <1>1, <2>3, <2>4, ArtifactOps, AttachmentOps DEF IInv, Others
  <2>5. CASE Abandon(p)
    BY <1>1, <2>5, LastSteps DEF IInv, TypeOK, Abandon, Others, Over
  <2> QED
    BY <2>1, <2>2, <2>3, <2>4, <2>5
<1>2. IInv /\ [Next]_vars =>
         [\A q \in Requests :
            req[q].at = "code" /\ req'[q].at = "count" =>
               req[q].code = meant \/ savesCrossed]_vars
  BY <1>1
<1> QED
  BY <1>2, ContentInvariant, PTL DEF Spec, OldCodeAdmitsNobody
=============================================================================
