----------------------------- MODULE Attachments -----------------------------
(***************************************************************************)
(* The file of a citizen's message: WapiAttachmentProcessor.persist over   *)
(* the attachment functions of the store and the storage bucket, between   *)
(* the acquisition of the message and the commit of its turn.              *)
(*                                                                         *)
(* A message may be posted any number of times; every post is an execution *)
(* of its own, and the steps of different executions interleave.  Each     *)
(* call may be refused, and may take effect although its answer is lost.   *)
(* An execution uploads at most one object, under a fresh random name, and *)
(* creates at most one document, so objects and documents are named after  *)
(* their execution.                                                        *)
(***************************************************************************)
CONSTANTS
    Inbound,     \* messages that carry a file
    Posts,       \* executions of the edge function, one per post of a message
    NoDocument   \* no document

ASSUME AttachmentsAssumption == Inbound # {} /\ NoDocument \notin Posts

VARIABLES
    post,       \* what each execution holds in memory
    row,        \* support_runtime.attachments, by inbound_message_id
    documents,  \* public.support_documents: what the panel shows for review
    objects,    \* the storage bucket
    known,      \* the documents of the stored engine state
    told,       \* what the committed turn of a message said of its file
    unanswered  \* history: documents whose recording took effect, its answer lost

vars == <<post, row, documents, objects, known, told, unanswered>>

Stages == {"new", "look", "download", "upload", "record", "remove", "note", "turn", "done"}

Told == {"uncommitted", "nothing", "preserved", "not_stored"}

Executions == [at : Stages, input : Inbound, duplicate : BOOLEAN,
               received : Posts \cup {NoDocument}]

Rows == [status : {"NONE", "FAILED", "STORED"}, document : Posts \cup {NoDocument}]

TypeOK ==
    /\ post \in [Posts -> Executions]
    /\ row \in [Inbound -> Rows]
    /\ documents \in SUBSET Posts
    /\ objects \in SUBSET Posts
    /\ known \in SUBSET Posts
    /\ told \in [Inbound -> Told]
    /\ unanswered \in SUBSET Posts

NewPost == [at |-> "new", input |-> CHOOSE i \in Inbound : TRUE, duplicate |-> FALSE,
            received |-> NoDocument]

Init ==
    /\ post = [p \in Posts |-> NewPost]
    /\ row = [i \in Inbound |-> [status |-> "NONE", document |-> NoDocument]]
    /\ documents = {}
    /\ objects = {}
    /\ known = {}
    /\ told = [i \in Inbound |-> "uncommitted"]
    /\ unanswered = {}

At(p, stage) == post[p].at = stage
Becomes(p, rec) == post' = [post EXCEPT ![p] = rec]
Moves(p, stage) == Becomes(p, [post[p] EXCEPT !.at = stage])

\* persist returns, with a document or with a failure code.
Returns(p, document) ==
    Becomes(p, [post[p] EXCEPT !.at = "turn", !.received = document])

(***************************************************************************)
(* Before persist: acquireInbound                                          *)
(***************************************************************************)

\* A duplicate has its file persisted like any other post.
Acquire(p, i) ==
    /\ At(p, "new")
    /\ Becomes(p, [NewPost EXCEPT !.at = "look", !.input = i,
                                  !.duplicate = told[i] # "uncommitted"])
    /\ UNCHANGED <<row, documents, objects, known, told, unanswered>>

(***************************************************************************)
(* persist                                                                 *)
(***************************************************************************)

LookUp(p) ==
    LET r == row[post[p].input]
    IN  /\ At(p, "look")
        /\ \/ r.status = "STORED" /\ Returns(p, r.document)
           \/ r.status # "STORED" /\ Moves(p, "download")
        /\ UNCHANGED <<row, documents, objects, known, told, unanswered>>

Download(p) ==
    /\ At(p, "download")
    /\ \E stage \in {"upload", "note"} : Moves(p, stage)
    /\ UNCHANGED <<row, documents, objects, known, told, unanswered>>

\* Mutated form: the status of the answer to the upload is not looked at.
UploadUnchecked(p) ==
    /\ At(p, "upload")
    /\ objects' \in {objects, objects \cup {p}}
    /\ Moves(p, "record")
    /\ UNCHANGED <<row, documents, known, told, unanswered>>

\* Answered, refused, or done without an answer: then nothing removes it.
Upload(p) ==
    /\ At(p, "upload")
    /\ \/ objects' = objects \cup {p} /\ Moves(p, "record")
       \/ objects' \in {objects, objects \cup {p}} /\ Moves(p, "note")
    /\ UNCHANGED <<row, documents, known, told, unanswered>>

\* Mutated form: the function answers with the document of its caller.
StoredDocumentOfCaller(p) == p

\* The document support_runtime_store_attachment answers with.
StoredDocument(p) ==
    LET r == row[post[p].input] IN IF r.status = "STORED" THEN r.document ELSE p

\* Mutated form: the first version of a file does not stop a second one.
StoreAttachmentAgain(p) ==
    /\ row' = [row EXCEPT ![post[p].input] = [status |-> "STORED", document |-> p]]
    /\ documents' = documents \cup {p}

\* A file is stored once; a failure noted before is replaced.
StoreAttachment(p) ==
    LET r == row[post[p].input]
    IN  IF r.status = "STORED" THEN UNCHANGED <<row, documents>>
        ELSE /\ row' = [row EXCEPT ![post[p].input] = [status |-> "STORED", document |-> p]]
             /\ documents' = documents \cup {p}

Record(p) ==
    /\ At(p, "record")
    /\ StoreAttachment(p)
    /\ Returns(p, StoredDocument(p))
    /\ UNCHANGED <<objects, known, told, unanswered>>

RecordUnanswered(p) ==
    /\ At(p, "record")
    /\ StoreAttachment(p)
    /\ Moves(p, "remove")
    /\ unanswered' = unanswered \cup (documents' \ documents)
    /\ UNCHANGED <<objects, known, told>>

RecordRefused(p) ==
    /\ At(p, "record")
    /\ Moves(p, "remove")
    /\ UNCHANGED <<row, documents, objects, known, told, unanswered>>

\* The upload is undone, or the removal fails and is ignored.
Remove(p) ==
    /\ At(p, "remove")
    /\ objects' \in {objects, objects \ {p}}
    /\ Moves(p, "note")
    /\ UNCHANGED <<row, documents, known, told, unanswered>>

\* Mutated form: a stored file is marked as failed.
FailAttachmentAlways(p) ==
    row' = [row EXCEPT ![post[p].input] = [status |-> "FAILED", document |-> NoDocument]]

FailAttachment(p) ==
    IF row[post[p].input].status = "STORED" THEN UNCHANGED row
    ELSE row' = [row EXCEPT ![post[p].input] = [status |-> "FAILED", document |-> NoDocument]]

\* The answer of support_runtime_fail_attachment, and its error, are ignored:
\* persist reports a failure even if another execution has stored the file.
NoteFailure(p) ==
    /\ At(p, "note")
    /\ FailAttachment(p) \/ UNCHANGED row
    /\ Returns(p, NoDocument)
    /\ UNCHANGED <<documents, objects, known, told, unanswered>>

(***************************************************************************)
(* After persist: the turn                                                 *)
(***************************************************************************)

\* The reply starts with what became of the file; a turn that a person
\* answers, or that could not be interpreted, says nothing of it.
Announcement(p) ==
    {"nothing", IF post[p].received = NoDocument THEN "not_stored" ELSE "preserved"}

\* Mutated form: a file that was not received is given to the engine as well.
LearnedUnchecked(p) == {post[p].received}

\* The document that withReceivedDocument gives to the engine.
Learned(p) == {post[p].received} \ {NoDocument}

\* The first execution that commits decides; the others find its event.
CommitTurn(p) ==
    LET i == post[p].input
    IN  /\ At(p, "turn")
        /\ IF post[p].duplicate \/ told[i] # "uncommitted"
           THEN UNCHANGED <<known, told>>
           ELSE /\ known' = known \cup Learned(p)
                /\ \E t \in Announcement(p) : told' = [told EXCEPT ![i] = t]
        /\ Moves(p, "done")
        /\ UNCHANGED <<row, documents, objects, unanswered>>

\* The platform ends the execution, a call outside the try block fails, or the
\* commit is refused because another message has moved the conversation.
Dies(p) ==
    /\ ~ At(p, "new") /\ ~ At(p, "done")
    /\ Moves(p, "done")
    /\ UNCHANGED <<row, documents, objects, known, told, unanswered>>

Persists(p) ==
    \/ LookUp(p)
    \/ Download(p)
    \/ Upload(p)
    \/ Record(p)
    \/ RecordUnanswered(p)
    \/ RecordRefused(p)
    \/ Remove(p)
    \/ NoteFailure(p)

Next ==
    \/ \E p \in Posts, i \in Inbound : Acquire(p, i)
    \/ \E p \in Posts : Persists(p)
    \/ \E p \in Posts : CommitTurn(p)
    \/ \E p \in Posts : Dies(p)

Spec == Init /\ [][Next]_vars

(***************************************************************************)
(* Properties                                                              *)
(***************************************************************************)

\* However often a message is posted, the panel gets one document for its
\* file: the documents are those of the STORED rows, one each.
OneDocumentPerFile ==
    /\ documents = {row[i].document : i \in Inbound} \ {NoDocument}
    /\ \A i, j \in Inbound : row[i].document = row[j].document /\ row[i].status = "STORED" => i = j
    /\ \A i \in Inbound : row[i].status = "STORED" <=> row[i].document # NoDocument

\* A file that was stored stays stored, as the same document: no failure of a
\* slower execution and no later post takes it back.
StoredForGood ==
    [][\A i \in Inbound : row[i].status = "STORED" => row'[i] = row[i]]_vars

\* The engine knows a document only if it is the panel's document of a message
\* whose turn is committed, and the citizen is told that the file is preserved
\* only if the engine knows the document: a review can always be recorded.
KnownIsInPanel ==
    /\ \A d \in known : \E i \in Inbound : row[i].document = d /\ told[i] # "uncommitted"
    /\ \A i \in Inbound : told[i] = "preserved" => row[i].document \in known

\* A STORED row has its object, whoever fails, dies or removes an upload,
\* unless the answer to the recording that stored it was lost.
StoredHasObject ==
    \A i \in Inbound : row[i].status = "STORED" =>
        row[i].document \in objects \cup unanswered

\* "Arquivo recebido e preservado": the file the citizen was told is kept, is.
PreservedIsKept ==
    \A i \in Inbound : told[i] = "preserved" => row[i].document \in objects
=============================================================================
