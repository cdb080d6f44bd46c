---- MODULE AgreementRoom ----
(***************************************************************************)
(* The files and the conversation of an agreement: src/files/              *)
(* files.service.ts and src/agreement-chat/agreement-chat.service.ts.      *)
(*                                                                         *)
(* Objects live in the storage bucket, rows about them in files, and the   *)
(* two are written one after the other.  Content, names and sizes are left *)
(* out, and so is the order of messages and attachments.                   *)
(***************************************************************************)
EXTENDS Wallets

CONSTANTS Agreements,
          CreatedBy,       \* agreements.created_by
          ParticipantsOf,  \* agreement_participants
          MaxFiles,        \* bound: uploads
          MaxMessages      \* bound: messages

VARIABLES bucket,      \* objects, by the id their path ends in
          files,       \* files, by id: what agreement, if any, they belong to
          uploads,     \* history: uploads so far, which name the ids
          messages     \* agreement_messages with their attachments

roomVars == <<bucket, files, uploads, messages>>

FileIds == 1..MaxFiles

MessageIds == 1..MaxMessages

\* told, a history field: the upload answered with the id of the row.
File == [agreement : Agreements \cup {Nothing}, told : BOOLEAN]

Message == [agreement : Agreements, sender : Users, sent : SUBSET FileIds, twice : BOOLEAN,
            attached : SUBSET FileIds]

ASSUME RoomAssumption ==
    /\ CreatedBy \in [Agreements -> Users]
    /\ ParticipantsOf \in [Agreements -> SUBSET Addresses]
    /\ MaxFiles \in Nat
    /\ MaxMessages \in Nat
    /\ Nothing \notin Agreements \cup File \cup Message

RoomInit ==
    /\ bucket = {}
    /\ files = [f \in FileIds |-> Nothing]
    /\ uploads = 0
    /\ messages = [m \in MessageIds |-> Nothing]

assertAgreementAccess(u, g) == userCanAccessAgreement(u, CreatedBy[g], ParticipantsOf[g])

(***************************************************************************)
(* upload.                                                                 *)
(***************************************************************************)
Upload(r, u, g) ==
    /\ g # Nothing => assertAgreementAccess(u, g)
    /\ uploads < MaxFiles
    /\ uploads' = uploads + 1
    /\ Begin(r, [pc |-> "object", file |-> uploads + 1, agreement |-> g])
    /\ UNCHANGED <<bucket, files, messages, walletVars, accountVars>>

StoreObject(r) ==
    /\ At(r, "object")
    /\ bucket' = bucket \cup {call[r].file}
    /\ Await(r, [call[r] EXCEPT !.pc = "file_row"])
    /\ UNCHANGED <<files, uploads, messages, walletVars, accountVars>>

InsertFile(r) ==
    /\ At(r, "file_row")
    /\ files' = [files EXCEPT ![call[r].file] = [agreement |-> call[r].agreement, told |-> TRUE]]
    /\ Done(r)
    /\ UNCHANGED <<bucket, uploads, messages, walletVars, accountVars>>

\* A bug to catch: a row the database refuses leaves its object behind.
InsertFileRefusedOnly(r) ==
    /\ At(r, "file_row")
    /\ Done(r)
    /\ UNCHANGED <<roomVars, walletVars, accountVars>>

\* The database refuses the row: the object is taken out again.
InsertFileRefused(r) ==
    /\ At(r, "file_row")
    /\ Await(r, [pc |-> "remove_object", file |-> call[r].file])
    /\ UNCHANGED <<roomVars, walletVars, accountVars>>

\* The database writes the row and its answer is lost, which the client
\* reports as any other error: the object is taken out all the same.
InsertFileAnswerLost(r) ==
    /\ At(r, "file_row")
    /\ faults < MaxFaults
    /\ faults' = faults + 1
    /\ files' = [files EXCEPT ![call[r].file] = [agreement |-> call[r].agreement, told |-> FALSE]]
    /\ call' = [call EXCEPT ![r] = [pc |-> "remove_object", file |-> call[r].file]]
    /\ UNCHANGED <<load, served, bucket, uploads, messages, walletVars, accountVars>>

RemoveObject(r) ==
    /\ At(r, "remove_object")
    /\ bucket' = bucket \ {call[r].file}
    /\ Done(r)
    /\ UNCHANGED <<files, uploads, messages, walletVars, accountVars>>

(***************************************************************************)
(* sendMessage.                                                            *)
(***************************************************************************)
Stores(f) == files[f] # Nothing

readableFiles(u, ids) ==
    \A f \in ids : Stores(f) /\ (files[f].agreement # Nothing =>
                                   assertAgreementAccess(u, files[f].agreement))

\* A bug to catch: files of other agreements are attached too.
acceptableAnywhere(u, g, ids) == readableFiles(u, ids)

\* What is asked of the attachments of a message.
acceptable(u, g, ids) ==
    /\ readableFiles(u, ids)
    /\ \A f \in ids : files[f].agreement \in {Nothing, g}

\* Files are never deleted and agreements keep their participants, so that
\* the reads are one step.  ids are answers of uploads, the only place that
\* tells them, and may name a file twice; nothing removes that.
SendMessage(r, u, g, ids, twice) ==
    /\ assertAgreementAccess(u, g)
    /\ resolveUserWallets(u) # {}
    /\ acceptable(u, g, ids)
    /\ \A f \in ids : files[f].told
    /\ twice => ids # {}
    /\ messages[MaxMessages] = Nothing
    /\ Begin(r, [pc |-> "message_row", user |-> u, agreement |-> g, files |-> ids, twice |-> twice])
    /\ UNCHANGED <<roomVars, walletVars, accountVars>>

InsertMessage(r) ==
    /\ At(r, "message_row")
    /\ \E m \in MessageIds :
         /\ messages[m] = Nothing
         /\ \A other \in 1..(m - 1) : messages[other] # Nothing
         /\ messages' = [messages EXCEPT ![m] =
                           [agreement |-> call[r].agreement, sender |-> call[r].user,
                            sent |-> call[r].files, twice |-> call[r].twice, attached |-> {}]]
         /\ IF call[r].files # {}
            THEN Await(r, [pc |-> "attach", message |-> m])
            ELSE Done(r)
    /\ UNCHANGED <<bucket, files, uploads, walletVars, accountVars>>

\* One insert for all of them; the key refuses a file that is named twice,
\* and then none is attached, and the message stays.
AttachFiles(r) ==
    /\ At(r, "attach")
    /\ LET m == call[r].message
       IN messages' = IF messages[m].twice THEN messages
                      ELSE [messages EXCEPT ![m].attached = messages[m].sent]
    /\ Done(r)
    /\ UNCHANGED <<bucket, files, uploads, walletVars, accountVars>>

(***************************************************************************)
(* Reads.                                                                  *)
(***************************************************************************)
getMessages(u, g) ==
    {m \in MessageIds : /\ assertAgreementAccess(u, g)
                        /\ messages[m] # Nothing
                        /\ messages[m].agreement = g}

withAttachments(ms) == UNION {messages[m].attached : m \in ms}

\* A link is made for an object; without one the download fails.
signedUrl(u, f) == readableFiles(u, {f}) /\ f \in bucket

RoomDies(r) == Dies(r) /\ UNCHANGED <<roomVars, walletVars, accountVars>>

RoomNext ==
    \/ \E r \in Reqs, u \in load.users :
         \/ \E g \in Agreements \cup {Nothing} : Upload(r, u, g)
         \/ \E g \in Agreements, ids \in SUBSET FileIds, twice \in BOOLEAN :
              SendMessage(r, u, g, ids, twice)
    \/ \E u \in load.users, a \in ActiveAddresses : Login(u, a, Nothing) /\ UNCHANGED <<roomVars, walletVars>>
    \/ \E r \in Reqs :
         \/ StoreObject(r) \/ InsertFile(r) \/ InsertFileRefused(r) \/ InsertFileAnswerLost(r)
         \/ RemoveObject(r)
         \/ InsertMessage(r) \/ AttachFiles(r) \/ RoomDies(r)

(***************************************************************************)
(* Properties.                                                             *)
(***************************************************************************)

\* However uploads overlap and fail, each file that somebody may read and
\* nobody can download has cost a fault, and so has, once the uploads are over,
\* each object without a row or row without an object.
FilesAreWhole ==
    /\ Cardinality({f \in FileIds : \E u \in Users : readableFiles(u, {f}) /\ ~signedUrl(u, f)})
         <= faults
    /\ AllIdle => Cardinality({f \in FileIds : Stores(f) # (f \in bucket)}) <= faults

\* What a member finds in a conversation belongs to it, and the member can
\* download it; a message that is missing attachments when nothing runs has
\* cost a fault or named one of them twice.
ConversationIsWhole ==
    /\ \A u \in Users, g \in Agreements : \A f \in withAttachments(getMessages(u, g)) :
         files[f].agreement \in {Nothing, g} /\ signedUrl(u, f)
    /\ AllIdle => Cardinality({m \in MessageIds : /\ messages[m] # Nothing
                                                  /\ messages[m].attached # messages[m].sent
                                                  /\ ~messages[m].twice}) <= faults
====
