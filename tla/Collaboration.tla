---------------------------- MODULE Collaboration ----------------------------
(***************************************************************************)
(* Attachments and notes of a document.  Uploads and new notes are keyed   *)
(* POSTs: their commands run inside the transaction of Idempotency, and    *)
(* the file itself goes to object storage, which no transaction covers.    *)
(*                                                                         *)
(* A new attachment and a new note get a fresh id, here the request that   *)
(* created them.  Deletions and edits of notes are requests without a key. *)
(* Abstracted: who may do what, file contents, scan rules, names and       *)
(* downloads, and audit rows.  lock_note has no caller, so no note is      *)
(* locked.                                                                 *)
(***************************************************************************)
EXTENDS Idempotency, Sequences, FiniteSets

CONSTANTS
    Attachment,     \* attachments uploaded before
    Command,        \* Command[r]: "upload", "note", or the attachment r adds a version to
    Tab,            \* the windows in which the author of the notes edits them
    MaxNoteVersion  \* bound: versions of a note

ASSUME CollaborationAssumption ==
    /\ Attachment \cap (Request \cup {"upload", "note"}) = {}
    /\ Command \in [Request -> {"upload", "note"} \cup Attachment]
    /\ MaxNoteVersion \in Nat

VARIABLES
    files,      \* committed attachment_version rows
    deletedAt,  \* deletedAt[a]: 0, or how many versions a had when it was deleted
    objects,    \* keys of the stored objects, by the request that put them
    rowLock,    \* rowLock[a]: the request that holds a's row FOR UPDATE
    draft,      \* draft[r]: the row r's transaction is about to insert
    notes,      \* notes[n]: the texts of note n, oldest first: its revisions and its body
    opened      \* opened[t]: what tab t shows: a note and the version of it

fileVars == <<files, deletedAt, objects, rowLock, draft>>
noteVars == <<notes, opened>>
collaborationVars == <<fileVars, noteVars>>

AttachmentId == Attachment \cup Request

NoDraft == [attachment |-> Nobody, version |-> 0]

CollaborationInit ==
    /\ RequestInit
    /\ files = {[attachment |-> a, version |-> 1, by |-> a] : a \in Attachment}
    /\ deletedAt = [a \in AttachmentId |-> 0]
    /\ objects = Attachment
    /\ rowLock = [a \in AttachmentId |-> Nobody]
    /\ draft = [r \in Request |-> NoDraft]
    /\ notes = [r \in Request |-> <<>>]
    /\ opened = [t \in Tab |-> [note |-> Nobody, version |-> 0]]

-----------------------------------------------------------------------------
(* Uploads.                                                                  *)

VersionsOf(a) == {f \in files : f.attachment = a}

Uploads(r) == phase[r] = "running" /\ Command[r] # "note"

\* Fault: the attachment's row is read and not locked.
RowRead(a) == deletedAt[a] = 0

\* The row is locked, once nobody else holds it, and is not deleted.
RowTaken(a) == rowLock[a] = Nobody /\ deletedAt[a] = 0

\* upload: a new version is numbered under the lock of its attachment's row.
NumberVersion(r) ==
    LET a == Command[r]
    IN  /\ Uploads(r) /\ draft[r] = NoDraft
        /\ a \in Attachment
        /\ RowTaken(a)
        /\ rowLock' = [rowLock EXCEPT ![a] = r]
        /\ draft' = [draft EXCEPT ![r] =
               [attachment |-> a, version |-> Cardinality(VersionsOf(a)) + 1]]
        /\ UNCHANGED <<requestVars, files, deletedAt, objects, noteVars>>

\* upload: a new attachment is numbered 1.
NumberFirst(r) ==
    /\ Uploads(r) /\ draft[r] = NoDraft
    /\ Command[r] = "upload"
    /\ draft' = [draft EXCEPT ![r] = [attachment |-> r, version |-> 1]]
    /\ UNCHANGED <<requestVars, files, deletedAt, objects, rowLock, noteVars>>

\* upload: the object is stored under a key of its own; a rollback leaves it there.
Put(r) ==
    /\ Uploads(r) /\ draft[r] # NoDraft
    /\ r \notin objects
    /\ objects' = objects \cup {r}
    /\ UNCHANGED <<requestVars, files, deletedAt, rowLock, draft, noteVars>>

\* delete: one UPDATE, which waits for the row; deleting twice changes nothing.
DeleteAttachment(a) ==
    /\ VersionsOf(a) # {}
    /\ rowLock[a] = Nobody
    /\ deletedAt[a] = 0
    /\ deletedAt' = [deletedAt EXCEPT ![a] = Cardinality(VersionsOf(a))]
    /\ UNCHANGED <<requestVars, files, objects, rowLock, draft, noteVars>>

\* The end of a transaction releases its row lock.
Unlocked(r) == [a \in AttachmentId |-> IF rowLock[a] = r THEN Nobody ELSE rowLock[a]]

-----------------------------------------------------------------------------
(* Notes.                                                                    *)

\* The page is loaded; it shows the note's newest version.
OpenNote(t, n) ==
    /\ notes[n] # <<>>
    /\ opened' = [opened EXCEPT ![t] = [note |-> n, version |-> Len(notes[n])]]
    /\ UNCHANGED <<requestVars, fileVars, notes>>

\* edit_note's stale_version.
Unchanged(t) == opened[t].version = Len(notes[opened[t].note])

\* edit_note, under the note's row lock: the old text becomes a revision.  A text is
\* its author's tab and the version that tab had shown.
EditNote(t) ==
    LET n == opened[t].note
    IN  /\ n # Nobody
        /\ Unchanged(t)
        /\ Len(notes[n]) < MaxNoteVersion
        /\ notes' = [notes EXCEPT ![n] = Append(@, [tab |-> t, over |-> opened[t].version])]
        /\ opened' = [opened EXCEPT ![t].version = Len(notes[n]) + 1]
        /\ UNCHANGED <<requestVars, fileVars>>

-----------------------------------------------------------------------------
(* Requests.                                                                 *)

Claims(r) == ClaimKey(r) /\ UNCHANGED collaborationVars

\* Not found, not allowed, rejected by the scanner, or an exception at any point of the command.
Fails(r) ==
    /\ CommandFails(r)
    /\ rowLock' = Unlocked(r)
    /\ UNCHANGED <<files, deletedAt, objects, draft, noteVars>>

\* A command succeeds when its rows are inserted, an upload's after its object.
Succeeds(r) ==
    /\ CommandSucceeds(r)
    /\ Command[r] # "note" => r \in objects
    /\ UNCHANGED collaborationVars

\* The rows become visible together with the stored response.
Commits(r) ==
    /\ Commit(r)
    /\ IF Command[r] = "note"
       THEN /\ notes' = [notes EXCEPT ![r] = <<[tab |-> Nobody, over |-> 0]>>]
            /\ UNCHANGED files
       ELSE /\ files' = files \cup
                  {[attachment |-> draft[r].attachment, version |-> draft[r].version, by |-> r]}
            /\ UNCHANGED notes
    /\ rowLock' = Unlocked(r)
    /\ UNCHANGED <<deletedAt, objects, draft, opened>>

Answers(r) == Send(r) /\ UNCHANGED collaborationVars

Dies(r) ==
    /\ Lose(r)
    /\ rowLock' = Unlocked(r)
    /\ UNCHANGED <<files, deletedAt, objects, draft, noteVars>>

Serve(r) ==
    \/ Claims(r) \/ Fails(r) \/ Succeeds(r) \/ Commits(r) \/ Answers(r) \/ Dies(r)
    \/ NumberVersion(r) \/ NumberFirst(r) \/ Put(r)

CollaborationNext ==
    \/ \E r \in Request : Serve(r)
    \/ \E a \in AttachmentId : DeleteAttachment(a)
    \/ \E t \in Tab : EditNote(t) \/ \E n \in Request : OpenNote(t, n)

CollaborationSpec == CollaborationInit /\ [][CollaborationNext]_<<requestVars, collaborationVars>>

-----------------------------------------------------------------------------
(* Properties.                                                               *)

\* However uploads, their retries, deletions and failures interleave: the versions of
\* an attachment are numbered 1, 2, ... without a gap or a repeat (the UNIQUE constraint
\* never fires), each has its object in storage, a deleted attachment gains none, and
\* a keyed upload that took effect left exactly one version behind.
FilesKept ==
    /\ \A a \in AttachmentId :
          LET versions == VersionsOf(a)
          IN  /\ {f.version : f \in versions} = 1..Cardinality(versions)
              /\ deletedAt[a] # 0 => Cardinality(versions) = deletedAt[a]
    /\ \A f \in files : f.by \in objects
    /\ \A k \in Keys :
          Cardinality({f \in files : f.by \in Request /\ Key[f.by] = k})
            = IF stored[k] = Nobody \/ notes[stored[k]] # <<>> THEN 0 ELSE effects[k]

\* No edit of a note is lost, and none overwrites a text its author has not seen: each
\* text was written over the version before it.
NotesKept == \A n \in Request : \A i \in DOMAIN notes[n] : notes[n][i].over = i - 1

\* What users have stored with a document is kept.
RecordsKept == FilesKept /\ NotesKept
=============================================================================
