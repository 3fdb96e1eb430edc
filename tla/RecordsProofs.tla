---------------------------- MODULE RecordsProofs ----------------------------
(***************************************************************************)
(* Keyed requests, and what they and their neighbours leave behind, for    *)
(* any number of requests, keys, attachments, notes, items and             *)
(* requisitions: the middleware implements OnceOnly, files and notes are   *)
(* kept, and the catalogue is what was submitted.                          *)
(***************************************************************************)
EXTENDS Collaboration, Catalogue, FiniteSetTheorems, TLAPS

-----------------------------------------------------------------------------
(* Keyed requests.  The advisory lock is what makes the row of a key         *)
(* unique: a command runs only under its key's lock and only while the key   *)
(* has no row, and nobody else can store one before the lock is gone.        *)

Phases == {"sent", "looked", "locked", "running", "completing", "committed", "over"}

RequestType ==
    /\ stored \in [Keys -> Request \cup {Nobody}]
    /\ keyLock \in [Keys -> Request \cup {Nobody}]
    /\ phase \in [Request -> Phases]
    /\ effects \in [Keys -> Nat]
    /\ DOMAIN answer = Request

RequestInv ==
    /\ RequestType
    /\ \A r \in Request : phase[r] \in {"locked", "running", "completing"} => keyLock[Key[r]] = r
    /\ \A r \in Request : phase[r] \in {"running", "completing"} => stored[Key[r]] = Nobody
    /\ \A r \in Request : phase[r] = "committed" => stored[Key[r]] = r
    /\ \A r \in Request : phase[r] # "over" => answer[r] = "none"
    /\ \A k \in Keys : effects[k] = IF stored[k] = Nobody THEN 0 ELSE 1
    /\ \A k \in Keys : stored[k] # Nobody =>
          Key[stored[k]] = k /\ phase[stored[k]] \in {"committed", "over"}

LEMMA KeyType == ASSUME NEW r \in Request PROVE Key[r] \in Keys
  BY DEF Keys

LEMMA RequestInvInit == RequestInit => RequestInv
  BY IdempotencyAssumption, KeyType DEF RequestInit, RequestInv, RequestType, Phases

\* What ends a transaction without storing anything keeps the invariant.
LEMMA EndKeepsInv ==
    ASSUME RequestInv, NEW r \in Request, EndTransaction(r), UNCHANGED <<stored, effects>>,
           DOMAIN answer' = Request, \A q \in Request \ {r} : answer'[q] = answer[q]
    PROVE  RequestInv'
<1> USE IdempotencyAssumption, KeyType
<1>1. \A q \in Request : phase'[q] = IF q = r THEN "over" ELSE phase[q]
  BY DEF EndTransaction, RequestInv, RequestType
<1>2. \A k \in Keys : keyLock'[k] = IF keyLock[k] = r THEN Nobody ELSE keyLock[k]
  BY DEF EndTransaction
<1>3. RequestType'
  BY DEF EndTransaction, RequestInv, RequestType, Phases
<1>4. \A q \in Request : phase'[q] \in {"locked", "running", "completing"} => keyLock'[Key[q]] = q
  BY <1>1, <1>2 DEF RequestInv
<1>5. \A q \in Request : phase'[q] \in {"running", "completing"} => stored'[Key[q]] = Nobody
  BY <1>1 DEF RequestInv
<1>6. \A q \in Request : phase'[q] = "committed" => stored'[Key[q]] = q
  BY <1>1 DEF RequestInv
<1>7. \A q \in Request : phase'[q] # "over" => answer'[q] = "none"
  BY <1>1 DEF RequestInv
<1>8. \A k \in Keys : stored[k] # Nobody =>
          Key[stored[k]] = k /\ phase'[stored[k]] \in {"committed", "over"}
  BY <1>1 DEF RequestInv, RequestType
<1>9. QED
  BY <1>3, <1>4, <1>5, <1>6, <1>7, <1>8 DEF RequestInv

\* A request that moves on without ending keeps it, if the new phase is earned.
LEMMA MoveKeepsInv ==
    ASSUME RequestInv, NEW r \in Request, NEW to \in Phases \ {"committed", "over"},
           answer[r] = "none",
           phase' = [phase EXCEPT ![r] = to],
           UNCHANGED <<stored, keyLock, effects, answer>>,
           phase[r] \notin {"committed", "over"},
           to \in {"locked", "running", "completing"} => keyLock[Key[r]] = r,
           to \in {"running", "completing"} => stored[Key[r]] = Nobody
    PROVE  RequestInv'
<1> USE IdempotencyAssumption, KeyType
<1>1. \A q \in Request : phase'[q] = IF q = r THEN to ELSE phase[q]
  BY DEF RequestInv, RequestType
<1>2. RequestType'
  BY DEF RequestInv, RequestType, Phases
<1>3. QED
  BY <1>1, <1>2 DEF RequestInv

LEMMA ClassifyStep ==
    ASSUME RequestInv, NEW r \in Request, phase[r] \in {"sent", "locked"},
           stored[Key[r]] # Nobody, Classify(r)
    PROVE  RequestInv' /\ (Once!Respond(r) \/ Once!Refuse(r))
<1> USE IdempotencyAssumption, KeyType
<1>1. answer[r] = "none" /\ DOMAIN answer = Request
  BY DEF RequestInv, RequestType
<1>2. /\ EndTransaction(r) /\ UNCHANGED <<stored, effects>>
      /\ \E x \in {stored[Key[r]], "refused"} :
            /\ answer' = [answer EXCEPT ![r] = x]
            /\ x # "refused" => x = stored[Key[r]] /\ Content[stored[Key[r]]] = Content[r]
  BY DEF Classify, Refused
<1>3. RequestInv'
  BY <1>1, <1>2, EndKeepsInv
<1>4. Once!Respond(r) \/ Once!Refuse(r)
  BY <1>1, <1>2 DEF Classify, Refused, Once!Respond, Once!Refuse
<1>5. QED
  BY <1>3, <1>4

LEMMA CommitStep ==
    ASSUME RequestInv, NEW r \in Request, Commit(r)
    PROVE  RequestInv' /\ Once!TakeEffect(r)
<1> USE IdempotencyAssumption, KeyType
<1>1. /\ stored[Key[r]] = Nobody
      /\ keyLock[Key[r]] = r
      /\ answer[r] = "none"
      /\ effects[Key[r]] = 0
  BY DEF Commit, RequestInv
<1>2. /\ \A q \in Request : phase'[q] = IF q = r THEN "committed" ELSE phase[q]
      /\ \A k \in Keys : stored'[k] = IF k = Key[r] THEN r ELSE stored[k]
      /\ \A k \in Keys : keyLock'[k] = IF k = Key[r] THEN Nobody ELSE keyLock[k]
      /\ \A k \in Keys : effects'[k] = IF k = Key[r] THEN 1 ELSE effects[k]
      /\ answer' = answer
  BY <1>1 DEF Commit, Committed, RequestInv, RequestType
<1>3. RequestType'
  BY DEF Commit, Committed, RequestInv, RequestType, Phases
<1>4. \A q \in Request \ {r} : phase[q] \in {"locked", "running", "completing"} => Key[q] # Key[r]
  BY <1>1 DEF RequestInv
<1>5. \A q \in Request : phase'[q] \in {"locked", "running", "completing"} => keyLock'[Key[q]] = q
  BY <1>2, <1>4 DEF RequestInv
<1>6. \A q \in Request : phase'[q] \in {"running", "completing"} => stored'[Key[q]] = Nobody
  BY <1>2, <1>4 DEF RequestInv
<1>7. \A q \in Request : phase'[q] = "committed" => stored'[Key[q]] = q
  BY <1>1, <1>2 DEF RequestInv
<1>8. \A q \in Request : phase'[q] # "over" => answer'[q] = "none"
  BY <1>1, <1>2 DEF RequestInv
<1>9. \A k \in Keys : effects'[k] = IF stored'[k] = Nobody THEN 0 ELSE 1
  BY <1>2 DEF RequestInv
<1>10. \A k \in Keys : stored'[k] # Nobody =>
          Key[stored'[k]] = k /\ phase'[stored'[k]] \in {"committed", "over"}
  BY <1>2 DEF RequestInv, RequestType
<1>11. RequestInv'
  BY <1>3, <1>5, <1>6, <1>7, <1>8, <1>9, <1>10 DEF RequestInv
<1>12. Once!TakeEffect(r)
  BY <1>1 DEF Commit, Committed, Once!TakeEffect
<1>13. QED
  BY <1>11, <1>12

\* Every step of the middleware is a step of OnceOnly, or invisible to its clients.
LEMMA RequestStep ==
    ASSUME RequestInv, NEW r \in Request,
           \/ ClaimKey(r) \/ CommandFails(r) \/ CommandSucceeds(r)
           \/ Commit(r) \/ Send(r) \/ Lose(r)
    PROVE  RequestInv' /\ [Once!Next]_(Once!onceVars)
<1> USE IdempotencyAssumption, KeyType
<1>1. phase[r] \in Phases /\ (phase[r] # "over" => answer[r] = "none") /\ DOMAIN answer = Request
  BY DEF RequestInv, RequestType
<1>2. ASSUME Refused(r), phase[r] # "over" PROVE RequestInv' /\ Once!Refuse(r)
  <2>1. RequestInv'
    BY <1>1, <1>2, EndKeepsInv DEF Refused
  <2>2. QED
    BY <1>1, <1>2, <2>1 DEF Refused, Once!Refuse
<1>3. CASE Look(r)
  <2>1. CASE stored[Key[r]] # Nobody
    BY <1>3, <2>1, ClassifyStep DEF Look, Once!Next
  <2>2. CASE stored[Key[r]] = Nobody
    <3>1. /\ phase[r] = "sent" /\ phase' = [phase EXCEPT ![r] = "looked"]
          /\ UNCHANGED <<stored, keyLock, effects, answer>>
      BY <1>3, <2>2 DEF Look
    <3>2. RequestInv'
      BY <1>1, <3>1, MoveKeepsInv DEF Phases
    <3>3. QED
      BY <3>1, <3>2 DEF Once!onceVars
  <2>3. QED
    BY <2>1, <2>2
<1>4. CASE Busy(r)
  BY <1>2, <1>4 DEF Busy, Once!Next
<1>5. CASE TryLock(r)
  <2>1. /\ \A q \in Request : phase'[q] = IF q = r THEN "locked" ELSE phase[q]
        /\ \A k \in Keys : keyLock'[k] = IF k = Key[r] THEN r ELSE keyLock[k]
        /\ keyLock[Key[r]] = Nobody /\ phase[r] = "looked"
        /\ UNCHANGED <<stored, effects, answer>>
    BY <1>5 DEF TryLock, RequestInv, RequestType
  <2>2. RequestType'
    BY <1>5 DEF TryLock, RequestInv, RequestType, Phases
  <2>3. \A q \in Request : phase'[q] \in {"locked", "running", "completing"} => keyLock'[Key[q]] = q
    BY <2>1 DEF RequestInv
  <2>4. \A k \in Keys : stored[k] # Nobody => phase'[stored[k]] = phase[stored[k]]
    BY <2>1 DEF RequestInv, RequestType
  <2>5. RequestInv'
    BY <1>1, <2>1, <2>2, <2>3, <2>4 DEF RequestInv
  <2>6. QED
    BY <2>1, <2>5 DEF Once!onceVars
<1>6. CASE Insert(r)
  <2>1. CASE stored[Key[r]] # Nobody
    BY <1>6, <2>1, ClassifyStep DEF Insert, Once!Next
  <2>2. CASE stored[Key[r]] = Nobody
    <3>1. /\ phase[r] = "locked" /\ phase' = [phase EXCEPT ![r] = "running"]
          /\ UNCHANGED <<stored, keyLock, effects, answer>>
      BY <1>6, <2>2 DEF Insert
    <3>2. keyLock[Key[r]] = r
      BY <3>1 DEF RequestInv
    <3>3. RequestInv'
      BY <1>1, <2>2, <3>1, <3>2, MoveKeepsInv DEF Phases
    <3>4. QED
      BY <3>1, <3>3 DEF Once!onceVars
  <2>3. QED
    BY <2>1, <2>2
<1>7. CASE CommandFails(r)
  BY <1>2, <1>7 DEF CommandFails, Once!Next
<1>8. CASE CommandSucceeds(r)
  <2>1. /\ phase[r] = "running" /\ phase' = [phase EXCEPT ![r] = "completing"]
        /\ UNCHANGED <<stored, keyLock, effects, answer>>
    BY <1>8 DEF CommandSucceeds
  <2>2. keyLock[Key[r]] = r /\ stored[Key[r]] = Nobody
    BY <2>1 DEF RequestInv
  <2>3. RequestInv'
    BY <1>1, <2>1, <2>2, MoveKeepsInv DEF Phases
  <2>4. QED
    BY <2>1, <2>3 DEF Once!onceVars
<1>9. CASE Commit(r)
  BY <1>9, CommitStep DEF Once!Next
<1>10. CASE Send(r)
  <2>1. phase[r] = "committed" /\ stored[Key[r]] = r /\ answer[r] = "none"
    BY <1>1, <1>10 DEF Send, RequestInv
  <2>2. /\ \A q \in Request : phase'[q] = IF q = r THEN "over" ELSE phase[q]
        /\ \A q \in Request \ {r} : answer'[q] = answer[q]
        /\ UNCHANGED <<stored, keyLock, effects>>
    BY <1>1, <1>10 DEF Send, RequestInv, RequestType
  <2>3. RequestType'
    BY <1>10 DEF Send, RequestInv, RequestType, Phases
  <2>4. \A k \in Keys : stored[k] # Nobody =>
            phase'[stored[k]] \in {"committed", "over"} /\ Key[stored[k]] = k
    BY <2>2 DEF RequestInv, RequestType
  <2>5. RequestInv'
    BY <2>2, <2>3, <2>4 DEF RequestInv
  <2>6. Once!Respond(r)
    BY <1>10, <2>1 DEF Send, Once!Respond
  <2>7. QED
    BY <2>5, <2>6 DEF Once!Next
<1>11. CASE Lose(r)
  <2>1. RequestInv'
    BY <1>1, <1>11, EndKeepsInv DEF Lose
  <2>2. QED
    BY <1>11, <2>1 DEF Lose, Once!onceVars
<1>12. QED
  BY <1>3, <1>4, <1>5, <1>6, <1>7, <1>8, <1>9, <1>10, <1>11 DEF ClaimKey

LEMMA RequestInvStep ==
    RequestInv /\ [RequestNext]_requestVars => RequestInv' /\ [Once!Next]_(Once!onceVars)
<1> SUFFICES ASSUME RequestInv, [RequestNext]_requestVars
             PROVE  RequestInv' /\ [Once!Next]_(Once!onceVars)
  OBVIOUS
<1>1. CASE UNCHANGED requestVars
  BY <1>1 DEF requestVars, RequestInv, RequestType, Once!onceVars
<1>2. CASE RequestNext
  BY <1>2, RequestStep DEF RequestNext
<1>3. QED
  BY <1>1, <1>2

\* The idempotency middleware implements OnceOnly, for any requests, keys and contents:
\* whatever retries race and whatever is lost, a keyed command takes effect at most once
\* and every success is answered with the one stored response, to the same content only.
THEOREM KeyedOnceOnly == RequestSpec => ImplementsOnceOnly
<1>1. RequestInit => Once!Init
  BY DEF RequestInit, Once!Init, Keys, Once!Keys
<1>2. QED
  BY <1>1, RequestInvInit, RequestInvStep, PTL DEF RequestSpec, ImplementsOnceOnly, Once!Spec

-----------------------------------------------------------------------------
(* Attachments and notes.  An upload numbers its version under the lock of   *)
(* its attachment's row and keeps the lock until it ends, so the number is   *)
(* still the next one when it commits; and a request commits at most once,   *)
(* so the one file it leaves is the one it drafted.                          *)

\* Attachments and notes leave the protocol of the keyed requests alone.
LEMMA CollaborationRefines ==
    CollaborationNext => [RequestNext]_requestVars
<1> SUFFICES ASSUME CollaborationNext PROVE [RequestNext]_requestVars
  OBVIOUS
<1>1. ASSUME NEW r \in Request, Serve(r) PROVE [RequestNext]_requestVars
  BY <1>1 DEF Serve, Claims, Fails, Succeeds, Commits, Answers, Dies, NumberVersion, NumberFirst,
              Put, RequestNext
<1>2. ASSUME NEW a \in AttachmentId, DeleteAttachment(a) PROVE UNCHANGED requestVars
  BY <1>2 DEF DeleteAttachment
<1>3. ASSUME NEW t \in Tab, EditNote(t) \/ \E n \in Request : OpenNote(t, n)
      PROVE  UNCHANGED requestVars
  BY <1>3 DEF EditNote, OpenNote
<1>4. QED
  BY <1>1, <1>2, <1>3 DEF CollaborationNext

FileRow == [attachment : AttachmentId, version : Nat, by : AttachmentId]
Draft == [attachment : AttachmentId \cup {Nobody}, version : Nat]
Text == [tab : Tab \cup {Nobody}, over : Nat]
Opened == [note : Request \cup {Nobody}, version : Nat]

FileType ==
    /\ files \subseteq FileRow
    /\ deletedAt \in [AttachmentId -> Nat]
    /\ objects \subseteq AttachmentId
    /\ rowLock \in [AttachmentId -> Request \cup {Nobody}]
    /\ draft \in [Request -> Draft]
    /\ DOMAIN notes = Request

\* A note that a tab shows has a text.
NotesTyped ==
    /\ notes \in [Request -> Seq(Text)]
    /\ opened \in [Tab -> Opened]
    /\ \A t \in Tab : opened[t].note # Nobody => notes[opened[t].note] # <<>>

\* The row a committed upload has left.
FileOf(r) == [attachment |-> draft[r].attachment, version |-> draft[r].version, by |-> r]

\* What a request drafts, and when.
DraftsHold ==
    /\ \A r \in Request :
          \/ draft[r] = NoDraft
          \/ Command[r] = "upload" /\ draft[r] = [attachment |-> r, version |-> 1]
          \/ Command[r] \in Attachment /\ draft[r].attachment = Command[r]
    /\ \A r \in Request : phase[r] \in {"sent", "looked", "locked"} => draft[r] = NoDraft
    /\ \A r \in Request : r \in objects => draft[r] # NoDraft
    /\ \A r \in Request : phase[r] = "completing" /\ Command[r] # "note" => r \in objects

\* A drafted version is the next one for as long as its transaction is open.
NumbersHold ==
    \A r \in Request :
        phase[r] \in {"running", "completing"} /\ Command[r] \in Attachment /\ draft[r] # NoDraft =>
            /\ rowLock[Command[r]] = r
            /\ deletedAt[Command[r]] = 0
            /\ draft[r].version = Cardinality(VersionsOf(Command[r])) + 1

\* Files and notes are those of the requests whose response is stored.
FilesTraced ==
    /\ \A f \in files : f.by \in Request =>
          stored[Key[f.by]] = f.by /\ Command[f.by] # "note" /\ f = FileOf(f.by)
    /\ \A f \in files : f.by \in Attachment => f.attachment = f.by
    /\ \A r \in Request : stored[Key[r]] = r =>
          IF Command[r] = "note" THEN notes[r] # <<>> ELSE FileOf(r) \in files
    /\ \A r \in Request : notes[r] # <<>> => Command[r] = "note" /\ stored[Key[r]] = r
    /\ \A f \in files : f.by \in objects

\* Versions are numbered without a gap, and a deleted attachment gains none.
Numbered(a) ==
    /\ IsFiniteSet(VersionsOf(a))
    /\ {f.version : f \in VersionsOf(a)} = 1..Cardinality(VersionsOf(a))
    /\ deletedAt[a] # 0 => Cardinality(VersionsOf(a)) = deletedAt[a]

FilesInv ==
    /\ FileType
    /\ DraftsHold
    /\ NumbersHold
    /\ FilesTraced
    /\ \A a \in AttachmentId : Numbered(a)

LEMMA FilesInvInit == CollaborationInit => FilesInv
<1> SUFFICES ASSUME CollaborationInit PROVE FilesInv
  OBVIOUS
<1> USE IdempotencyAssumption, CollaborationAssumption
<1>1. files = {[attachment |-> a, version |-> 1, by |-> a] : a \in Attachment}
  BY DEF CollaborationInit
<1>2. FileType
  BY <1>1 DEF CollaborationInit, FileType, FileRow, Draft, NoDraft, AttachmentId
<1>3. DraftsHold /\ NumbersHold
  BY DEF CollaborationInit, RequestInit, DraftsHold, NumbersHold
<1>4. \A f \in files : f.by \in Attachment /\ f.attachment = f.by /\ f.by \in objects
  BY <1>1 DEF CollaborationInit
<1>5. FilesTraced
  BY <1>4, KeyType DEF CollaborationInit, RequestInit, FilesTraced
<1>6. ASSUME NEW a \in AttachmentId PROVE Numbered(a)
  <2> DEFINE row == [attachment |-> a, version |-> 1, by |-> a]
  <2>1. deletedAt[a] = 0
    BY DEF CollaborationInit
  <2>2. CASE a \in Attachment
    <3>1. VersionsOf(a) = {row}
      BY <1>1, <2>2 DEF VersionsOf
    <3>2. IsFiniteSet({row}) /\ Cardinality({row}) = 1
      BY FS_Singleton
    <3>3. {f.version : f \in {row}} = 1..1
      OBVIOUS
    <3>4. QED
      BY <2>1, <3>1, <3>2, <3>3 DEF Numbered
  <2>3. CASE a \notin Attachment
    <3>1. VersionsOf(a) = {}
      BY <1>1, <2>3 DEF VersionsOf
    <3>2. QED
      BY <2>1, <3>1, FS_EmptySet DEF Numbered
  <2>4. QED
    BY <2>2, <2>3
<1>7. QED
  BY <1>2, <1>3, <1>5, <1>6 DEF FilesInv

\* What leaves the committed rows and the numbering alone.
LEMMA SameVersions ==
    ASSUME UNCHANGED files, NEW a
    PROVE  VersionsOf(a)' = VersionsOf(a)
  BY DEF VersionsOf

LEMMA SameNumbered ==
    ASSUME UNCHANGED <<files, deletedAt>>, \A a \in AttachmentId : Numbered(a)
    PROVE  \A a \in AttachmentId : Numbered(a)'
  BY SameVersions DEF Numbered

\* A request's transaction moves on, or ends, without writing anything.
LEMMA QuietKeepsFiles ==
    ASSUME FilesInv, NEW r \in Request,
           UNCHANGED <<files, deletedAt, objects, draft, notes, stored>>,
           \A q \in Request \ {r} : phase'[q] = phase[q],
           \/ phase'[r] = "over"
           \/ phase'[r] \in {"looked", "locked", "running"} /\ phase[r] \in {"sent", "looked", "locked"}
           \/ /\ phase'[r] = "completing" /\ phase[r] = "running"
              /\ Command[r] # "note" => r \in objects,
           rowLock' = rowLock \/ (rowLock' = Unlocked(r) /\ phase'[r] = "over")
    PROVE  FilesInv'
<1> USE IdempotencyAssumption, CollaborationAssumption, KeyType
<1>1. \A a \in AttachmentId : Numbered(a)'
  BY SameNumbered DEF FilesInv
<1>2. FilesTraced'
  BY DEF FilesInv, FilesTraced, FileOf
<1>3. rowLock' \in [AttachmentId -> Request \cup {Nobody}]
  BY DEF FilesInv, FileType, Unlocked
<1>4. FileType'
  BY <1>3 DEF FilesInv, FileType
<1>5. DraftsHold'
  BY DEF FilesInv, DraftsHold
<1>6. NumbersHold'
  <2> SUFFICES ASSUME NEW q \in Request, phase'[q] \in {"running", "completing"},
                      Command[q] \in Attachment, draft[q] # NoDraft
               PROVE  /\ rowLock'[Command[q]] = q
                      /\ deletedAt[Command[q]] = 0
                      /\ draft[q].version = Cardinality(VersionsOf(Command[q])) + 1
    BY SameVersions DEF NumbersHold
  <2>1. phase[q] \in {"running", "completing"}
    BY DEF FilesInv, DraftsHold
  <2>2. /\ rowLock[Command[q]] = q
        /\ deletedAt[Command[q]] = 0
        /\ draft[q].version = Cardinality(VersionsOf(Command[q])) + 1
    BY <2>1 DEF FilesInv, NumbersHold
  <2>3. rowLock'[Command[q]] = q
    BY <2>2 DEF Unlocked, AttachmentId
  <2>4. QED
    BY <2>2, <2>3
<1>7. QED
  BY <1>1, <1>2, <1>4, <1>5, <1>6 DEF FilesInv

LEMMA ClaimsKeepFiles ==
    ASSUME RequestInv, FilesInv, NEW r \in Request, Claims(r)
    PROVE  FilesInv'
<1> USE DEF RequestInv, RequestType
<1>1. UNCHANGED <<files, deletedAt, objects, draft, notes, rowLock>>
  BY DEF Claims, collaborationVars, fileVars, noteVars
<1>2. UNCHANGED stored
  BY DEF Claims, ClaimKey, Look, Busy, TryLock, Insert, Classify, Refused
<1>3. \E to \in {"over", "looked", "locked", "running"} : phase' = [phase EXCEPT ![r] = to]
  BY DEF Claims, ClaimKey, Look, Busy, TryLock, Insert, Classify, Refused, EndTransaction
<1>4. phase[r] \in {"sent", "looked", "locked"}
  BY DEF Claims, ClaimKey, Look, Busy, TryLock, Insert
<1>5. QED
  BY <1>1, <1>2, <1>3, <1>4, QuietKeepsFiles

LEMMA EndsKeepFiles ==
    ASSUME RequestInv, FilesInv, NEW r \in Request, Fails(r) \/ Succeeds(r) \/ Answers(r) \/ Dies(r)
    PROVE  FilesInv'
<1> USE DEF RequestInv, RequestType
<1>1. UNCHANGED <<files, deletedAt, objects, draft, notes, stored>>
  BY DEF Fails, Succeeds, Answers, Dies, CommandFails, CommandSucceeds, Send, Lose, Refused,
         collaborationVars, fileVars, noteVars
<1>2. CASE Succeeds(r)
  BY <1>1, <1>2, QuietKeepsFiles DEF Succeeds, CommandSucceeds, collaborationVars, fileVars
<1>3. CASE ~Succeeds(r)
  <2>1. phase' = [phase EXCEPT ![r] = "over"]
    BY <1>3 DEF Fails, Answers, Dies, CommandFails, Send, Lose, Refused, EndTransaction
  <2>2. rowLock' = rowLock \/ rowLock' = Unlocked(r)
    BY <1>3 DEF Fails, Answers, Dies, collaborationVars, fileVars
  <2>3. QED
    BY <1>1, <2>1, <2>2, QuietKeepsFiles
<1>4. QED
  BY <1>2, <1>3

\* A running request has left nothing yet.
LEMMA RunningIsUntraced ==
    ASSUME RequestInv, FilesInv, NEW r \in Request, phase[r] \in {"running", "completing"}
    PROVE  /\ stored[Key[r]] = Nobody
           /\ \A f \in files : f.by # r
           /\ notes[r] = <<>>
  BY IdempotencyAssumption DEF RequestInv, FilesInv, FilesTraced

LEMMA NumberKeepsFiles ==
    ASSUME RequestInv, FilesInv, NEW r \in Request, NumberVersion(r) \/ NumberFirst(r)
    PROVE  FilesInv'
<1> USE IdempotencyAssumption, CollaborationAssumption, KeyType
<1>1. /\ phase[r] = "running" /\ draft[r] = NoDraft
      /\ UNCHANGED <<files, deletedAt, objects, notes, stored, phase>>
  BY DEF NumberVersion, NumberFirst, Uploads, requestVars, noteVars
<1>2. PICK d : draft' = [draft EXCEPT ![r] = d]
  BY DEF NumberVersion, NumberFirst
<1>3. \A q \in Request : draft'[q] = IF q = r THEN d ELSE draft[q]
  BY <1>2 DEF FilesInv, FileType
<1>4. stored[Key[r]] = Nobody /\ (\A f \in files : f.by # r) /\ notes[r] = <<>>
  BY <1>1, RunningIsUntraced
<1>5. FilesTraced'
  BY <1>1, <1>3, <1>4 DEF FilesInv, FilesTraced, FileOf
<1>6. \A a \in AttachmentId : Numbered(a)'
  BY <1>1, SameNumbered DEF FilesInv
<1>7. CASE NumberFirst(r)
  <2>1. draft'[r] = [attachment |-> r, version |-> 1] /\ Command[r] = "upload" /\ rowLock' = rowLock
    BY <1>7 DEF NumberFirst, FilesInv, FileType
  <2>2. draft'[r] # NoDraft /\ draft'[r] \in Draft
    BY <2>1 DEF NoDraft, Draft, AttachmentId
  <2>3. FileType'
    BY <1>1, <1>2, <1>3, <2>1, <2>2 DEF FilesInv, FileType
  <2>4. DraftsHold'
    BY <1>1, <1>3, <2>1, <2>2 DEF FilesInv, DraftsHold
  <2>5. NumbersHold'
    BY <1>1, <1>3, <2>1, SameVersions DEF FilesInv, NumbersHold
  <2>6. QED
    BY <1>5, <1>6, <2>3, <2>4, <2>5 DEF FilesInv
<1>8. CASE NumberVersion(r)
  <2> DEFINE a == Command[r]
  <2>1. /\ a \in Attachment /\ rowLock[a] = Nobody /\ deletedAt[a] = 0
        /\ rowLock' = [rowLock EXCEPT ![a] = r]
        /\ draft'[r] = [attachment |-> a, version |-> Cardinality(VersionsOf(a)) + 1]
    BY <1>8 DEF NumberVersion, RowTaken, FilesInv, FileType
  <2>2. Cardinality(VersionsOf(a)) \in Nat
    BY <2>1, FS_CardinalityType DEF FilesInv, Numbered, AttachmentId
  <2>3. draft'[r] # NoDraft /\ draft'[r] \in Draft
    BY <2>1, <2>2 DEF NoDraft, Draft, AttachmentId
  <2>4. FileType'
    BY <1>1, <1>2, <1>3, <2>1, <2>3 DEF FilesInv, FileType
  <2>5. DraftsHold'
    BY <1>1, <1>3, <2>1, <2>3 DEF FilesInv, DraftsHold
  <2>6. \A q \in Request \ {r} :
            phase[q] \in {"running", "completing"} /\ Command[q] \in Attachment /\ draft[q] # NoDraft
              => Command[q] # a
    BY <2>1 DEF FilesInv, NumbersHold
  <2>7. \A b \in AttachmentId \ {a} : rowLock'[b] = rowLock[b]
    BY <2>1 DEF FilesInv, FileType
  <2>8. rowLock'[a] = r
    BY <2>1 DEF FilesInv, FileType, AttachmentId
  <2>9. NumbersHold'
    BY <1>1, <1>3, <2>1, <2>6, <2>7, <2>8, SameVersions DEF FilesInv, NumbersHold, AttachmentId
  <2>10. QED
    BY <1>5, <1>6, <2>4, <2>5, <2>9 DEF FilesInv
<1>9. QED
  BY <1>7, <1>8

LEMMA PutKeepsFiles ==
    ASSUME RequestInv, FilesInv, NEW r \in Request, Put(r)
    PROVE  FilesInv'
<1> USE IdempotencyAssumption, CollaborationAssumption, KeyType
<1>1. /\ draft[r] # NoDraft /\ objects' = objects \cup {r}
      /\ UNCHANGED <<files, deletedAt, draft, rowLock, notes, stored, phase>>
  BY DEF Put, Uploads, requestVars, noteVars
<1>2. \A a \in AttachmentId : Numbered(a)'
  BY <1>1, SameNumbered DEF FilesInv
<1>3. FilesTraced'
  BY <1>1 DEF FilesInv, FilesTraced, FileOf
<1>4. FileType' /\ DraftsHold'
  BY <1>1 DEF FilesInv, FileType, DraftsHold, AttachmentId
<1>5. NumbersHold'
  BY <1>1, SameVersions DEF FilesInv, NumbersHold
<1>6. QED
  BY <1>2, <1>3, <1>4, <1>5 DEF FilesInv

LEMMA DeleteKeepsFiles ==
    ASSUME RequestInv, FilesInv, NEW a \in AttachmentId, DeleteAttachment(a)
    PROVE  FilesInv'
<1> USE IdempotencyAssumption, CollaborationAssumption, KeyType
<1>1. /\ rowLock[a] = Nobody
      /\ deletedAt' = [deletedAt EXCEPT ![a] = Cardinality(VersionsOf(a))]
      /\ UNCHANGED <<files, objects, draft, rowLock, notes, stored, phase>>
  BY DEF DeleteAttachment, requestVars, noteVars
<1>2. Cardinality(VersionsOf(a)) \in Nat
  BY FS_CardinalityType DEF FilesInv, Numbered
<1>3. \A b \in AttachmentId : deletedAt'[b] = IF b = a THEN Cardinality(VersionsOf(a)) ELSE deletedAt[b]
  BY <1>1 DEF FilesInv, FileType
<1>4. FileType'
  BY <1>1, <1>2 DEF FilesInv, FileType
<1>5. DraftsHold' /\ FilesTraced'
  BY <1>1 DEF FilesInv, DraftsHold, FilesTraced, FileOf
<1>6. NumbersHold'
  BY <1>1, <1>3, SameVersions DEF FilesInv, NumbersHold, AttachmentId
<1>7. \A b \in AttachmentId : Numbered(b)'
  BY <1>1, <1>3, SameVersions DEF FilesInv, Numbered
<1>8. QED
  BY <1>4, <1>5, <1>6, <1>7 DEF FilesInv

\* A new row of attachment a that has the next number.
LEMMA NextVersion ==
    ASSUME NEW a, Numbered(a), NEW f, f \notin files, f.attachment = a,
           f.version = Cardinality(VersionsOf(a)) + 1,
           files' = files \cup {f}, deletedAt' = deletedAt, deletedAt[a] = 0
    PROVE  Numbered(a)'
<1> DEFINE V == VersionsOf(a)
           n == Cardinality(V)
<1>1. VersionsOf(a)' = V \cup {f} /\ f \notin V
  BY DEF VersionsOf
<1>2. IsFiniteSet(V) /\ n \in Nat /\ {g.version : g \in V} = 1..n
  BY FS_CardinalityType DEF Numbered
<1>3. IsFiniteSet(V \cup {f}) /\ Cardinality(V \cup {f}) = n + 1
  BY <1>1, <1>2, FS_AddElement
<1>4. {g.version : g \in V \cup {f}} = {g.version : g \in V} \cup {n + 1}
  OBVIOUS
<1>5. (1..n) \cup {n + 1} = 1..(n + 1)
  BY <1>2
<1>6. {g.version : g \in V \cup {f}} = 1..(n + 1)
  BY <1>2, <1>4, <1>5
<1>7. QED
  BY <1>1, <1>3, <1>6 DEF Numbered

LEMMA CommitKeepsFiles ==
    ASSUME RequestInv, FilesInv, NEW r \in Request, Commits(r)
    PROVE  FilesInv'
<1> USE IdempotencyAssumption, CollaborationAssumption, KeyType
<1>1. /\ phase[r] = "completing"
      /\ UNCHANGED <<deletedAt, objects, draft>>
      /\ rowLock' = Unlocked(r)
      /\ \A q \in Request : phase'[q] = IF q = r THEN "committed" ELSE phase[q]
      /\ \A k \in Keys : stored'[k] = IF k = Key[r] THEN r ELSE stored[k]
  BY DEF Commits, Commit, Committed, RequestInv, RequestType
<1>2. stored[Key[r]] = Nobody /\ (\A f \in files : f.by # r) /\ notes[r] = <<>>
  BY <1>1, RunningIsUntraced
<1>3. rowLock' \in [AttachmentId -> Request \cup {Nobody}]
  BY <1>1 DEF FilesInv, FileType, Unlocked
<1>4. \A q \in Request \ {r} : \A a \in AttachmentId : rowLock[a] = q => rowLock'[a] = q
  BY <1>1 DEF Unlocked
<1>5. DraftsHold'
  BY <1>1 DEF FilesInv, DraftsHold
<1>6. \A q \in Request \ {r} : stored'[Key[q]] = q => stored[Key[q]] = q
  BY <1>1
<1>7. \A q \in Request : stored[Key[q]] = q => stored'[Key[q]] = q /\ q # r
  BY <1>1, <1>2
<1>8. CASE Command[r] = "note"
  <2>1. /\ \A q \in Request \ {r} : notes'[q] = notes[q]
        /\ notes'[r] # <<>> /\ DOMAIN notes' = Request
        /\ files' = files
    <3> DEFINE new == <<[tab |-> Nobody, over |-> 0]>>
    <3>1. notes' = [notes EXCEPT ![r] = new] /\ files' = files
      BY <1>8 DEF Commits
    <3>2. new # <<>>
      OBVIOUS
    <3>3. DOMAIN notes = Request
      BY DEF FilesInv, FileType
    <3> HIDE DEF new
    <3>4. QED
      BY <3>1, <3>2, <3>3
  <2>2. FileType'
    BY <1>1, <1>3, <2>1 DEF FilesInv, FileType
  <2>3. NumbersHold'
    BY <1>1, <1>4, <1>8, <2>1, SameVersions DEF FilesInv, NumbersHold, AttachmentId
  <2>4. FilesTraced'
    BY <1>1, <1>2, <1>6, <1>7, <1>8, <2>1 DEF FilesInv, FilesTraced, FileOf
  <2>5. \A a \in AttachmentId : Numbered(a)'
    BY <1>1, <2>1, SameNumbered DEF FilesInv
  <2>6. QED
    BY <1>5, <2>2, <2>3, <2>4, <2>5 DEF FilesInv
<1>9. CASE Command[r] # "note"
  <2> DEFINE f == FileOf(r)
  <2>1. files' = files \cup {f} /\ notes' = notes
    BY <1>9 DEF Commits, FileOf
  <2>2. draft[r] # NoDraft /\ r \in objects /\ draft[r] \in Draft
    BY <1>1, <1>9 DEF FilesInv, DraftsHold, FileType
  <2>3. f \notin files /\ f.by = r /\ f.attachment = draft[r].attachment /\ f.version = draft[r].version
    BY <1>2 DEF FileOf
  <2>4. /\ draft[r].attachment \in AttachmentId
        /\ Command[r] = "upload" => draft[r].attachment = r /\ draft[r].version = 1
        /\ Command[r] # "upload" => Command[r] \in Attachment /\ draft[r].attachment = Command[r]
    <3>1. \/ Command[r] = "upload" /\ draft[r] = [attachment |-> r, version |-> 1]
          \/ Command[r] \in Attachment /\ draft[r].attachment = Command[r]
      BY <2>2 DEF FilesInv, DraftsHold
    <3>2. QED
      BY <3>1 DEF AttachmentId
  <2>5. f \in FileRow
    BY <2>2, <2>4 DEF FileRow, FileOf, Draft, AttachmentId
  <2>6. FileType'
    BY <1>1, <1>3, <2>1, <2>5 DEF FilesInv, FileType
  <2>7. FilesTraced'
    <3>1. \A g \in files' : g.by \in Request =>
              stored'[Key[g.by]] = g.by /\ Command[g.by] # "note" /\ g = FileOf(g.by)
      BY <1>1, <1>7, <1>9, <2>1, <2>3 DEF FilesInv, FilesTraced
    <3>2. \A g \in files' : (g.by \in Attachment => g.attachment = g.by) /\ g.by \in objects
      BY <2>1, <2>2, <2>3 DEF FilesInv, FilesTraced
    <3>3. \A q \in Request : stored'[Key[q]] = q =>
              IF Command[q] = "note" THEN notes'[q] # <<>> ELSE FileOf(q) \in files'
      BY <1>6, <1>9, <2>1 DEF FilesInv, FilesTraced
    <3>4. \A q \in Request : notes'[q] # <<>> => Command[q] = "note" /\ stored'[Key[q]] = q
      BY <1>7, <2>1 DEF FilesInv, FilesTraced
    <3>5. FileOf(r)' = FileOf(r) /\ \A q \in Request : FileOf(q)' = FileOf(q)
      BY <1>1 DEF FileOf
    <3>6. QED
      BY <1>1, <3>1, <3>2, <3>3, <3>4, <3>5 DEF FilesTraced
  <2>8. Numbered(draft[r].attachment)'
    <3> DEFINE a == draft[r].attachment
    <3>1. Numbered(a)
      BY <2>4 DEF FilesInv
    <3>2. CASE Command[r] # "upload"
      <4>1. deletedAt[a] = 0 /\ draft[r].version = Cardinality(VersionsOf(a)) + 1
        BY <1>1, <2>2, <2>4, <3>2 DEF FilesInv, NumbersHold
      <4>2. QED
        BY <1>1, <2>1, <2>3, <3>1, <4>1, NextVersion
    <3>3. CASE Command[r] = "upload"
      <4>1. a = r /\ draft[r].version = 1
        BY <2>4, <3>3
      <4>2. \A g \in files : g.attachment # r
        <5> SUFFICES ASSUME NEW g \in files, g.attachment = r PROVE FALSE
          OBVIOUS
        <5>1. g \in FileRow
          BY DEF FilesInv, FileType
        <5>2. g.by \in Request
          BY <5>1 DEF FilesInv, FilesTraced, FileRow, AttachmentId
        <5>3. g = FileOf(g.by)
          BY <5>2 DEF FilesInv, FilesTraced
        <5>4. g.attachment = draft[g.by].attachment
          BY <5>3 DEF FileOf
        <5>5. draft[g.by].attachment \in Attachment \cup {g.by, Nobody}
          <6>1. \/ draft[g.by] = [attachment |-> Nobody, version |-> 0]
                \/ draft[g.by] = [attachment |-> g.by, version |-> 1]
                \/ draft[g.by].attachment \in Attachment
            BY <5>2 DEF FilesInv, DraftsHold, NoDraft
          <6>2. QED
            BY <6>1
        <5>6. QED
          BY <1>2, <5>4, <5>5
      <4>3. VersionsOf(a) = {}
        BY <4>1, <4>2 DEF VersionsOf
      <4>4. Cardinality(VersionsOf(a)) = 0
        BY <4>3, FS_EmptySet
      <4>5. deletedAt[a] = 0
        BY <3>1, <4>4 DEF Numbered
      <4>6. draft[r].version = Cardinality(VersionsOf(a)) + 1
        BY <4>1, <4>4
      <4>7. QED
        BY <1>1, <2>1, <2>3, <3>1, <4>5, <4>6, NextVersion
    <3>4. QED
      BY <3>2, <3>3
  <2>9. \A a \in AttachmentId : a # draft[r].attachment => VersionsOf(a)' = VersionsOf(a)
    BY <2>1, <2>3 DEF VersionsOf
  <2>10. \A a \in AttachmentId : Numbered(a)'
    BY <1>1, <2>8, <2>9 DEF FilesInv, Numbered
  <2>11. NumbersHold'
    <3> SUFFICES ASSUME NEW q \in Request, phase'[q] \in {"running", "completing"},
                        Command[q] \in Attachment, draft[q] # NoDraft
                 PROVE  /\ rowLock'[Command[q]] = q
                        /\ deletedAt[Command[q]] = 0
                        /\ draft[q].version = Cardinality(VersionsOf(Command[q])') + 1
      BY <1>1 DEF NumbersHold
    <3>1. q # r /\ phase[q] = phase'[q]
      BY <1>1
    <3>2. /\ rowLock[Command[q]] = q
          /\ deletedAt[Command[q]] = 0
          /\ draft[q].version = Cardinality(VersionsOf(Command[q])) + 1
      BY <3>1 DEF FilesInv, NumbersHold
    <3>3. Command[q] # draft[r].attachment
      <4>1. CASE Command[r] = "upload"
        BY <2>4, <4>1
      <4>2. CASE Command[r] # "upload"
        BY <1>1, <2>2, <2>4, <3>1, <3>2, <4>2 DEF FilesInv, NumbersHold
      <4>3. QED
        BY <4>1, <4>2
    <3>4. QED
      BY <1>4, <2>9, <3>1, <3>2, <3>3 DEF AttachmentId
  <2>12. QED
    BY <1>5, <2>6, <2>7, <2>10, <2>11 DEF FilesInv
<1>10. QED
  BY <1>8, <1>9

LEMMA NoteActionsKeepFiles ==
    ASSUME RequestInv, FilesInv, NotesTyped, NEW t \in Tab,
           EditNote(t) \/ \E n \in Request : OpenNote(t, n)
    PROVE  FilesInv'
<1> USE IdempotencyAssumption, CollaborationAssumption, KeyType
<1>1. UNCHANGED <<files, deletedAt, objects, draft, rowLock, stored, phase>>
  BY DEF EditNote, OpenNote, requestVars, fileVars
<1>2. /\ DOMAIN notes' = Request
      /\ \A n \in Request : (notes'[n] = <<>>) <=> (notes[n] = <<>>)
  <2>1. CASE notes' = notes
    BY <2>1 DEF FilesInv, FileType
  <2>2. CASE notes' # notes
    <3> DEFINE m == opened[t].note
               new == Append(notes[m], [tab |-> t, over |-> opened[t].version])
    <3>1. m # Nobody /\ notes' = [notes EXCEPT ![m] = new]
      BY <2>2 DEF EditNote, OpenNote
    <3>2. m \in Request
      BY <3>1 DEF NotesTyped, Opened
    <3>3. notes[m] \in Seq(Text) /\ notes[m] # <<>>
      BY <3>1, <3>2 DEF NotesTyped
    <3>4. new # <<>>
      BY <3>3
    <3>5. DOMAIN notes = Request
      BY DEF FilesInv, FileType
    <3> HIDE DEF new, m
    <3>6. QED
      BY <3>1, <3>2, <3>3, <3>4, <3>5
  <2>3. QED
    BY <2>1, <2>2
<1>3. \A a \in AttachmentId : Numbered(a)'
  BY <1>1, SameNumbered DEF FilesInv
<1>4. FilesTraced'
  BY <1>1, <1>2 DEF FilesInv, FilesTraced, FileOf
<1>5. FileType' /\ DraftsHold'
  BY <1>1, <1>2 DEF FilesInv, FileType, DraftsHold
<1>6. NumbersHold'
  BY <1>1, SameVersions DEF FilesInv, NumbersHold
<1>7. QED
  BY <1>3, <1>4, <1>5, <1>6 DEF FilesInv

-----------------------------------------------------------------------------
(* Notes: a text is appended only over the newest version.                   *)

LEMMA NotesInit == CollaborationInit => NotesTyped /\ NotesKept
<1> SUFFICES ASSUME CollaborationInit PROVE NotesTyped /\ NotesKept
  OBVIOUS
<1>1. \A n \in Request : notes[n] = <<>>
  BY DEF CollaborationInit
<1>2. \A n \in Request : notes[n] \in Seq(Text) /\ DOMAIN notes[n] = {}
  <2>1. <<>> \in Seq(Text) /\ Len(<<>>) = 0
    OBVIOUS
  <2>2. DOMAIN <<>> = {}
    OBVIOUS
  <2>3. QED
    BY <1>1, <2>1, <2>2
<1>3. NotesTyped
  BY <1>2 DEF CollaborationInit, NotesTyped, Opened
<1>4. QED
  BY <1>2, <1>3 DEF NotesKept

LEMMA NotesStep ==
    ASSUME FilesInv, NotesTyped, NotesKept, CollaborationNext
    PROVE  NotesTyped' /\ NotesKept'
<1> USE IdempotencyAssumption
<1>1. CASE UNCHANGED <<notes, opened>>
  BY <1>1 DEF NotesTyped, NotesKept
<1>2. ASSUME NEW r \in Request, Commits(r), notes' # notes PROVE NotesTyped' /\ NotesKept'
  <2> DEFINE new == <<[tab |-> Nobody, over |-> 0]>>
  <2>1. notes' = [notes EXCEPT ![r] = new] /\ opened' = opened
    BY <1>2 DEF Commits
  <2>2. new \in Seq(Text) /\ new # <<>> /\ DOMAIN new = {1} /\ new[1].over = 0
    BY DEF Text
  <2>3. \A n \in Request : notes'[n] = IF n = r THEN new ELSE notes[n]
    BY <2>1 DEF NotesTyped
  <2>4. DOMAIN notes' = Request
    BY <2>1 DEF NotesTyped
  <2> HIDE DEF new
  <2>5. \A n \in Request : notes'[n] \in Seq(Text)
    BY <2>2, <2>3 DEF NotesTyped
  <2>6. \A n \in Request : \A i \in DOMAIN notes'[n] : notes'[n][i].over = i - 1
    BY <2>2, <2>3 DEF NotesKept
  <2>7. \A u \in Tab : opened[u].note # Nobody => notes'[opened[u].note] # <<>>
    BY <2>2, <2>3 DEF NotesTyped, Opened
  <2>8. QED
    BY <2>1, <2>4, <2>5, <2>6, <2>7 DEF NotesTyped, NotesKept
<1>3. ASSUME NEW t \in Tab, NEW n \in Request, OpenNote(t, n) PROVE NotesTyped' /\ NotesKept'
  <2>1. /\ notes' = notes /\ notes[n] # <<>> /\ notes[n] \in Seq(Text)
        /\ opened' = [opened EXCEPT ![t] = [note |-> n, version |-> Len(notes[n])]]
    BY <1>3 DEF OpenNote, NotesTyped
  <2>2. Len(notes[n]) \in Nat
    BY <2>1
  <2>3. opened' \in [Tab -> Opened]
    BY <2>1, <2>2 DEF NotesTyped, Opened
  <2>4. \A u \in Tab : opened'[u].note # Nobody => notes[opened'[u].note] # <<>>
    BY <2>1 DEF NotesTyped
  <2>5. QED
    BY <2>1, <2>3, <2>4 DEF NotesTyped, NotesKept
<1>4. ASSUME NEW t \in Tab, EditNote(t) PROVE NotesTyped' /\ NotesKept'
  <2> DEFINE m == opened[t].note
             e == [tab |-> t, over |-> opened[t].version]
             new == Append(notes[m], e)
  <2>1. /\ m # Nobody /\ opened[t].version = Len(notes[m])
        /\ notes' = [notes EXCEPT ![m] = new]
        /\ opened' = [opened EXCEPT ![t].version = Len(notes[m]) + 1]
    BY <1>4 DEF EditNote, Unchanged
  <2>2. m \in Request /\ notes[m] \in Seq(Text) /\ Len(notes[m]) \in Nat
    BY <2>1 DEF NotesTyped, Opened
  <2>3. e \in Text /\ e.over = Len(notes[m])
    BY <2>1, <2>2 DEF Text
  <2>4. /\ new \in Seq(Text) /\ new # <<>> /\ DOMAIN new = 1..(Len(notes[m]) + 1)
        /\ new[Len(notes[m]) + 1] = e
        /\ \A i \in 1..Len(notes[m]) : new[i] = notes[m][i]
    <3> HIDE DEF e
    <3>1. QED
      BY <2>2, <2>3
  <2>5. \A i \in 1..Len(notes[m]) : notes[m][i].over = i - 1
    BY <2>2 DEF NotesKept
  <2>6. \A i \in DOMAIN new : new[i].over = i - 1
    <3> DEFINE l == Len(notes[m])
    <3>1. l \in Nat /\ DOMAIN new = 1..(l + 1) /\ new[l + 1].over = l
      BY <2>2, <2>3, <2>4
    <3>2. \A i \in 1..l : new[i].over = i - 1
      BY <2>4, <2>5
    <3> HIDE DEF new, e, l
    <3>3. \A i \in 1..(l + 1) : i \in 1..l \/ i = l + 1
      BY <3>1
    <3>4. QED
      BY <3>1, <3>2, <3>3
  <2>7. \A n \in Request : notes'[n] = IF n = m THEN new ELSE notes[n]
    BY <2>1 DEF NotesTyped
  <2>8. DOMAIN notes' = Request
    BY <2>1 DEF NotesTyped
  <2>9. /\ opened' \in [Tab -> Opened]
        /\ \A u \in Tab : opened'[u].note = opened[u].note
    <3>1. opened[t] \in Opened
      BY DEF NotesTyped
    <3>2. [opened[t] EXCEPT !.version = Len(notes[m]) + 1] \in Opened
      BY <2>2, <3>1 DEF Opened
    <3> DEFINE o == [opened[t] EXCEPT !.version = Len(notes[m]) + 1]
    <3>3. opened' = [opened EXCEPT ![t] = o]
      BY <2>1
    <3>4. o.note = opened[t].note
      BY <3>1 DEF Opened
    <3> HIDE DEF o
    <3>5. QED
      BY <3>2, <3>3, <3>4 DEF NotesTyped, o
  <2> HIDE DEF new, e, m
  <2>10. \A n \in Request : notes'[n] \in Seq(Text) /\ (notes[n] # <<>> => notes'[n] # <<>>)
    BY <2>4, <2>7 DEF NotesTyped
  <2>11. \A n \in Request : \A i \in DOMAIN notes'[n] : notes'[n][i].over = i - 1
    BY <2>6, <2>7 DEF NotesKept
  <2>12. \A u \in Tab : opened'[u].note # Nobody => notes'[opened'[u].note] # <<>>
    <3>1. \A u \in Tab : opened[u].note # Nobody =>
              opened[u].note \in Request /\ notes[opened[u].note] # <<>>
      BY DEF NotesTyped, Opened
    <3>2. QED
      BY <2>9, <2>10, <3>1
  <2>13. notes' \in [Request -> Seq(Text)]
    BY <2>1, <2>8, <2>10
  <2>14. QED
    BY <2>9, <2>11, <2>12, <2>13 DEF NotesTyped, NotesKept
<1>5. ASSUME NEW r \in Request, Serve(r), ~Commits(r) PROVE UNCHANGED <<notes, opened>>
  BY <1>5 DEF Serve, Claims, Fails, Succeeds, Answers, Dies, NumberVersion, NumberFirst, Put,
              collaborationVars, noteVars
<1>6. ASSUME NEW r \in Request, Commits(r), notes' = notes PROVE UNCHANGED <<notes, opened>>
  BY <1>6 DEF Commits
<1>7. ASSUME NEW a \in AttachmentId, DeleteAttachment(a) PROVE UNCHANGED <<notes, opened>>
  BY <1>7 DEF DeleteAttachment, noteVars
<1>8. QED
  BY <1>1, <1>2, <1>3, <1>4, <1>5, <1>6, <1>7 DEF CollaborationNext

RecordsInv == RequestInv /\ FilesInv /\ NotesTyped /\ NotesKept

LEMMA RecordsInit == CollaborationInit => RecordsInv
  BY RequestInvInit, FilesInvInit, NotesInit DEF CollaborationInit, RecordsInv

LEMMA RecordsStep ==
    RecordsInv /\ [CollaborationNext]_<<requestVars, collaborationVars>> => RecordsInv'
<1> SUFFICES ASSUME RecordsInv, [CollaborationNext]_<<requestVars, collaborationVars>>
             PROVE  RecordsInv'
  OBVIOUS
<1> USE DEF RecordsInv
<1>1. CASE CollaborationNext
  <2>1. RequestInv'
    BY <1>1, CollaborationRefines, RequestInvStep
  <2>2. NotesTyped' /\ NotesKept'
    BY <1>1, NotesStep
  <2>3. FilesInv'
    BY <1>1, ClaimsKeepFiles, EndsKeepFiles, CommitKeepsFiles, NumberKeepsFiles, PutKeepsFiles,
       DeleteKeepsFiles, NoteActionsKeepFiles DEF CollaborationNext, Serve
  <2>4. QED
    BY <2>1, <2>2, <2>3
<1>2. CASE UNCHANGED <<requestVars, collaborationVars>>
  <2>1. UNCHANGED <<files, deletedAt, objects, rowLock, draft, notes, opened>>
    BY <1>2 DEF collaborationVars, fileVars, noteVars
  <2>2. UNCHANGED <<stored, phase>> /\ RequestInv'
    BY <1>2, RequestInvStep DEF requestVars
  <2>3. NotesTyped' /\ NotesKept'
    BY <2>1 DEF NotesTyped, NotesKept
  <2>4. \A a \in AttachmentId : Numbered(a)'
    BY <2>1, SameNumbered DEF FilesInv
  <2>5. NumbersHold'
    BY <2>1, <2>2, SameVersions DEF FilesInv, NumbersHold
  <2>6. FileType' /\ DraftsHold' /\ FilesTraced'
    BY <2>1, <2>2 DEF FilesInv, FileType, DraftsHold, FilesTraced, FileOf
  <2>7. QED
    BY <2>2, <2>3, <2>4, <2>5, <2>6 DEF FilesInv
<1>3. QED
  BY <1>1, <1>2

\* One file per key that took effect, and none for a note.
LEMMA OneFilePerKey ==
    ASSUME RecordsInv, NEW k \in Keys
    PROVE  Cardinality({f \in files : f.by \in Request /\ Key[f.by] = k})
             = IF stored[k] = Nobody \/ notes[stored[k]] # <<>> THEN 0 ELSE effects[k]
<1> DEFINE F == {f \in files : f.by \in Request /\ Key[f.by] = k}
           r == stored[k]
<1> USE IdempotencyAssumption DEF RecordsInv
<1>1. \A f \in F : f.by = r /\ Command[r] # "note" /\ f = FileOf(r)
  BY DEF FilesInv, FilesTraced
<1>2. r # Nobody => r \in Request /\ Key[r] = k
  BY DEF RequestInv, RequestType
<1>3. CASE r = Nobody
  <2>1. F = {}
    BY <1>1, <1>3
  <2>2. QED
    BY <1>3, <2>1, FS_EmptySet
<1>4. CASE r # Nobody /\ notes[r] # <<>>
  <2>1. F = {}
    BY <1>1, <1>2, <1>4 DEF FilesInv, FilesTraced
  <2>2. QED
    BY <1>4, <2>1, FS_EmptySet
<1>5. CASE r # Nobody /\ notes[r] = <<>>
  <2>1. FileOf(r) \in files /\ FileOf(r).by = r
    BY <1>2, <1>5 DEF FilesInv, FilesTraced, FileOf
  <2>2. F = {FileOf(r)}
    BY <1>1, <1>2, <1>5, <2>1
  <2>3. effects[k] = 1
    BY <1>5 DEF RequestInv
  <2>4. Cardinality({FileOf(r)}) = 1
    BY FS_Singleton
  <2>5. QED
    BY <1>5, <2>2, <2>3, <2>4
<1>6. QED
  BY <1>3, <1>4, <1>5

\* However uploads, retries, deletions and failures interleave, for any number of them:
\* versions are numbered without gap or repeat, every version has its object, a deleted
\* attachment gains none, a key that took effect left one version, and no edit of a note
\* is lost.
THEOREM StoredRecordsKept == CollaborationSpec => []RecordsKept
<1>1. RecordsInv => RecordsKept
  <2> SUFFICES ASSUME RecordsInv PROVE RecordsKept
    OBVIOUS
  <2>1. \A a \in AttachmentId : Numbered(a)
    BY DEF RecordsInv, FilesInv
  <2>2. \A f \in files : f.by \in objects
    BY DEF RecordsInv, FilesInv, FilesTraced
  <2>3. FilesKept
    BY <2>1, <2>2, OneFilePerKey DEF FilesKept, Numbered
  <2>4. QED
    BY <2>3 DEF RecordsKept, RecordsInv
<1>2. QED
  BY <1>1, RecordsInit, RecordsStep, PTL DEF CollaborationSpec

\* The commands of attachments and notes run inside the middleware's transaction and
\* leave its protocol alone: keyed uploads and notes take effect at most once as well.
THEOREM RecordsOnceOnly == CollaborationSpec => ImplementsOnceOnly
<1>1. CollaborationInit => Once!Init
  BY DEF CollaborationInit, RequestInit, Once!Init, Keys, Once!Keys
<1>2. [CollaborationNext]_<<requestVars, collaborationVars>> => [RequestNext]_requestVars
  BY CollaborationRefines
<1>3. CollaborationInit => RequestInv
  BY RequestInvInit DEF CollaborationInit
<1>4. QED
  BY <1>1, <1>2, <1>3, RequestInvStep, PTL DEF CollaborationSpec, ImplementsOnceOnly, Once!Spec

-----------------------------------------------------------------------------
(* The catalogue.  A submission holds the rows of the items it has written   *)
(* to, so no other can record a line of theirs before it ends, and what it   *)
(* found unrecorded is still unrecorded when it commits.                     *)

CatalogueType ==
    /\ DOMAIN lines = Requisition /\ \A q \in Requisition : lines[q] \in Drafts[q]
    /\ position \in [Requisition -> Nat]
    /\ written \in [Requisition -> [Item -> Seq(Line)]]
    /\ itemLock \in [Item -> Requisition \cup {NotHeld}]
    /\ DOMAIN item = Item
    /\ events \in [Item -> Seq(Line)]

\* The lines of a log or of a transaction, each once.
LinesOnce(log) == \A j, k \in 1..Len(log) : log[j].line = log[k].line => j = k

\* A submission of q whose lines are ls has written w to an item with this lock and log,
\* up to its line pos.
WellWritten(w, lock, q, ls, pos, log) ==
    /\ w # <<>> => lock = q
    /\ \A k \in 1..Len(w) : \E p \in 1..Len(ls) : p < pos /\ w[k] = ls[p]
    /\ LinesOnce(w)
    /\ \A k \in 1..Len(w), n \in 1..Len(log) : w[k].line # log[n].line

WrittenHolds(q, i) ==
    WellWritten(written[q][i], itemLock[i], q, lines[q], position[q], events[i])

ItemDerived(i) ==
    /\ item[i].times = Len(events[i])
    /\ item[i].price = IF events[i] = <<>> THEN 0 ELSE events[i][Len(events[i])].price
    /\ LinesOnce(events[i])

CatalogueInv ==
    /\ CatalogueType
    /\ \A q \in Requisition : position[q] = 0 => \A i \in Item : written[q][i] = <<>>
    /\ \A q \in Requisition, i \in Item : WrittenHolds(q, i)
    /\ \A i \in Item : ItemDerived(i)

LEMMA EmptyLines ==
    /\ <<>> \in Seq(Line) /\ Len(<<>>) = 0
    /\ LinesOnce(<<>>)
    /\ \A lock, q, ls, pos, log : WellWritten(<<>>, lock, q, ls, pos, log)
<1>1. <<>> \in Seq(Line) /\ Len(<<>>) = 0
  OBVIOUS
<1>2. QED
  BY <1>1 DEF LinesOnce, WellWritten

LEMMA CatalogueInvInit == CatalogueInit => CatalogueInv
<1> SUFFICES ASSUME CatalogueInit PROVE CatalogueInv
  OBVIOUS
<1>1. /\ \A q \in Requisition, i \in Item : written[q][i] = <<>>
      /\ \A i \in Item : events[i] = <<>> /\ item[i] = [times |-> 0, price |-> 0]
  BY DEF CatalogueInit
<1>2. CatalogueType
  BY EmptyLines DEF CatalogueInit, CatalogueType
<1>3. \A i \in Item : ItemDerived(i)
  BY <1>1, EmptyLines DEF ItemDerived
<1>4. \A q \in Requisition, i \in Item : WrittenHolds(q, i)
  BY <1>1, EmptyLines DEF WrittenHolds
<1>5. QED
  BY <1>1, <1>2, <1>3, <1>4 DEF CatalogueInv

LEMMA LogType ==
    ASSUME CatalogueInv, NEW q \in Requisition, NEW i \in Item
    PROVE  /\ written[q][i] \in Seq(Line) /\ Len(written[q][i]) \in Nat
           /\ events[i] \in Seq(Line) /\ Len(events[i]) \in Nat
           /\ lines[q] \in Seq(Line) /\ Len(lines[q]) \in Nat /\ LinesOnce(lines[q])
           /\ position[q] \in Nat
  BY CatalogueAssumption DEF CatalogueInv, CatalogueType, LinesOnce

LEMMA AppendedLine ==
    ASSUME NEW w \in Seq(Line), NEW c \in Line
    PROVE  /\ Append(w, c) \in Seq(Line) /\ Append(w, c) # <<>>
           /\ Len(Append(w, c)) = Len(w) + 1
           /\ \A k \in 1..Len(w) : Append(w, c)[k] = w[k]
           /\ Append(w, c)[Len(w) + 1] = c
  OBVIOUS

LEMMA JoinedLines ==
    ASSUME NEW e \in Seq(Line), NEW w \in Seq(Line)
    PROVE  /\ e \o w \in Seq(Line) /\ Len(e \o w) = Len(e) + Len(w)
           /\ \A k \in 1..Len(e) : (e \o w)[k] = e[k]
           /\ \A k \in 1..Len(w) : (e \o w)[Len(e) + k] = w[k]
           /\ w # <<>> => Len(w) > 0 /\ e \o w # <<>>
           /\ w = <<>> => e \o w = e
  OBVIOUS

LEMMA RecordLineStep ==
    ASSUME CatalogueInv, NEW q \in Requisition, RecordLine(q)
    PROVE  CatalogueInv'
<1>1. PICK p, c, i, w :
          p = position[q] /\ c = Current(q) /\ i = c.item /\ w = written[q][i]
  OBVIOUS
<1>2. /\ p \in 1..Len(lines[q]) /\ c = lines[q][p] /\ c \in Line /\ i \in Item
      /\ LinesOnce(lines[q]) /\ Len(lines[q]) \in Nat
  <2>1. /\ p \in DOMAIN lines[q] /\ c = lines[q][p]
        /\ lines[q] \in Seq(Line) /\ LinesOnce(lines[q])
    BY <1>1, CatalogueAssumption
    DEF RecordLine, Ready, Current, CatalogueInv, CatalogueType, LinesOnce
  <2>2. p \in 1..Len(lines[q]) /\ c \in Line /\ Len(lines[q]) \in Nat
    BY <2>1
  <2>3. QED
    BY <1>1, <2>1, <2>2 DEF Line
<1>3. /\ \A n \in 1..Len(events[i]) : events[i][n].line # c.line
      /\ itemLock[i] \in {NotHeld, q}
  <2>1. DOMAIN events[i] = 1..Len(events[i])
    BY <1>2, LogType
  <2>2. QED
    BY <1>1, <2>1 DEF RecordLine, Recorded
<1>4. /\ position' = [position EXCEPT ![q] = p + 1]
      /\ itemLock' = [itemLock EXCEPT ![i] = q]
      /\ written' = [written EXCEPT ![q][i] = Append(w, c)]
      /\ UNCHANGED <<lines, item, events>>
  BY <1>1 DEF RecordLine
<1>5. w \in Seq(Line) /\ Len(w) \in Nat /\ WrittenHolds(q, i)
  BY <1>1, <1>2, LogType DEF CatalogueInv
<1>6. /\ Append(w, c) \in Seq(Line) /\ Append(w, c) # <<>>
      /\ Len(Append(w, c)) = Len(w) + 1
      /\ \A k \in 1..Len(w) : Append(w, c)[k] = w[k]
      /\ Append(w, c)[Len(w) + 1] = c
  BY <1>2, <1>5, AppendedLine
<1>7. /\ \A r \in Requisition : position'[r] = IF r = q THEN p + 1 ELSE position[r]
      /\ \A j \in Item : itemLock'[j] = IF j = i THEN q ELSE itemLock[j]
      /\ \A r \in Requisition, j \in Item :
            written'[r][j] = IF r = q /\ j = i THEN Append(w, c) ELSE written[r][j]
  BY <1>1, <1>4 DEF CatalogueInv, CatalogueType
<1>8. CatalogueType'
  <2>1. position' \in [Requisition -> Nat] /\ itemLock' \in [Item -> Requisition \cup {NotHeld}]
    BY <1>2, <1>4 DEF CatalogueInv, CatalogueType
  <2>2. written' \in [Requisition -> [Item -> Seq(Line)]]
    BY <1>2, <1>4, <1>6 DEF CatalogueInv, CatalogueType
  <2>3. QED
    BY <1>4, <2>1, <2>2 DEF CatalogueInv, CatalogueType
<1>9. \A j \in Item : ItemDerived(j)'
  BY <1>4 DEF CatalogueInv, ItemDerived
<1>10. \A r \in Requisition : position'[r] = 0 => \A j \in Item : written'[r][j] = <<>>
  BY <1>2, <1>7 DEF CatalogueInv
<1>11. WrittenHolds(q, i)'
  <2> DEFINE v == Append(w, c)
  <2>1. \A k \in 1..Len(w) : \E m \in 1..Len(lines[q]) : m < p /\ w[k] = lines[q][m]
    BY <1>1, <1>5 DEF WrittenHolds, WellWritten
  <2>2. \A k \in 1..Len(w) : w[k].line # c.line
    BY <1>2, <2>1 DEF LinesOnce
  <2>3. \A k \in 1..Len(v) : k \in 1..Len(w) \/ k = Len(w) + 1
    BY <1>5, <1>6
  <2>4. LinesOnce(w) /\ \A k \in 1..Len(w), n \in 1..Len(events[i]) : w[k].line # events[i][n].line
    BY <1>1, <1>5 DEF WrittenHolds, WellWritten
  <2> HIDE DEF v
  <2>5. LinesOnce(v)
    BY <1>6, <2>2, <2>3, <2>4 DEF LinesOnce, v
  <2>6. \A k \in 1..Len(v), n \in 1..Len(events[i]) : v[k].line # events[i][n].line
    BY <1>3, <1>6, <2>3, <2>4 DEF v
  <2>7. \A k \in 1..Len(v) : \E m \in 1..Len(lines[q]) : m < p + 1 /\ v[k] = lines[q][m]
    BY <1>2, <1>6, <2>1, <2>3 DEF v
  <2>8. written'[q][i] = v /\ position'[q] = p + 1 /\ itemLock'[i] = q
    BY <1>2, <1>7 DEF v
  <2>9. lines' = lines /\ events' = events
    BY <1>4
  <2>10. WellWritten(v, q, q, lines[q], p + 1, events[i])
    BY <2>5, <2>6, <2>7 DEF WellWritten
  <2>11. QED
    BY <2>8, <2>9, <2>10 DEF WrittenHolds
<1>12. ASSUME NEW r \in Requisition, NEW j \in Item, r # q \/ j # i PROVE WrittenHolds(r, j)'
  <2>1. written'[r][j] = written[r][j] /\ WrittenHolds(r, j)
    BY <1>7, <1>12 DEF CatalogueInv
  <2>2. written[r][j] # <<>> => itemLock'[j] = r
    BY <1>3, <1>7, <1>12, <2>1, CatalogueAssumption DEF WrittenHolds, WellWritten
  <2>3. WellWritten(written[r][j], itemLock'[j], r, lines[r], position'[r], events[j])
    <3>1. position[r] \in Nat /\ position'[r] \in Nat /\ position[r] <= position'[r]
      BY <1>1, <1>7, LogType
    <3>2. WellWritten(written[r][j], itemLock[j], r, lines[r], position[r], events[j])
      BY <2>1 DEF WrittenHolds
    <3>3. \A k \in 1..Len(lines[r]) : k < position[r] => k < position'[r]
      BY <3>1
    <3>4. QED
      BY <2>2, <3>2, <3>3 DEF WellWritten
  <2>4. lines' = lines /\ events' = events
    BY <1>4
  <2>5. QED
    BY <2>1, <2>3, <2>4 DEF WrittenHolds
<1>13. QED
  BY <1>2, <1>8, <1>9, <1>10, <1>11, <1>12 DEF CatalogueInv

LEMMA EndSubmissionKeepsLocks ==
    ASSUME CatalogueInv, NEW q \in Requisition, EndSubmission(q)
    PROVE  /\ position' \in [Requisition -> Nat]
           /\ written' \in [Requisition -> [Item -> Seq(Line)]]
           /\ itemLock' \in [Item -> Requisition \cup {NotHeld}]
           /\ position'[q] = 0
           /\ \A i \in Item : written'[q][i] = <<>>
           /\ \A r \in Requisition \ {q} : position'[r] = position[r] /\ written'[r] = written[r]
           /\ \A r \in Requisition \ {q}, i \in Item : itemLock[i] = r => itemLock'[i] = r
           /\ \A r \in Requisition : position'[r] = 0 => \A i \in Item : written'[r][i] = <<>>
<1>1. [i \in Item |-> <<>>] \in [Item -> Seq(Line)]
  BY EmptyLines
<1>2. QED
  BY <1>1 DEF EndSubmission, CatalogueInv, CatalogueType

\* What a submission writes is kept as it is while others begin, move on or end.
LEMMA OthersWritten ==
    ASSUME CatalogueInv, NEW q \in Requisition, NEW i \in Item,
           written'[q][i] = written[q][i], itemLock[i] = q => itemLock'[i] = q,
           lines'[q] = lines[q], events'[i] = events[i] \/ written[q][i] = <<>>,
           position[q] <= position'[q], position'[q] \in Nat
    PROVE  WrittenHolds(q, i)'
<1>1. WrittenHolds(q, i) /\ position[q] \in Nat
  BY LogType DEF CatalogueInv
<1>2. CASE written[q][i] = <<>>
  BY <1>2, EmptyLines DEF WrittenHolds
<1>3. CASE events'[i] = events[i]
  <2>1. WellWritten(written[q][i], itemLock'[i], q, lines[q], position'[q], events[i])
    BY <1>1 DEF WrittenHolds, WellWritten
  <2>2. QED
    BY <1>3, <2>1 DEF WrittenHolds
<1>4. QED
  BY <1>2, <1>3

LEMMA CommitSubmissionStep ==
    ASSUME CatalogueInv, NEW q \in Requisition, CommitSubmission(q)
    PROVE  CatalogueInv'
<1>1. EndSubmission(q) /\ lines' = lines
  BY DEF CommitSubmission
<1>2. \A i \in Item : events'[i] = events[i] \o written[q][i]
  BY DEF CommitSubmission
<1>3. CatalogueType'
  <2>1. \A i \in Item : events[i] \o written[q][i] \in Seq(Line)
    BY LogType
  <2>2. events' \in [Item -> Seq(Line)] /\ DOMAIN item' = Item
    BY <2>1 DEF CommitSubmission
  <2>3. QED
    BY <1>1, <2>2, EndSubmissionKeepsLocks DEF CatalogueInv, CatalogueType
<1>4. \A r \in Requisition : position'[r] = 0 => \A i \in Item : written'[r][i] = <<>>
  BY <1>1, EndSubmissionKeepsLocks
<1>5. ASSUME NEW i \in Item PROVE ItemDerived(i)'
  <2> DEFINE w == written[q][i]
             e == events[i]
  <2>1. /\ w \in Seq(Line) /\ e \in Seq(Line) /\ Len(w) \in Nat /\ Len(e) \in Nat
        /\ ItemDerived(i) /\ WrittenHolds(q, i)
    BY LogType DEF CatalogueInv
  <2>2. CASE w = <<>>
    <3>1. e \o w = e
      BY <2>1, <2>2
    <3>2. events'[i] = events[i] /\ item'[i] = item[i]
      BY <1>2, <2>2, <3>1 DEF CommitSubmission
    <3>3. QED
      BY <2>1, <3>2 DEF ItemDerived, LinesOnce
  <2>3. CASE w # <<>>
    <3>1. events'[i] = e \o w
      BY <1>2
    <3>2. item'[i] = [times |-> item[i].times + Len(w), price |-> w[Len(w)].price]
      BY <2>3 DEF CommitSubmission, Counted
    <3>3. /\ Len(e \o w) = Len(e) + Len(w) /\ Len(w) > 0 /\ e \o w # <<>>
          /\ \A k \in 1..Len(e) : (e \o w)[k] = e[k]
          /\ \A k \in 1..Len(w) : (e \o w)[Len(e) + k] = w[k]
      <4> HIDE DEF w, e
      <4> QED
        BY <2>1, <2>3, JoinedLines
    <3>4. LinesOnce(e) /\ LinesOnce(w) /\ \A k \in 1..Len(w), n \in 1..Len(e) : w[k].line # e[n].line
      BY <2>1 DEF ItemDerived, WrittenHolds, WellWritten
    <3>5. item[i].times = Len(e)
      BY <2>1 DEF ItemDerived
    <3> DEFINE log == e \o w
               m == Len(e)
               n == Len(w)
    <3>6. \A k \in 1..(m + n) : k \in 1..m \/ (k - m \in 1..n /\ k = m + (k - m))
      <4> SUFFICES \A x, y \in Nat : \A k \in 1..(x + y) :
                       k \in 1..x \/ (k - x \in 1..y /\ k = x + (k - x))
        BY <2>1
      <4> QED
        OBVIOUS
    <3> HIDE DEF w, e, log
    <3>7. LinesOnce(log)
      BY <2>1, <3>3, <3>4, <3>6 DEF LinesOnce, log
    <3>8. log[Len(log)] = w[Len(w)]
      BY <2>1, <3>3 DEF log
    <3>9. events'[i] = log /\ log # <<>> /\ Len(log) = Len(e) + Len(w)
      BY <3>1, <3>3 DEF log
    <3>10. QED
      BY <3>2, <3>5, <3>7, <3>8, <3>9 DEF ItemDerived, LinesOnce
  <2>4. QED
    BY <2>2, <2>3
<1>6. ASSUME NEW r \in Requisition, NEW i \in Item PROVE WrittenHolds(r, i)'
  <2>1. CASE r = q
    <3>1. written'[r][i] = <<>>
      BY <1>1, <2>1, EndSubmissionKeepsLocks, EmptyLines
    <3>2. QED
      BY <3>1, EmptyLines DEF WrittenHolds
  <2>2. CASE r # q
    <3>1. written[r][i] = <<>> \/ events'[i] = events[i]
      <4>1. CASE written[q][i] = <<>>
        <5>1. events[i] \in Seq(Line) /\ written[q][i] \in Seq(Line)
          BY LogType
        <5>2. events[i] \o written[q][i] = events[i]
          BY <4>1, <5>1
        <5>3. QED
          BY <1>2, <4>1, <5>2
      <4>2. CASE written[q][i] # <<>> /\ written[r][i] # <<>>
        BY <2>2, <4>2 DEF CatalogueInv, WrittenHolds, WellWritten
      <4>3. QED
        BY <4>1, <4>2
    <3>2. position[r] \in Nat
      BY LogType
    <3>3. /\ position'[r] = position[r] /\ written'[r] = written[r]
          /\ itemLock[i] = r => itemLock'[i] = r
      BY <1>1, <2>2, EndSubmissionKeepsLocks
    <3>4. position[r] <= position'[r] /\ position'[r] \in Nat
      BY <3>2, <3>3
    <3>5. QED
      BY <1>1, <3>1, <3>3, <3>4, OthersWritten
  <2>3. QED
    BY <2>1, <2>2
<1>7. QED
  BY <1>3, <1>4, <1>5, <1>6 DEF CatalogueInv

\* The steps that commit nothing and write no line.
LEMMA OtherSubmissionSteps ==
    ASSUME CatalogueInv, NEW q \in Requisition,
           Rewrite(q) \/ BeginSubmission(q) \/ SkipLine(q) \/ AbortSubmission(q)
    PROVE  CatalogueInv'
<1>1. UNCHANGED <<item, events>>
  BY DEF Rewrite, BeginSubmission, SkipLine, AbortSubmission
<1>2. \A i \in Item : ItemDerived(i)'
  BY <1>1 DEF CatalogueInv, ItemDerived, LinesOnce
<1>3. CASE Rewrite(q)
  <2>1. PICK d \in Drafts[q] : lines' = [lines EXCEPT ![q] = d]
    BY <1>3 DEF Rewrite
  <2>2. position[q] = 0 /\ UNCHANGED <<position, written, itemLock>>
    BY <1>3 DEF Rewrite
  <2>3. CatalogueType' /\ \A r \in Requisition \ {q} : lines'[r] = lines[r]
    BY <1>1, <2>1, <2>2 DEF CatalogueInv, CatalogueType
  <2>4. ASSUME NEW r \in Requisition, NEW i \in Item PROVE WrittenHolds(r, i)'
    <3>1. CASE r = q
      <4>1. written'[r][i] = <<>>
        BY <2>2, <3>1, EmptyLines DEF CatalogueInv
      <4>2. QED
        BY <4>1, EmptyLines DEF WrittenHolds
    <3>2. CASE r # q
      BY <1>1, <2>2, <2>3, <3>2, OthersWritten, LogType
    <3>3. QED
      BY <3>1, <3>2
  <2>5. QED
    BY <1>2, <2>2, <2>3, <2>4 DEF CatalogueInv
<1>4. CASE BeginSubmission(q) \/ SkipLine(q)
  <2>1. UNCHANGED <<lines, written, itemLock>> /\ position' = [position EXCEPT ![q] = @ + 1]
    BY <1>4 DEF BeginSubmission, SkipLine, CatalogueInv, CatalogueType
  <2>2. \A r \in Requisition :
            position'[r] \in Nat /\ position[r] <= position'[r] /\ (r = q => position'[r] # 0)
    BY <2>1 DEF CatalogueInv, CatalogueType
  <2>3. CatalogueType'
    BY <1>1, <2>1 DEF CatalogueInv, CatalogueType
  <2>4. \A r \in Requisition : position'[r] = 0 => \A i \in Item : written'[r][i] = <<>>
    BY <2>1, <2>2 DEF CatalogueInv, CatalogueType
  <2>5. \A r \in Requisition, i \in Item : WrittenHolds(r, i)'
    BY <1>1, <2>1, <2>2, OthersWritten
  <2>6. QED
    BY <1>2, <2>3, <2>4, <2>5 DEF CatalogueInv
<1>5. CASE AbortSubmission(q)
  <2>1. EndSubmission(q) /\ lines' = lines
    BY <1>5 DEF AbortSubmission
  <2>2. CatalogueType'
    BY <1>1, <2>1, EndSubmissionKeepsLocks DEF CatalogueInv, CatalogueType
  <2>3. \A r \in Requisition : position'[r] = 0 => \A i \in Item : written'[r][i] = <<>>
    BY <2>1, EndSubmissionKeepsLocks
  <2>4. ASSUME NEW r \in Requisition, NEW i \in Item PROVE WrittenHolds(r, i)'
    <3>1. CASE r = q
      <4>1. written'[r][i] = <<>>
        BY <2>1, <3>1, EndSubmissionKeepsLocks, EmptyLines
      <4>2. QED
        BY <4>1, EmptyLines DEF WrittenHolds
    <3>2. CASE r # q
      <4>1. position[r] \in Nat
        BY LogType
      <4>2. /\ position'[r] = position[r] /\ written'[r] = written[r]
            /\ itemLock[i] = r => itemLock'[i] = r
        BY <2>1, <3>2, EndSubmissionKeepsLocks
      <4>3. position[r] <= position'[r] /\ position'[r] \in Nat
        BY <4>1, <4>2
      <4>4. QED
        BY <1>1, <2>1, <4>2, <4>3, OthersWritten
    <3>3. QED
      BY <3>1, <3>2
  <2>5. QED
    BY <1>2, <2>2, <2>3, <2>4 DEF CatalogueInv
<1>6. QED
  BY <1>3, <1>4, <1>5

\* However submissions and resubmissions interleave, wait for each other and fail: an
\* item of the catalogue counts the lines that asked for it, each once, and shows the
\* price of the newest.
THEOREM CatalogueIsDerived == CatalogueSpec => []CatalogueDerived
<1>1. CatalogueInv /\ [CatalogueNext]_catalogueVars => CatalogueInv'
  <2> SUFFICES ASSUME CatalogueInv, [CatalogueNext]_catalogueVars PROVE CatalogueInv'
    OBVIOUS
  <2>1. CASE CatalogueNext
    BY <2>1, RecordLineStep, CommitSubmissionStep, OtherSubmissionSteps DEF CatalogueNext
  <2>2. CASE UNCHANGED catalogueVars
    <3>1. UNCHANGED <<lines, position, written, itemLock, item, events>>
      BY <2>2 DEF catalogueVars
    <3>2. ASSUME NEW q \in Requisition, NEW i \in Item PROVE WrittenHolds(q, i)'
      <4>1. position[q] \in Nat
        BY LogType
      <4>2. QED
        BY <3>1, <4>1, OthersWritten
    <3>3. \A i \in Item : ItemDerived(i)'
      BY <3>1 DEF CatalogueInv, ItemDerived, LinesOnce
    <3>4. CatalogueType'
      BY <3>1 DEF CatalogueInv, CatalogueType
    <3>5. QED
      BY <3>1, <3>2, <3>3, <3>4 DEF CatalogueInv
  <2>3. QED
    BY <2>1, <2>2
<1>2. CatalogueInv => CatalogueDerived
  <2> SUFFICES ASSUME CatalogueInv, NEW i \in Item
               PROVE  /\ item[i].times = Len(events[i])
                      /\ item[i].price = IF events[i] = <<>> THEN 0
                                         ELSE events[i][Len(events[i])].price
                      /\ \A j, k \in DOMAIN events[i] :
                            events[i][j].line = events[i][k].line => j = k
    BY DEF CatalogueDerived
  <2>1. DOMAIN events[i] = 1..Len(events[i])
    BY DEF CatalogueInv, CatalogueType
  <2>2. QED
    BY <2>1 DEF CatalogueInv, ItemDerived, LinesOnce
<1>3. QED
  BY <1>1, <1>2, CatalogueInvInit, PTL DEF CatalogueSpec
=============================================================================
