----------------------------- MODULE MCPlatform -----------------------------
(***************************************************************************)
(* The outbox with its dispatcher, the reminders that add to it, the keyed *)
(* requests that write attachments and notes, and the catalogue, for TLC.  *)
(*                                                                         *)
(* They share no state but the outbox rows, and a row does not depend on   *)
(* another, so each behaviour follows one of them.  The reminders run      *)
(* without the dispatcher: they only read whether a digest's key is there, *)
(* and dispatching never removes one.                                      *)
(***************************************************************************)
EXTENDS Reminders, Collaboration, Catalogue

CONSTANTS m1, m2, p1, p2, p3, t1, t2, r1, r2, r3, r4, r5, k1, k2, k3, a1, x, y,
          q1, q2, i1, i2

VARIABLE part   \* what this behaviour follows

all == <<vars, reminderVars, requestVars, collaborationVars, catalogueVars, part>>

Messages == {m1, m2} \cup (Person \X (1..MaxDay))

\* t1 is due at once and escalates to p3; t2 is due a day later.
Bases == [t \in Task |-> IF t = t1 THEN {p1, p2} ELSE {p2}]
Extras == [t \in Task |-> IF t = t1 THEN {p3} ELSE {}]
DueDays == [t \in Task |-> IF t = t1 THEN 1 ELSE 3]
EscalateDays == [t \in Task |-> 1]

\* Nobody away; p1 away; p1 and then p2 covered by the same person.
Covers ==
    LET from(p) == [delegator |-> p, delegate |-> p3]
    IN  {<<>>, <<from(p1)>>, <<from(p1), from(p2)>>}

\* r2 repeats r1, r3 reuses their key for a new attachment, r4 adds a version to the
\* attachment of r1, and r5 writes a note.
Keyed == [r \in Request |-> CASE r = r4 -> k2 [] r = r5 -> k3 [] OTHER -> k1]
Contents == [r \in Request |-> IF r \in {r1, r2} THEN x ELSE y]
Commands == [r \in Request |-> CASE r = r3 -> "upload" [] r = r5 -> "note" [] OTHER -> a1]

\* q1 asks for i1 and i2, or for i2 alone under the line of i1; q2 asks for i2 and then i1,
\* or twice for i1.
Lines ==
    LET line(n, i, p) == [line |-> n, item |-> i, price |-> p]
    IN  [q \in Requisition |->
            IF q = q1 THEN {<<line(1, i1, 1), line(2, i2, 1)>>, <<line(1, i2, 2)>>}
            ELSE {<<line(3, i2, 3), line(4, i1, 3)>>, <<line(3, i1, 1), line(4, i1, 2)>>}]

\* What one behaviour follows: a tenant row or an identity row on its way through the
\* outbox, the reminders, uploads, notes, or the catalogue.
Parts == {m1, m2, "reminders", "files", "notes", "catalogue"}

PlatformInit ==
    /\ Init /\ RemindersInit /\ CollaborationInit /\ CatalogueInit
    /\ part \in Parts
    /\ part # "reminders" => cover = <<>>
    /\ part # "catalogue" => lines = [q \in Requisition |-> CHOOSE d \in Drafts[q] : TRUE]

MailNext(m) ==
    \/ Add(m) \/ Discard(m) \/ BecomesDue(m) \/ LockAges(m) \/ Expires(m)
    \/ \E w \in Worker : Claim(w, m) \/ Sweep(w) \/ Deliver(w) \/ Crash(w)

FilesNext ==
    \/ \E r \in Request \ {r5} : Serve(r)
    \/ \E a \in AttachmentId : DeleteAttachment(a)

NotesNext ==
    \/ Serve(r5)
    \/ \E t \in Tab : EditNote(t) \/ OpenNote(t, r5)

PlatformNext ==
    /\ UNCHANGED part
    /\ \/ /\ part \in {m1, m2} /\ MailNext(part)
          /\ UNCHANGED <<reminderVars, requestVars, collaborationVars, catalogueVars>>
       \/ /\ part = "reminders" /\ RemindersNext
          /\ UNCHANGED <<requestVars, collaborationVars, catalogueVars>>
       \/ /\ part = "files" /\ FilesNext
          /\ UNCHANGED <<vars, reminderVars, catalogueVars>>
       \/ /\ part = "notes" /\ NotesNext
          /\ UNCHANGED <<vars, reminderVars, catalogueVars>>
       \/ /\ part = "catalogue" /\ CatalogueNext
          /\ UNCHANGED <<vars, reminderVars, requestVars, collaborationVars>>

Mail == part \in {m1, m2}

\* Time passes, the cron keeps ticking, and a tick that is not killed goes on: for the rows
\* the behaviour follows.
MailFairness ==
    /\ \A m \in {m1, m2} : WF_vars(part = m /\ BecomesDue(m)) /\ WF_vars(part = m /\ LockAges(m))
    /\ WF_vars(\E w \in Worker : (\E m \in Message : Claim(w, m)) \/ (Mail /\ Sweep(w)))
    /\ \A w \in Worker : WF_vars(Mail /\ Deliver(w))

PlatformSpec == PlatformInit /\ [][PlatformNext]_all /\ MailFairness
=============================================================================
