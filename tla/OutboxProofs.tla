---------------------------- MODULE OutboxProofs ----------------------------
(***************************************************************************)
(* The outbox for any number of rows, ticks and faults: type correctness,  *)
(* one email per row, and settled rows that stay settled.  And the         *)
(* reminders beside it, for any number of tasks, people, runs and days.    *)
(***************************************************************************)
EXTENDS Reminders, FiniteSetTheorems, TLAPS

\* The ways a tick can end its delivery.
Ending(w) == RecordSent(w) \/ RecordRetry(w) \/ RecordDead(w) \/ Conflict(w) \/ Crash(w)

LEMMA SweptType == TypeOK => Swept \in [Message -> RowState]
  BY DEF TypeOK, Swept, RowState

LEMMA TypeInit == Init => TypeOK
  BY OutboxAssumption DEF Init, TypeOK, RowState

LEMMA TypeStep == TypeOK /\ [Next]_vars => TypeOK'
<1> SUFFICES ASSUME TypeOK, [Next]_vars PROVE TypeOK'
  OBVIOUS
<1> USE OutboxAssumption DEF TypeOK, RowState, tickVars, rowVars
<1>1. ASSUME NEW m \in Message,
             Add(m) \/ Discard(m) \/ BecomesDue(m) \/ LockAges(m) \/ Expires(m)
      PROVE  TypeOK'
  <2>1. CASE Add(m)
    BY <2>1 DEF Add
  <2>2. CASE Discard(m)
    BY <2>2 DEF Discard
  <2>3. CASE BecomesDue(m)
    BY <2>3 DEF BecomesDue
  <2>4. CASE LockAges(m)
    BY <2>4 DEF LockAges
  <2>5. CASE Expires(m)
    BY <2>5 DEF Expires
  <2>6. QED
    BY <1>1, <2>1, <2>2, <2>3, <2>4, <2>5
<1>2. ASSUME NEW w \in Worker, NEW m \in Message, Claim(w, m) PROVE TypeOK'
  <2>1. state' \in [Message -> RowState]
    BY <1>2, SweptType DEF Claim
  <2>2. attempts' \in [Message -> Nat] /\ seen' \in [Worker -> Nat]
    BY <1>2 DEF Claim
  <2>3. QED
    BY <1>2, <2>1, <2>2 DEF Claim
<1>3. ASSUME NEW w \in Worker, Sweep(w) PROVE TypeOK'
  BY <1>3, SweptType DEF Sweep
<1>4. ASSUME NEW w \in Worker, stage[w] = "claimed" PROVE HandoffKey(w) \in Message \X Nat
  BY <1>4 DEF HandoffKey
<1>5. ASSUME NEW w \in Worker, ProviderAccepts(w) PROVE TypeOK'
  BY <1>4, <1>5 DEF ProviderAccepts
<1>6. ASSUME NEW w \in Worker, NEW lost \in BOOLEAN, ProviderTransient(w, lost) PROVE TypeOK'
  BY <1>4, <1>6 DEF ProviderTransient
<1>7. ASSUME NEW w \in Worker, ProviderRejects(w) \/ RecordSentFails(w) PROVE TypeOK'
  BY <1>7 DEF ProviderRejects, RecordSentFails
<1>8. ASSUME NEW w \in Worker, Ending(w) PROVE TypeOK'
  <2>1. EndDelivery(w)
    BY <1>8 DEF Ending, RecordSent, RecordRetry, RecordDead, Record, Conflict, Crash
  <2>2. /\ row' \in [Worker -> Message \cup {NoMessage}]
        /\ seen' \in [Worker -> Nat]
        /\ stage' \in [Worker -> {"idle", "claimed", "accepted", "retrying", "burying"}]
        /\ \A v \in Worker : stage'[v] # "idle" => row'[v] \in Message
    BY <2>1 DEF EndDelivery
  <2>3. CASE RecordSent(w)
    BY <2>2, <2>3 DEF RecordSent, Record
  <2>4. CASE RecordRetry(w)
    BY <2>2, <2>4 DEF RecordRetry, Record
  <2>5. CASE RecordDead(w)
    BY <2>2, <2>5 DEF RecordDead, Record
  <2>6. CASE Conflict(w)
    BY <2>2, <2>6 DEF Conflict
  <2>7. CASE Crash(w)
    BY <2>2, <2>7 DEF Crash
  <2>8. QED
    BY <1>8, <2>3, <2>4, <2>5, <2>6, <2>7 DEF Ending
<1>9. CASE UNCHANGED vars
  BY <1>9 DEF vars
<1>10. QED
  BY <1>1, <1>2, <1>3, <1>5, <1>6, <1>7, <1>8, <1>9 DEF Next, Deliver, Ending

\* Every reachable state of the outbox and its dispatchers is well typed.
THEOREM TypeCorrect == Spec => []TypeOK
  BY TypeInit, TypeStep, PTL DEF Spec

-----------------------------------------------------------------------------
(* One email per row.                                                        *)

LEMMA KeysInit == Init => OwnKeyAccepted
  BY DEF Init, OwnKeyAccepted

LEMMA KeysStep == TypeOK /\ OwnKeyAccepted /\ [Next]_vars => OwnKeyAccepted'
<1> SUFFICES ASSUME TypeOK, OwnKeyAccepted, [Next]_vars PROVE OwnKeyAccepted'
  OBVIOUS
<1> USE DEF OwnKeyAccepted
<1>1. ASSUME NEW m \in Message,
             Add(m) \/ Discard(m) \/ BecomesDue(m) \/ LockAges(m) \/ Expires(m)
      PROVE  OwnKeyAccepted'
  BY <1>1 DEF Add, Discard, BecomesDue, LockAges, Expires, tickVars, TypeOK
<1>2. ASSUME NEW w \in Worker, NEW m \in Message, Claim(w, m) PROVE OwnKeyAccepted'
  <2>1. \A i \in Message : state'[i] = "sent" => state[i] = "sent"
    BY <1>2 DEF Claim, Swept
  <2>2. \A v \in Worker : stage'[v] = "accepted" => stage[v] = "accepted" /\ row'[v] = row[v]
    BY <1>2 DEF Claim, TypeOK
  <2>3. accepted' = accepted
    BY <1>2 DEF Claim
  <2>4. QED
    BY <2>1, <2>2, <2>3
<1>3. ASSUME NEW w \in Worker, Sweep(w) PROVE OwnKeyAccepted'
  BY <1>3 DEF Sweep, Swept, tickVars
<1>4. ASSUME NEW w \in Worker, ProviderAccepts(w) PROVE OwnKeyAccepted'
  BY <1>4 DEF ProviderAccepts, HandoffKey, rowVars, TypeOK
<1>5. ASSUME NEW w \in Worker, NEW lost \in BOOLEAN, ProviderTransient(w, lost)
      PROVE  OwnKeyAccepted'
  BY <1>5 DEF ProviderTransient, HandoffKey, rowVars, TypeOK
<1>6. ASSUME NEW w \in Worker, ProviderRejects(w) \/ RecordSentFails(w) PROVE OwnKeyAccepted'
  BY <1>6 DEF ProviderRejects, RecordSentFails, rowVars, TypeOK
<1>7. ASSUME NEW w \in Worker, Ending(w) PROVE OwnKeyAccepted'
  <2>1. accepted' = accepted /\ EndDelivery(w)
    BY <1>7 DEF Ending, RecordSent, RecordRetry, RecordDead, Record, Conflict, Crash
  <2>2. \A v \in Worker : stage'[v] = "accepted" => stage[v] = "accepted" /\ row'[v] = row[v]
    BY <2>1 DEF EndDelivery, TypeOK
  <2>3. \A i \in Message : state'[i] = "sent" =>
                             state[i] = "sent" \/ (i = row[w] /\ stage[w] = "accepted")
    BY <1>7 DEF Ending, RecordSent, RecordRetry, RecordDead, Record, Conflict, Crash, rowVars,
                TypeOK
  <2>4. QED
    BY <2>1, <2>2, <2>3
<1>8. CASE UNCHANGED vars
  BY <1>8 DEF vars
<1>9. QED
  BY <1>1, <1>2, <1>3, <1>4, <1>5, <1>6, <1>7, <1>8 DEF Next, Deliver, Ending

\* The provider accepts at most one email per row and every row recorded as sent
\* has one, whatever dies, times out or comes back late.
THEOREM EmailsSentOnce == Spec => []SentOnce
<1>1. OwnKeyAccepted => SentOnce
  <2> SUFFICES ASSUME OwnKeyAccepted, NEW m \in Message
               PROVE  /\ Cardinality(Emails(m)) <= 1
                      /\ state[m] = "sent" => Emails(m) # {}
    BY DEF SentOnce
  <2>1. Emails(m) \subseteq {<<m, 0>>}
    BY DEF Emails, OwnKeyAccepted
  <2>2. Emails(m) = {} \/ Emails(m) = {<<m, 0>>}
    BY <2>1
  <2>3. Cardinality(Emails(m)) <= 1
    BY <2>2, FS_EmptySet, FS_Singleton
  <2>4. state[m] = "sent" => <<m, 0>> \in Emails(m)
    BY DEF Emails, OwnKeyAccepted
  <2>5. QED
    BY <2>3, <2>4
<1>2. QED
  BY TypeInit, TypeStep, KeysInit, KeysStep, <1>1, PTL DEF Spec

-----------------------------------------------------------------------------
(* Settled rows stay settled.                                                *)

\* No step of any tick, late or not, changes a settled row other than to delete it.
THEOREM SettledRowsFinal == Spec => SettledIsFinal
<1>1. TypeOK /\ [Next]_vars =>
        [\A m \in Message :
           state[m] \in {"sent", "dead"} => state'[m] \in {state[m], "gone"}]_vars
  <2> SUFFICES ASSUME TypeOK, Next, NEW m \in Message, state[m] \in {"sent", "dead"}
               PROVE  state'[m] \in {state[m], "gone"}
    OBVIOUS
  <2>1. ASSUME NEW i \in Message,
               Add(i) \/ Discard(i) \/ BecomesDue(i) \/ LockAges(i) \/ Expires(i)
        PROVE  state'[m] \in {state[m], "gone"}
    BY <2>1 DEF Add, Discard, BecomesDue, LockAges, Expires, TypeOK
  <2>2. ASSUME NEW w \in Worker, (\E i \in Message : Claim(w, i)) \/ Sweep(w)
        PROVE  state'[m] \in {state[m], "gone"}
    BY <2>2 DEF Claim, Sweep, Swept
  <2>3. ASSUME NEW w \in Worker, UNCHANGED state PROVE state'[m] \in {state[m], "gone"}
    BY <2>3
  <2>4. ASSUME NEW w \in Worker, RecordSent(w) \/ RecordRetry(w) \/ RecordDead(w)
        PROVE  state'[m] \in {state[m], "gone"}
    <3>1. StillClaimed(row[w]) /\ \E to \in RowState : state' = [state EXCEPT ![row[w]] = to]
      BY <2>4 DEF RecordSent, RecordRetry, RecordDead, Record, RowState
    <3>2. row[w] # m
      BY <3>1 DEF StillClaimed, Open
    <3>3. QED
      BY <3>1, <3>2 DEF TypeOK
  <2>5. QED
    BY <2>1, <2>2, <2>4
       DEF Next, Deliver, ProviderAccepts, ProviderTransient, ProviderRejects, RecordSentFails,
           Conflict, Crash, rowVars
<1>2. QED
  BY TypeInit, TypeStep, <1>1, PTL DEF Spec, SettledIsFinal

-----------------------------------------------------------------------------
(* Reminders.  A run writes what it read under the advisory lock it still    *)
(* holds, and the digests it adds are added by runs only: what it found      *)
(* missing is missing when it commits, whatever the dispatcher does.         *)

DigestKey == Person \X (1..MaxDay)

RunRecord ==
    [at : {"idle", "waiting", "planned"}, day : 0..MaxDay, escalates : SUBSET Task,
     reminds : SUBSET Task, people : SUBSET Person, mails : SUBSET Person]

ReminderType ==
    /\ state \in [Message -> RowState]
    /\ due \in [Message -> BOOLEAN]
    /\ today \in 1..MaxDay
    /\ cover \in Cover
    /\ escalated \subseteq Task
    /\ audits \in [Task -> Nat]
    /\ run \in [Runner -> RunRecord]
    /\ told \subseteq DigestKey

\* What a planned run r may rely on until it ends.
PlanStands(r, st, esc) ==
    /\ r.day \in 1..MaxDay
    /\ r.escalates \cap esc = {}
    /\ r.mails \subseteq r.people
    /\ \A p \in r.mails : st[DigestOf(p, r.day)] = "absent"
    /\ \A p \in r.people \ r.mails : st[DigestOf(p, r.day)] # "absent"

RemindersInv ==
    /\ ReminderType
    /\ \A j \in Runner : run[j].at # "idle" => run[j].day \in 1..MaxDay
    /\ \A j \in Runner : run[j].at = "planned" =>
          orgLock = j /\ PlanStands(run[j], state, escalated)
    /\ RemindersHold

LEMMA RemindersInvInit == Init /\ RemindersInit => RemindersInv
<1> SUFFICES ASSUME Init, RemindersInit PROVE RemindersInv
  OBVIOUS
<1>1. IdleRun \in RunRecord
  BY RemindersAssumption DEF IdleRun, RunRecord
<1>2. \A j \in Runner : run[j].at = "idle"
  BY DEF RemindersInit, IdleRun
<1>3. ReminderType
  BY <1>1, RemindersAssumption DEF Init, RemindersInit, ReminderType, RowState
<1>4. RemindersHold
  BY DEF RemindersInit, RemindersHold
<1>5. QED
  BY <1>2, <1>3, <1>4 DEF RemindersInv

LEMMA DigestType ==
    ASSUME NEW p \in Person, NEW d \in 1..MaxDay
    PROVE  DigestOf(p, d) \in DigestKey /\ DigestOf(p, d) \in Message
  BY RemindersAssumption DEF DigestOf, DigestKey

LEMMA RecipientsType ==
    ASSUME NEW t \in Task, NEW raised PROVE Recipients(t, raised) \subseteq Person
<1>1. Members(t, raised) \subseteq Person
  BY RemindersAssumption DEF Members
<1>2. QED
  BY <1>1 DEF Recipients

\* A row that was added stays, if only as deleted: its key is never free again.
LEMMA AbsentOnce ==
    ASSUME TypeOK, Next, NEW m \in Message, state[m] # "absent"
    PROVE  state'[m] # "absent"
<1>1. ASSUME NEW i \in Message,
             Add(i) \/ Discard(i) \/ BecomesDue(i) \/ LockAges(i) \/ Expires(i)
      PROVE  state'[m] # "absent"
  BY <1>1 DEF Add, Discard, BecomesDue, LockAges, Expires, TypeOK
<1>2. ASSUME NEW w \in Worker, (\E i \in Message : Claim(w, i)) \/ Sweep(w)
      PROVE  state'[m] # "absent"
  BY <1>2 DEF Claim, Sweep, Swept
<1>3. ASSUME NEW w \in Worker, RecordSent(w) \/ RecordRetry(w) \/ RecordDead(w)
      PROVE  state'[m] # "absent"
  <2>1. \E to \in {"sent", "failed", "dead"} : state' = [state EXCEPT ![row[w]] = to]
    BY <1>3 DEF RecordSent, RecordRetry, RecordDead, Record
  <2>2. QED
    BY <2>1 DEF TypeOK
<1>4. QED
  BY <1>1, <1>2, <1>3
     DEF Next, Deliver, ProviderAccepts, ProviderTransient, ProviderRejects, RecordSentFails,
         Conflict, Crash, rowVars

\* The dispatcher and the other senders leave every plan and every digest standing.
LEMMA OutboxBesideStep ==
    ASSUME TypeOK, RemindersInv, OutboxBeside
    PROVE  RemindersInv'
<1>1. TypeOK'
  BY TypeStep DEF OutboxBeside
<1>2. UNCHANGED <<today, cover, escalated, audits, run, told, orgLock, collided>>
  BY DEF OutboxBeside, reminderVars
<1>3. \A m \in DigestKey : m \in Message /\ (state[m] = "absent" => state'[m] = "absent")
  BY RemindersAssumption DEF OutboxBeside, DigestKey
<1>4. \A m \in Message : state[m] # "absent" => state'[m] # "absent"
  BY AbsentOnce DEF OutboxBeside
<1>5. ReminderType'
  BY <1>1, <1>2 DEF RemindersInv, ReminderType, TypeOK
<1>6. ASSUME NEW j \in Runner, run[j].at = "planned"
      PROVE  PlanStands(run[j], state', escalated)
  <2>1. PlanStands(run[j], state, escalated) /\ run[j].people \subseteq Person
    BY <1>6 DEF RemindersInv, ReminderType, RunRecord
  <2>2. \A p \in run[j].people : DigestOf(p, run[j].day) \in DigestKey
    BY <2>1, DigestType DEF PlanStands
  <2>3. QED
    BY <1>3, <1>4, <2>1, <2>2 DEF PlanStands
<1>7. RemindersHold'
  <2>1. \A person \in told : DigestOf(person[1], person[2]) \in Message
    BY DigestType DEF RemindersInv, ReminderType, DigestKey
  <2>2. QED
    BY <1>2, <1>4, <2>1 DEF RemindersInv, RemindersHold
<1>8. QED
  BY <1>2, <1>5, <1>6, <1>7 DEF RemindersInv

\* Runs that begin, plan or fail write nothing.
LEMMA QuietRunStep ==
    ASSUME RemindersInv, NEW j \in Runner, BeginRun(j) \/ PlanRun(j) \/ FailRun(j)
    PROVE  RemindersInv'
<1> DEFINE new == run'[j]
<1>1. /\ UNCHANGED <<state, due, today, cover, escalated, audits, told, collided>>
      /\ \E n : run' = [run EXCEPT ![j] = n]
  BY DEF BeginRun, PlanRun, FailRun, EndRun, vars
<1>2. \A i \in Runner \ {j} : run'[i] = run[i]
  BY <1>1 DEF RemindersInv, ReminderType
<1>3. RemindersHold'
  BY <1>1 DEF RemindersInv, RemindersHold
<1>4. ASSUME new \in RunRecord, new.at # "idle" => new.day \in 1..MaxDay,
             new.at = "planned" => orgLock' = j /\ PlanStands(new, state, escalated),
             \A i \in Runner \ {j} : run[i].at = "planned" => orgLock' = orgLock
      PROVE  RemindersInv'
  <2>1. ReminderType'
    BY <1>1, <1>4 DEF RemindersInv, ReminderType
  <2>2. \A i \in Runner : run'[i].at # "idle" => run'[i].day \in 1..MaxDay
    BY <1>2, <1>4 DEF RemindersInv
  <2>3. \A i \in Runner : run'[i].at = "planned" =>
            orgLock' = i /\ PlanStands(run'[i], state, escalated)
    BY <1>2, <1>4 DEF RemindersInv
  <2>4. QED
    BY <1>1, <1>3, <2>1, <2>2, <2>3 DEF RemindersInv
<1>5. CASE BeginRun(j)
  <2>1. new = [IdleRun EXCEPT !.at = "waiting", !.day = today] /\ orgLock' = orgLock
    BY <1>5 DEF BeginRun, RemindersInv, ReminderType
  <2>2. new \in RunRecord /\ new.at = "waiting" /\ new.day \in 1..MaxDay
    <3>1. new = [at |-> "waiting", day |-> today, escalates |-> {}, reminds |-> {}, people |-> {},
                 mails |-> {}]
      BY <2>1 DEF IdleRun
    <3>2. today \in 1..MaxDay /\ 1..MaxDay \subseteq 0..MaxDay
      BY RemindersAssumption DEF RemindersInv, ReminderType
    <3> HIDE DEF new
    <3>3. QED
      BY <3>1, <3>2 DEF RunRecord
  <2>3. QED
    BY <1>4, <2>1, <2>2
<1>6. CASE FailRun(j)
  <2>1. new = IdleRun /\ orgLock' = IF orgLock = j THEN NoRun ELSE orgLock
    BY <1>6 DEF FailRun, EndRun, RemindersInv, ReminderType
  <2>2. new \in RunRecord /\ new.at = "idle"
    BY <2>1, RemindersAssumption DEF IdleRun, RunRecord
  <2>3. \A i \in Runner \ {j} : run[i].at = "planned" => orgLock' = orgLock
    BY <2>1 DEF RemindersInv
  <2>4. QED
    BY <1>4, <2>2, <2>3
<1>7. CASE PlanRun(j)
  <2> DEFINE day     == run[j].day
             raised  == Overdue(day)
             reminds == DueSoon(day)
             people  == UNION {Recipients(t, escalated \cup raised) : t \in reminds}
             mails   == WithoutDigest(people, day)
  <2>1. /\ new = [at |-> "planned", day |-> day, escalates |-> raised, reminds |-> reminds,
                  people |-> people, mails |-> mails]
        /\ orgLock = NoRun /\ orgLock' = j /\ run[j].at = "waiting"
    BY <1>7 DEF PlanRun, LockFree, RemindersInv, ReminderType
  <2>2. raised \subseteq Task /\ reminds \subseteq Task /\ raised \cap escalated = {}
    BY DEF Overdue, DueSoon, OpenTasks
  <2>3. people \subseteq Person
    BY <2>2, RecipientsType
  <2>4. day \in 1..MaxDay
    BY <2>1 DEF RemindersInv
  <2>5. /\ mails \subseteq people
        /\ \A p \in mails : state[DigestOf(p, day)] = "absent"
        /\ \A p \in people \ mails : state[DigestOf(p, day)] # "absent"
    BY DEF WithoutDigest
  <2> HIDE DEF day, raised, reminds, people, mails
  <2>6. new \in RunRecord /\ new.at = "planned" /\ new.day \in 1..MaxDay
    BY <2>1, <2>2, <2>3, <2>4, <2>5 DEF RunRecord
  <2>7. PlanStands(new, state, escalated)
    BY <2>1, <2>2, <2>4, <2>5 DEF PlanStands
  <2>8. \A i \in Runner : run[i].at # "planned"
    BY <2>1, RemindersAssumption DEF RemindersInv
  <2>9. QED
    BY <1>4, <2>1, <2>6, <2>7, <2>8
<1>8. QED
  BY <1>5, <1>6, <1>7

LEMMA FinishRunStep ==
    ASSUME TypeOK, RemindersInv, NEW j \in Runner, FinishRun(j)
    PROVE  TypeOK' /\ RemindersInv'
<1> DEFINE r == run[j]
<1>1. /\ r.at = "planned" /\ r \in RunRecord /\ orgLock = j /\ PlanStands(r, state, escalated)
  BY DEF FinishRun, RemindersInv, ReminderType
<1>2. r.people \subseteq Person /\ r.mails \subseteq Person /\ r.escalates \subseteq Task
  BY <1>1 DEF RunRecord
<1>3. Digests(j) \subseteq DigestKey /\ \A m \in Digests(j) : state[m] = "absent"
  <2>1. \A p \in r.mails : DigestOf(p, r.day) \in DigestKey /\ state[DigestOf(p, r.day)] = "absent"
    BY <1>1, <1>2, DigestType DEF PlanStands
  <2>2. QED
    BY <2>1 DEF Digests
<1>4. /\ WriteRun(j) /\ EndRun(j)
      /\ UNCHANGED <<attempts, lock, expired, accepted, tickVars, faults, today, task, cover>>
  BY <1>3 DEF FinishRun
<1>5. /\ state' = [m \in Message |-> IF m \in Digests(j) THEN "pending" ELSE state[m]]
      /\ due' = [m \in Message |-> due[m] \/ m \in Digests(j)]
      /\ escalated' = escalated \cup r.escalates
      /\ audits' = [t \in Task |-> audits[t] + (IF t \in r.escalates THEN 1 ELSE 0)]
      /\ told' = told \cup (r.people \X {r.day})
      /\ collided' = collided
      /\ run' = [run EXCEPT ![j] = IdleRun]
  BY <1>4 DEF WriteRun, EndRun
<1>6. state' \in [Message -> RowState] /\ due' \in [Message -> BOOLEAN]
  BY <1>5 DEF RemindersInv, ReminderType, RowState
<1>7. TypeOK'
  BY <1>4, <1>6 DEF TypeOK, tickVars
<1>8. ReminderType'
  <2>1. IdleRun \in RunRecord
    BY RemindersAssumption DEF IdleRun, RunRecord
  <2>2. r.people \X {r.day} \subseteq DigestKey
    BY <1>1, <1>2 DEF DigestKey, PlanStands
  <2>3. audits' \in [Task -> Nat]
    BY <1>5 DEF RemindersInv, ReminderType
  <2>4. told' \subseteq DigestKey /\ escalated' \subseteq Task /\ run' \in [Runner -> RunRecord]
    BY <1>2, <1>5, <2>1, <2>2 DEF RemindersInv, ReminderType
  <2>5. QED
    BY <1>4, <1>6, <2>3, <2>4 DEF RemindersInv, ReminderType
<1>9. \A i \in Runner : run'[i].at # "idle" => i # j /\ run'[i] = run[i]
  BY <1>5 DEF RemindersInv, ReminderType, IdleRun
<1>10. \A i \in Runner : run'[i].at # "planned"
  BY <1>1, <1>9 DEF RemindersInv
<1>11. RemindersHold'
  <2>1. \A t \in Task : audits'[t] = (IF t \in escalated' THEN 1 ELSE 0)
    <3>1. \A t \in Task : audits[t] = (IF t \in escalated THEN 1 ELSE 0)
      BY DEF RemindersInv, RemindersHold
    <3>2. \A t \in r.escalates : t \notin escalated
      BY <1>1 DEF PlanStands
    <3>3. QED
      BY <1>5, <3>1, <3>2
  <2>2. \A m \in Message : state[m] # "absent" => state'[m] # "absent"
    BY <1>5
  <2>3. ASSUME NEW x \in told PROVE state'[DigestOf(x[1], x[2])] # "absent"
    <3>1. DigestOf(x[1], x[2]) \in Message
      BY DigestType DEF RemindersInv, ReminderType, DigestKey
    <3>2. QED
      BY <2>2, <3>1 DEF RemindersInv, RemindersHold
  <2>4. ASSUME NEW p \in r.people PROVE state'[DigestOf(p, r.day)] # "absent"
    <3>1. DigestOf(p, r.day) \in Message
      BY <1>1, <1>2, DigestType DEF PlanStands
    <3>2. CASE p \in r.mails
      BY <1>5, <3>1, <3>2 DEF Digests
    <3>3. CASE p \notin r.mails
      BY <1>1, <2>2, <3>1, <3>3 DEF PlanStands
    <3>4. QED
      BY <3>2, <3>3
  <2>5. \A x \in told' : state'[DigestOf(x[1], x[2])] # "absent"
    <3>1. \A x \in r.people \X {r.day} : x[1] \in r.people /\ x[2] = r.day
      OBVIOUS
    <3>2. QED
      BY <1>5, <2>3, <2>4, <3>1
  <2>6. QED
    BY <1>5, <2>1, <2>5 DEF RemindersInv, RemindersHold
<1>12. QED
  BY <1>7, <1>8, <1>9, <1>10, <1>11 DEF RemindersInv

LEMMA RemindersStep ==
    TypeOK /\ RemindersInv /\ [RemindersNext \/ OutboxBeside]_<<vars, reminderVars>>
        => TypeOK' /\ RemindersInv'
<1> SUFFICES ASSUME TypeOK, RemindersInv, [RemindersNext \/ OutboxBeside]_<<vars, reminderVars>>
             PROVE  TypeOK' /\ RemindersInv'
  OBVIOUS
<1>1. ASSUME NEW j \in Runner, BeginRun(j) \/ PlanRun(j) \/ FailRun(j)
      PROVE  TypeOK' /\ RemindersInv'
  <2>1. UNCHANGED vars
    BY <1>1 DEF BeginRun, PlanRun, FailRun
  <2>2. QED
    BY <1>1, <2>1, QuietRunStep, TypeStep
<1>2. ASSUME NEW j \in Runner, FinishRun(j) PROVE TypeOK' /\ RemindersInv'
  BY <1>2, FinishRunStep
<1>3. ASSUME UNCHANGED vars, today' \in 1..MaxDay, cover' \in Cover,
             UNCHANGED <<escalated, audits, orgLock, run, told, collided>>
      PROVE  TypeOK' /\ RemindersInv'
  <2>1. TypeOK' /\ UNCHANGED <<state, due>>
    BY <1>3, TypeStep DEF vars
  <2>2. QED
    BY <1>3, <2>1 DEF RemindersInv, ReminderType, RemindersHold, PlanStands
<1>4. ASSUME NEW t \in Task, OpenTask(t) \/ CloseTask(t) PROVE TypeOK' /\ RemindersInv'
  BY <1>3, <1>4 DEF OpenTask, CloseTask, RemindersInv, ReminderType
<1>5. CASE CoverChanges
  BY <1>3, <1>5 DEF CoverChanges, RemindersInv, ReminderType
<1>6. CASE Tomorrow
  <2>1. today' \in 1..MaxDay
    BY <1>6, RemindersAssumption DEF Tomorrow, RemindersInv, ReminderType
  <2>2. QED
    BY <1>3, <1>6, <2>1 DEF Tomorrow, RemindersInv, ReminderType
<1>7. CASE OutboxBeside
  BY <1>7, OutboxBesideStep, TypeStep DEF OutboxBeside
<1>8. CASE UNCHANGED <<vars, reminderVars>>
  BY <1>3, <1>8 DEF reminderVars, RemindersInv, ReminderType
<1>9. QED
  BY <1>1, <1>2, <1>4, <1>5, <1>6, <1>7, <1>8 DEF RemindersNext

\* Whatever runs are repeated, fail or meet, on one day or across midnight, and with the
\* dispatcher at work beside them: a task is escalated in the audit log once, no run is
\* lost to a digest another has added, and whoever was told has a digest of that day.
THEOREM RemindersAreHeld == RemindersSpec => []RemindersHold
<1>1. RemindersInv => RemindersHold
  BY DEF RemindersInv
<1>2. QED
  BY <1>1, TypeInit, RemindersInvInit, RemindersStep, PTL DEF RemindersSpec
=============================================================================
