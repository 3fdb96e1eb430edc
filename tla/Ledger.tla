------------------------------- MODULE Ledger -------------------------------
(***************************************************************************)
(* The budget ledger under concurrent database transactions.               *)
(*                                                                         *)
(* A worker is one request (or job) inside one READ COMMITTED transaction. *)
(* It locks project_balance rows, plans the entries of its command from    *)
(* what it can see, posts them one by one (post_entry) and commits, or     *)
(* aborts anywhere: a refusal, a deadlock victim, a crash.  Uncommitted    *)
(* rows are its own until Commit makes them visible in one step.           *)
(*                                                                         *)
(* Abstracted: currencies (one), codes, evidence, reasons and permissions; *)
(* they only ever refuse a command, which is Abort.  An entry's id is its  *)
(* place in the committed ledger; 0 stands for NULL.                       *)
(***************************************************************************)
EXTENDS LedgerRules, FiniteSets

CONSTANTS
    Worker,          \* concurrent transactions
    Project,         \* project ids, ordered as the lock order orders them
    Parent,          \* Parent[p]: the parent project, or 0 for a root
    Route,           \* Route[p][q]: path p..q through their lowest common
                     \*   ancestor, <<>> when the trees differ
    Key,             \* idempotency keys callers use
    Amount,          \* amounts callers ask for
    MaxDate,         \* bound: dates (one fiscal period each) are 1..MaxDate
    MaxEntry,        \* bound: no command starts once the ledger holds so many
    Ops,             \* the operations the callers of this instance use
    OverdraftValues, \* values allow_negative_budget is ever set to
    FirstStatus      \* a project's status when the behaviour starts

Date == 1..MaxDate

PostingOps == {"allocate", "adjust", "transfer", "reserve", "release_reservation",
               "commit", "record_actual", "release_commitment", "reverse_entry"}

AllOps == PostingOps \cup {"close_period", "reopen_period", "set_setting", "transition"}

FundingMode == {"roll_down", "roll_up"}

Status == {"draft", "approval_pending", "active", "deferred", "completed", "abandoned"}

ASSUME LedgerAssumption ==
    /\ Project \in SUBSET (Nat \ {0})
    /\ Parent \in [Project -> Project \cup {0}]
    /\ Route \in [Project -> [Project -> Seq(Project)]]
    /\ Amount \in SUBSET Int
    /\ MaxDate \in Nat \ {0}
    /\ MaxEntry \in Nat
    /\ Ops \in SUBSET AllOps
    /\ OverdraftValues \in SUBSET BOOLEAN
    /\ FirstStatus \in Status
    /\ Worker # {}

VARIABLES
    ledger,     \* committed ledger_entry rows, in commit order
    balance,    \* committed project_balance rows
    status,     \* project.status
    closed,     \* closed fiscal periods
    today,      \* the date of the application clock
    mode,       \* the funding_mode setting
    overdraft,  \* the allow_negative_budget setting
    cmd,        \* cmd[w]: the command worker w runs
    stage,      \* stage[w]: where its transaction stands
    locked,     \* locked[w]: balance rows it holds FOR UPDATE
    view,       \* view[w][p]: the locked row as the transaction sees it
    rows,       \* rows[w]: entries it inserted and has not committed
    legs,       \* legs[w]: entries it still has to post
    shares      \* shares[w]: period rows it holds FOR SHARE

orgVars  == <<status, closed, today, mode, overdraft>>
bookVars == <<ledger, balance>>
txVars   == <<cmd, stage, locked, view, rows, legs, shares>>
vars     == <<ledger, balance, status, closed, today, mode, overdraft,
              cmd, stage, locked, view, rows, legs, shares>>

-----------------------------------------------------------------------------
(* Values.                                                                   *)

All == 0         \* a release amount left out: release what remains
ZeroRow == [b \in Bucket |-> 0]

EntryKey(k) == <<k, "entry", 0>>
ReleaseKey(k) == <<k, "release", 0>>
OutKey(k, hop) == <<k, "out", hop>>
InKey(k, hop) == <<k, "in", hop>>
LedgerKey == Key \X {"entry", "release", "out", "in"} \X Nat
NoGroup == <<>>
Group(k, first) == <<k, first>>

Entry == [type : EntryType, bucket : Bucket, project : Project, amount : Int,
          key : LedgerKey, date : Date, releases : Nat, reverses : Nat,
          converts : Nat, group : {NoGroup} \cup (Key \X {0, 1})]

MakeEntry(type, bucket, p, amount, key, date) ==
    [type |-> type, bucket |-> bucket, project |-> p, amount |-> amount,
     key |-> key, date |-> date, releases |-> 0, reverses |-> 0,
     converts |-> 0, group |-> NoGroup]

Typed(type, p, amount, key, date) ==
    MakeEntry(type, BucketForType[type], p, amount, key, date)

TransferLeg(p, amount, key, group, date) ==
    [Typed("transfer", p, amount, key, date) EXCEPT !.group = group]

ReleaseOf(i, amount, key, date) ==
    [MakeEntry("release", ledger[i].bucket, ledger[i].project, -amount, key, date)
        EXCEPT !.releases = i]

\* A command with no target works on a project; one with a target acts on that
\* entry.  It reads the funding mode when it starts, allocate under the
\* organization lock and transfer before it takes any lock.
Request(op, p, q, amount, k, target, date) ==
    [op |-> op, project |-> p, dest |-> q, amount |-> amount, key |-> k,
     target |-> target, date |-> date, mode |-> mode]

NoRequest == [op |-> "none"]

-----------------------------------------------------------------------------
(* What a transaction sees: committed rows and its own.                      *)

Visible(w) == ledger \o rows[w]

KnownKey(w, key) == \E i \in 1..Len(Visible(w)) : Visible(w)[i].key = key

EntryWithKey(w, key) ==
    Visible(w)[CHOOSE i \in 1..Len(Visible(w)) : Visible(w)[i].key = key]

RowFree(w, p) == \A v \in Worker \ {w} : p \notin locked[v]

\* Fault: no command locks the organization row.
NoOrgLock == {}

\* Commands that lock the organization row before they read the funding mode.
OrgLockOps == {"allocate"}

OrgLocked == \E w \in Worker : stage[w] # "idle" /\ cmd[w].op \in OrgLockOps

FromParent(w) == cmd[w].mode = "roll_down" /\ Parent[cmd[w].project] # 0

\* Two roots are siblings too.
Siblings(p, q) == Parent[p] = Parent[q]

\* plan_legs: one pair of legs, or a pair per hop of the route.
Direct(w) ==
    LET c == cmd[w] IN
    Siblings(c.project, c.dest) \/ Route[c.project][c.dest] = <<>> \/ c.mode = "roll_up"

TransferPath(w) ==
    LET c == cmd[w] IN
    IF Direct(w) THEN <<c.project, c.dest>> ELSE Route[c.project][c.dest]

\* Legs of a route have numbered keys; the keys of a single pair have no number.
FirstHop(w) == IF cmd[w].op = "transfer" /\ ~Direct(w) THEN 1 ELSE 0

RangeOf(s) == {s[i] : i \in 1..Len(s)}

Consuming == {"commit", "record_actual"}
Releasing == {"release_reservation", "release_commitment"}

\* Fault: releases read what remains without the balance lock.
UnlockedReleases(w) ==
    IF cmd[w].op \in {"adjust"} \cup Consuming THEN {cmd[w].project} ELSE {}

\* The balance rows a command locks before it plans.
Needs(w) ==
    LET c == cmd[w] IN
    CASE c.op = "reserve" -> {}
      [] c.op = "adjust" -> {c.project}
      [] c.op = "allocate" ->
           IF FromParent(w) THEN {c.project, Parent[c.project]} ELSE {c.project}
      [] c.op = "transfer" -> {c.project, c.dest} \cup RangeOf(Route[c.project][c.dest])
      [] c.op \in Consuming ->
           {c.project} \cup IF c.target = 0 \/ KnownKey(w, EntryKey(c.key))
                            THEN {} ELSE {ledger[c.target].project}
      [] OTHER -> {ledger[c.target].project}

\* The next row to lock: ascending ids, except that commit and record_actual
\* take their own project's row before the row of the entry they convert.
NextRow(w) ==
    LET todo == Needs(w) \ locked[w] IN
    IF cmd[w].op \in Consuming /\ cmd[w].project \in todo
    THEN {cmd[w].project}
    ELSE {p \in todo : \A q \in todo : p <= q}

-----------------------------------------------------------------------------
(* Planning: the checks a command makes under its locks, and its legs.       *)

ConsumedType(op) == IF op = "commit" THEN "reservation" ELSE "commitment"
ConsumingType(op) == IF op = "commit" THEN "commitment" ELSE "actual"
ReleasedType(op) == IF op = "release_reservation" THEN "reservation" ELSE "commitment"

\* release_reservation and release_commitment: positive, and no more than remains.
ReleaseAllowed(w) ==
    LET c == cmd[w]  held == Remaining(Visible(w), c.target) IN
    /\ ledger[c.target].type = ReleasedType(c.op)
    /\ \/ KnownKey(w, EntryKey(c.key))
       \/ /\ ~IsReversed(Visible(w), c.target)
          /\ c.amount # All => Quantize(c.amount) > 0
          /\ held = 0 \/ c.amount = All \/ Quantize(c.amount) <= held

ReleaseLegs(w) ==
    LET c == cmd[w]
        held == Remaining(Visible(w), c.target)
        known == KnownKey(w, EntryKey(c.key))
        amount == IF c.amount # All THEN Quantize(c.amount)
                  ELSE IF known THEN -EntryWithKey(w, EntryKey(c.key)).amount ELSE held
    IN  IF ~known /\ held = 0
        THEN <<>>
        ELSE <<ReleaseOf(c.target, amount, EntryKey(c.key), today)>>

\* _consume: a conversion takes an unreversed entry of the same project, and an
\* actual no more than its commitment still holds.
ConsumeAllowed(w) ==
    LET c == cmd[w] IN
    \/ KnownKey(w, EntryKey(c.key))
    \/ /\ Quantize(c.amount) > 0
       /\ c.target # 0 =>
            /\ ledger[c.target].project = c.project
            /\ ledger[c.target].type = ConsumedType(c.op)
            /\ ~IsReversed(Visible(w), c.target)
            /\ c.op = "record_actual" =>
                 Quantize(c.amount) <= Remaining(Visible(w), c.target)

ConsumeLegs(w) ==
    LET c == cmd[w]
        known == KnownKey(w, EntryKey(c.key))
        amount == IF known THEN c.amount ELSE Quantize(c.amount)
        held == IF c.target = 0 THEN 0 ELSE Remaining(Visible(w), c.target)
        released == IF amount <= held THEN amount ELSE held
        posting == [Typed(ConsumingType(c.op), c.project, amount, EntryKey(c.key), c.date)
                       EXCEPT !.converts = c.target]
    IN  IF known \/ c.target = 0 \/ released = 0
        THEN <<posting>>
        ELSE <<ReleaseOf(c.target, released, ReleaseKey(c.key), c.date), posting>>

\* Fault: a partly released hold may be reversed.
ReversePartly(w) ==
    /\ ledger[cmd[w].target].type \notin {"transfer", "reversal"}
    /\ ~IsReversed(Visible(w), cmd[w].target)

\* reverse_entry: once, never a transfer leg or a reversal, and a hold only whole.
ReverseAllowed(w) ==
    LET c == cmd[w]  original == ledger[c.target] IN
    /\ original.type # "transfer"
    /\ \/ KnownKey(w, EntryKey(c.key))
       \/ /\ original.type # "reversal"
          /\ ~IsReversed(Visible(w), c.target)
          /\ original.type \in {"reservation", "commitment"} =>
               Remaining(Visible(w), c.target) >= original.amount

ReverseLegs(w) ==
    LET c == cmd[w]  original == ledger[c.target] IN
    <<[MakeEntry("reversal", original.bucket, original.project, -original.amount,
                 EntryKey(c.key), c.date) EXCEPT !.reverses = c.target]>>

\* Two projects of one tree, or siblings.  The receiving-status and availability
\* checks transfer makes in advance are the ones post_entry repeats per leg.
TransferAllowed(w) ==
    LET c == cmd[w] IN
    /\ c.project # c.dest
    /\ \/ KnownKey(w, OutKey(c.key, FirstHop(w)))
       \/ Siblings(c.project, c.dest)
       \/ Route[c.project][c.dest] # <<>>

PathLegs(w, path) ==
    LET c == cmd[w] IN
    [i \in 1..(2 * (Len(path) - 1)) |->
        LET hop == (i - 1) \div 2
            number == FirstHop(w) + hop
            group == Group(c.key, FirstHop(w))
        IN  IF i % 2 = 1
            THEN TransferLeg(path[hop + 1], -c.amount, OutKey(c.key, number), group, c.date)
            ELSE TransferLeg(path[hop + 2], c.amount, InKey(c.key, number), group, c.date)]

PlanAllowed(w) ==
    CASE cmd[w].op \in Releasing -> ReleaseAllowed(w)
      [] cmd[w].op \in Consuming -> ConsumeAllowed(w)
      [] cmd[w].op = "reverse_entry" -> ReverseAllowed(w)
      [] cmd[w].op = "transfer" -> TransferAllowed(w)
      [] OTHER -> TRUE

PlannedLegs(w) ==
    LET c == cmd[w] IN
    CASE c.op = "reserve" -> <<Typed("reservation", c.project, c.amount, EntryKey(c.key), c.date)>>
      [] c.op = "adjust" -> <<Typed("adjustment", c.project, c.amount, EntryKey(c.key), c.date)>>
      [] c.op = "allocate" ->
           IF FromParent(w)
           THEN PathLegs(w, <<Parent[c.project], c.project>>)
           ELSE <<Typed("allocation", c.project, c.amount, EntryKey(c.key), c.date)>>
      [] c.op = "transfer" -> PathLegs(w, TransferPath(w))
      [] c.op \in Releasing -> ReleaseLegs(w)
      [] c.op \in Consuming -> ConsumeLegs(w)
      [] OTHER -> ReverseLegs(w)

-----------------------------------------------------------------------------
(* post_entry's own checks.                                                  *)

\* The locked row as the transaction sees it: its own copy once it holds the
\* lock, otherwise the row it is about to lock.
RowSeen(w, p) == IF p \in locked[w] THEN view[w][p] ELSE balance[p]

\* assert_posting_allowed.
PostingAllowed(e, amount) ==
    \/ e.type \in {"release", "reversal"}
    \/ e.bucket = "allocated" /\ (amount < 0 \/ status[e.project] \in {"draft", "active"})
    \/ e.bucket \in {"reserved", "committed"} /\ status[e.project] = "active"
    \/ e.bucket = "actual" /\ status[e.project] \in {"active", "deferred"}

\* Releases ignore closed periods; every other entry needs an open one.
PeriodOpen(e) == e.type = "release" \/ e.date \notin closed

\* Fault: only spending is checked, not what lowers the allocation.
SpendingChecked(w, e, amount) ==
    e.bucket # "allocated" => Available(RowSeen(w, e.project)) >= amount

\* The negative-budget rule.  Funding a child from its parent never overdraws.
FundsAvailable(w, e, amount) ==
    LET available == Available(RowSeen(w, e.project))
        projected == IF e.bucket = "allocated" THEN available + amount ELSE available - amount
    IN  projected < available /\ projected < 0 => overdraft /\ cmd[w].op # "allocate"

\* Fault: the key is looked up and never awaited.
KeyUnchecked(w, key) == TRUE

\* INSERT ... ON CONFLICT waits for another transaction's row with this key.
KeyFree(w, key) ==
    \A v \in Worker \ {w} : \A i \in 1..Len(rows[v]) : rows[v][i].key # key

\* Rows two entries must share for one key to name both: all of the payload.
SamePayload(e, leg) == e = [leg EXCEPT !.amount = Quantize(leg.amount)]

-----------------------------------------------------------------------------
(* Actions of a worker.                                                      *)

EndTransaction(w) ==
    /\ cmd' = [cmd EXCEPT ![w] = NoRequest]
    /\ stage' = [stage EXCEPT ![w] = "idle"]
    /\ locked' = [locked EXCEPT ![w] = {}]
    /\ view' = [view EXCEPT ![w] = [p \in Project |-> ZeroRow]]
    /\ rows' = [rows EXCEPT ![w] = <<>>]
    /\ legs' = [legs EXCEPT ![w] = <<>>]
    /\ shares' = [shares EXCEPT ![w] = {}]

\* A request arrives; a retry is a request with a key used before.
Begin(w, c) ==
    /\ stage[w] = "idle"
    /\ c.op \in OrgLockOps => ~OrgLocked
    /\ cmd' = [cmd EXCEPT ![w] = c]
    /\ stage' = [stage EXCEPT ![w] = "locking"]
    /\ UNCHANGED <<bookVars, orgVars, locked, view, rows, legs, shares>>

\* SELECT ... FOR UPDATE of one balance row; the row is read after the wait.
TakeRow(w, p) ==
    /\ RowFree(w, p)
    /\ locked' = [locked EXCEPT ![w] = @ \cup {p}]

Lock(w) ==
    /\ stage[w] = "locking"
    /\ \E p \in NextRow(w) :
         /\ TakeRow(w, p)
         /\ view' = [view EXCEPT ![w][p] = balance[p]]
    /\ UNCHANGED <<bookVars, orgVars, cmd, stage, rows, legs, shares>>

Plan(w) ==
    /\ stage[w] = "locking"
    /\ Needs(w) \subseteq locked[w]
    /\ PlanAllowed(w)
    /\ stage' = [stage EXCEPT ![w] = "posting"]
    /\ legs' = [legs EXCEPT ![w] = PlannedLegs(w)]
    /\ UNCHANGED <<bookVars, orgVars, cmd, locked, view, rows, shares>>

\* post_entry meeting its key: the entry is returned when the payload is the same.
Replay(w) ==
    /\ stage[w] = "posting"
    /\ legs[w] # <<>>
    /\ LET leg == Head(legs[w]) IN
         /\ TakeRow(w, leg.project)
         /\ KeyFree(w, leg.key)
         /\ KnownKey(w, leg.key)
         /\ SamePayload(EntryWithKey(w, leg.key), leg)
         /\ view' = [view EXCEPT ![w][leg.project] = RowSeen(w, leg.project)]
    /\ legs' = [legs EXCEPT ![w] = Tail(@)]
    /\ UNCHANGED <<bookVars, orgVars, cmd, stage, rows, shares>>

\* post_entry inserting a new entry and updating the balance row.
Post(w) ==
    /\ stage[w] = "posting"
    /\ legs[w] # <<>>
    /\ LET leg == Head(legs[w])
           amount == Quantize(leg.amount)
           p == leg.project
       IN  /\ TakeRow(w, p)
           /\ KeyFree(w, leg.key)
           /\ ~KnownKey(w, leg.key)
           /\ SignOK(leg.type, amount)
           /\ PeriodOpen(leg)
           /\ PostingAllowed(leg, amount)
           /\ FundsAvailable(w, leg, amount)
           /\ rows' = [rows EXCEPT ![w] = Append(@, [leg EXCEPT !.amount = amount])]
           /\ view' = [view EXCEPT ![w][p] =
                          [RowSeen(w, p) EXCEPT ![leg.bucket] = @ + amount]]
           /\ shares' = [shares EXCEPT ![w] =
                            IF leg.type = "release" THEN @ ELSE @ \cup {leg.date}]
    /\ legs' = [legs EXCEPT ![w] = Tail(@)]
    /\ UNCHANGED <<bookVars, orgVars, cmd, stage>>

\* The check after the last leg that a transfer's legs cancel out.
LegsBalance(w) == GroupSum(rows[w], Group(cmd[w].key, FirstHop(w))) = 0

\* Fault: each leg is committed as it is posted.
CommitEachLeg(w) ==
    /\ stage[w] = "posting"
    /\ ledger' = ledger \o rows[w]
    /\ balance' = [p \in Project |-> IF p \in locked[w] THEN view[w][p] ELSE balance[p]]
    /\ EndTransaction(w)
    /\ UNCHANGED orgVars

Commit(w) ==
    /\ stage[w] = "posting"
    /\ legs[w] = <<>>
    /\ LegsBalance(w)
    /\ ledger' = ledger \o rows[w]
    /\ balance' = [p \in Project |-> IF p \in locked[w] THEN view[w][p] ELSE balance[p]]
    /\ EndTransaction(w)
    /\ UNCHANGED orgVars

\* A refusal, a cancelled request, a deadlock victim or a crash: all of it rolls back.
Abort(w) ==
    /\ stage[w] # "idle"
    /\ EndTransaction(w)
    /\ UNCHANGED <<bookVars, orgVars>>

-----------------------------------------------------------------------------
(* Transactions of other services that the ledger's rules read.              *)

\* Fault: posters do not hold their period rows.
PeriodsUnshared == FALSE

PeriodsShared == \E w \in Worker : shares[w] # {}

\* FiscalService.transition locks every period row, so it waits for all posters.
ClosePeriod(d) ==
    /\ "close_period" \in Ops
    /\ d \notin closed
    /\ d = 1 \/ d - 1 \in closed
    /\ ~PeriodsShared
    /\ closed' = closed \cup {d}
    /\ UNCHANGED <<bookVars, txVars, status, today, mode, overdraft>>

ReopenPeriod(d) ==
    /\ "reopen_period" \in Ops
    /\ d \in closed
    /\ \A later \in closed : later <= d
    /\ ~PeriodsShared
    /\ closed' = closed \ {d}
    /\ UNCHANGED <<bookVars, txVars, status, today, mode, overdraft>>

NextDay ==
    /\ today < MaxDate
    /\ today' = today + 1
    /\ UNCHANGED <<bookVars, txVars, status, closed, mode, overdraft>>

\* set_setting under the organization lock; ledger entries lock the funding mode.
SetFundingMode(m) ==
    /\ "set_setting" \in Ops
    /\ ~OrgLocked
    /\ m # mode
    /\ ledger = <<>>
    /\ mode' = m
    /\ UNCHANGED <<bookVars, txVars, status, closed, today, overdraft>>

SetOverdraft(b) ==
    /\ "set_setting" \in Ops
    /\ ~OrgLocked
    /\ b # overdraft
    /\ overdraft' = b
    /\ UNCHANGED <<bookVars, txVars, status, closed, today, mode>>

Transitions ==
    { <<"draft", "approval_pending">>, <<"approval_pending", "active">>,
      <<"approval_pending", "draft">>, <<"draft", "abandoned">>,
      <<"active", "deferred">>, <<"deferred", "active">>, <<"active", "completed">>,
      <<"active", "abandoned">>, <<"deferred", "abandoned">> }

Ended == {"completed", "abandoned"}

\* Fault: the transition locks the project row only.
ProjectRowOnly(p) == TRUE

\* Lifecycle: the balance row is locked and read before the project row, so a
\* transition waits for every transaction that may post to the project.
TransitionLock(p) == \A w \in Worker : p \notin locked[w]

Transition(p, to, override) ==
    /\ "transition" \in Ops
    /\ <<status[p], to>> \in Transitions
    /\ TransitionLock(p)
    /\ to \in Ended =>
         override \/ (balance[p]["reserved"] <= 0 /\ balance[p]["committed"] <= 0)
    /\ status' = [status EXCEPT ![p] = to]
    /\ UNCHANGED <<bookVars, txVars, closed, today, mode, overdraft>>

-----------------------------------------------------------------------------

Init ==
    /\ ledger = <<>>
    /\ balance = [p \in Project |-> ZeroRow]
    /\ status = [p \in Project |-> FirstStatus]
    /\ closed = {}
    /\ today = 1
    /\ mode \in FundingMode
    /\ overdraft \in OverdraftValues
    /\ cmd = [w \in Worker |-> NoRequest]
    /\ stage = [w \in Worker |-> "idle"]
    /\ locked = [w \in Worker |-> {}]
    /\ view = [w \in Worker |-> [p \in Project |-> ZeroRow]]
    /\ rows = [w \in Worker |-> <<>>]
    /\ legs = [w \in Worker |-> <<>>]
    /\ shares = [w \in Worker |-> {}]

\* The requests callers may make now.
PositiveAmount == {a \in Amount : a > 0}

FundingRequests ==
    { Request(op, p, p, a, k, 0, d) :
        op \in Ops \cap {"reserve", "adjust"}, p \in Project,
        a \in Amount, k \in Key, d \in Date }
    \cup
    { Request(op, p, p, a, k, 0, d) :
        op \in Ops \cap {"allocate"}, p \in Project,
        a \in PositiveAmount, k \in Key, d \in Date }

TransferRequests ==
    { Request(op, p, q, a, k, 0, d) :
        op \in Ops \cap {"transfer"}, p \in Project, q \in Project,
        a \in PositiveAmount, k \in Key, d \in Date }

Holds == {i \in 1..Len(ledger) : ledger[i].type \in {"reservation", "commitment"}}

ConsumeRequests ==
    { Request(op, p, p, a, k, t, d) :
        op \in Ops \cap Consuming, p \in Project, a \in Amount, k \in Key,
        t \in {0} \cup Holds, d \in Date }

ReleaseRequests ==
    { Request(op, ledger[t].project, ledger[t].project, a, k, t, today) :
        op \in Ops \cap Releasing, a \in Amount \cup {All}, k \in Key,
        t \in Holds }

ReverseRequests ==
    { Request(op, ledger[t].project, ledger[t].project, All, k, t, d) :
        op \in Ops \cap {"reverse_entry"}, k \in Key, t \in 1..Len(ledger), d \in Date }

Requests ==
    FundingRequests \cup TransferRequests \cup ConsumeRequests
        \cup ReleaseRequests \cup ReverseRequests

Receive(w) == Len(ledger) < MaxEntry /\ \E c \in Requests : Begin(w, c)

Next ==
    \/ \E w \in Worker :
         Receive(w) \/ Lock(w) \/ Plan(w) \/ Replay(w) \/ Post(w) \/ Commit(w) \/ Abort(w)
    \/ \E d \in Date : ClosePeriod(d) \/ ReopenPeriod(d)
    \/ NextDay
    \/ \E m \in FundingMode : SetFundingMode(m)
    \/ \E b \in OverdraftValues : SetOverdraft(b)
    \/ \E p \in Project, to \in Status, override \in BOOLEAN : Transition(p, to, override)

Spec == Init /\ [][Next]_vars

-----------------------------------------------------------------------------
(* Properties.                                                               *)

BalanceRow == [Bucket -> Int]

Command == [op : PostingOps, project : Project, dest : Project, amount : Int, key : Key,
            target : Nat, date : Date, mode : FundingMode]

\* A running command names an entry that is committed, and one that acts on an
\* entry always does.
CommandOK(c) ==
    /\ c \in Command
    /\ c.target \in 0..Len(ledger)
    /\ c.op \in Releasing \cup {"reverse_entry"} => c.target # 0

\* Rows, balances and transactions hold what the schema's columns allow.
TypeOK ==
    /\ ledger \in Seq(Entry)
    /\ balance \in [Project -> BalanceRow]
    /\ status \in [Project -> Status]
    /\ closed \in SUBSET Date
    /\ today \in Date
    /\ mode \in FundingMode
    /\ overdraft \in OverdraftValues
    /\ cmd \in [Worker -> Command \cup {NoRequest}]
    /\ stage \in [Worker -> {"idle", "locking", "posting"}]
    /\ \A w \in Worker : stage[w] # "idle" => CommandOK(cmd[w])
    /\ locked \in [Worker -> SUBSET Project]
    /\ view \in [Worker -> [Project -> BalanceRow]]
    /\ rows \in [Worker -> Seq(Entry)]
    /\ legs \in [Worker -> Seq(Entry)]
    /\ shares \in [Worker -> SUBSET Date]

\* What the nightly reconciliation compares (budget/reconcile.py): every committed
\* balance bucket is the sum of the committed entries.  A part of BooksAgree.
NoDrift ==
    \A p \in Project, b \in Bucket : balance[p][b] = LedgerSum(ledger, p, b)

\* Why NoDrift holds: a row has one holder, a transaction writes only rows it
\* holds, and its copy of a held row is the committed row plus its own entries.
BooksAgree ==
    /\ NoDrift
    /\ \A v, w \in Worker : v # w => locked[v] \cap locked[w] = {}
    /\ \A w \in Worker :
         /\ \A i \in 1..Len(rows[w]) : rows[w][i].project \in locked[w]
         /\ \A p \in locked[w], b \in Bucket :
              view[w][p][b] = balance[p][b] + LedgerSum(rows[w], p, b)

\* A project's reserved (committed) bucket is exactly what remains of its
\* reservations (commitments), and no hold is released below zero or above its
\* amount, whatever releases, conversions and reversals interleave.
HeldUnder(p, type) ==
    SumTo([i \in 1..Len(ledger) |->
              IF ledger[i].project = p /\ ledger[i].type = type
              THEN Remaining(ledger, i) ELSE 0], Len(ledger))

HoldsBacked ==
    /\ \A p \in Project :
         /\ balance[p]["reserved"] = HeldUnder(p, "reservation")
         /\ balance[p]["committed"] = HeldUnder(p, "commitment")
    /\ \A i \in 1..Len(ledger) :
         ledger[i].type \in {"reservation", "commitment"} =>
            Remaining(ledger, i) \in 0..ledger[i].amount

\* The constraints of the schema never have to reject a posting: no transaction,
\* committed or not, takes a spending bucket below zero (the CHECKs on
\* project_balance), and no entry is reversed twice (ledger_one_reversal).
ConstraintsNeverFire ==
    /\ \A p \in Project, b \in {"reserved", "committed", "actual"} :
         /\ balance[p][b] >= 0
         /\ \A w \in Worker : view[w][p][b] >= 0
    /\ \A i, j \in 1..Len(ledger) :
         ledger[i].reverses # 0 /\ ledger[i].reverses = ledger[j].reverses => i = j

\* Transfers move money and never make it: the legs of each group cancel out.
GroupsBalance ==
    \A i \in 1..Len(ledger) :
        ledger[i].group # NoGroup => GroupSum(ledger, ledger[i].group) = 0

\* A retried or concurrent command with one idempotency key posts once.
OnePostingPerKey ==
    \A i, j \in 1..Len(ledger) : ledger[i].key = ledger[j].key => i = j

\* While allow_negative_budget has never been set, no interleaving of postings
\* spends more than a project's available budget.
NoOverdraft ==
    TRUE \notin OverdraftValues => \A p \in Project : Available(balance[p]) >= 0

\* Why NoOverdraft holds: no row, committed or in a transaction, is overdrawn.
FundsCovered ==
    TRUE \notin OverdraftValues =>
        /\ \A p \in Project : Available(balance[p]) >= 0
        /\ \A w \in Worker : \A p \in locked[w] : Available(view[w][p]) >= 0

\* Direct allocations to a child exist only under roll_up: the funding mode an
\* allocation was planned with is still the mode when it commits and ever after.
FundedByMode ==
    \A i \in 1..Len(ledger) :
        ledger[i].type = "allocation" /\ Parent[ledger[i].project] # 0 => mode = "roll_up"

\* Why postings stay within open periods and running projects: what a posting
\* checked is held by a lock until its transaction ends.
PostingsGuarded ==
    /\ \A w \in Worker : shares[w] \cap closed = {}
    /\ \A w \in Worker : \A i \in 1..Len(legs[w]) :
         legs[w][i].type \in HoldTypes => legs[w][i].bucket = BucketForType[legs[w][i].type]
    /\ \A w \in Worker : \A i \in 1..Len(rows[w]) :
         /\ rows[w][i].type = "release" \/ rows[w][i].date \in shares[w]
         /\ rows[w][i].type \in HoldTypes => status[rows[w][i].project] \notin Ended

\* Nothing but a release is committed into a period that is closed when the
\* transaction commits, however the close and the posting interleave.
ClosedPeriodsStayClosed ==
    [][ \A i \in (Len(ledger) + 1)..Len(ledger') :
          ledger'[i].type = "release" \/ ledger'[i].date \notin closed ]_vars

\* No reservation, commitment or actual is committed on a project that is
\* completed or abandoned when the transaction commits.
NoHoldsOnEndedProjects ==
    [][ \A i \in (Len(ledger) + 1)..Len(ledger') :
          ledger'[i].type \in HoldTypes =>
              status[ledger'[i].project] \notin Ended ]_vars
=============================================================================
