------------------------------ MODULE Catalogue ------------------------------
(***************************************************************************)
(* The catalogue of requested items, derived from the lines of submitted   *)
(* requisitions: record_requested inside the transaction of a submission.  *)
(*                                                                         *)
(* A line finds or inserts its item, appends an event unless its source    *)
(* has one for that item, and then updates the item, whose row stays       *)
(* locked until the submission commits.  Lines are taken in their own      *)
(* order, so two submissions may wait for each other's items: the database *)
(* ends one of them.  A draft may be rewritten and submitted again.        *)
(*                                                                         *)
(* Abstracted: an item is its key (unit, type, description, measure);      *)
(* vendors, quantities and currencies; events other than "requested".      *)
(***************************************************************************)
EXTENDS Naturals, Sequences, FiniteSets

CONSTANTS
    Item,           \* keys of catalogue items
    Requisition,
    Drafts,         \* Drafts[q]: the lines q may have: sequences of [line, item, price]
    MaxSubmissions, \* bound: submissions of one requisition
    NotHeld         \* no submission

Line == [line : Nat, item : Item, price : Nat]

\* A line's id is its own within the requisition.
ASSUME CatalogueAssumption ==
    /\ NotHeld \notin Requisition
    /\ \A q \in Requisition : \A d \in Drafts[q] :
          /\ d \in Seq(Line)
          /\ \A j, k \in 1..Len(d) : d[j].line = d[k].line => j = k

VARIABLES
    lines,      \* lines[q]: its lines
    submitted,  \* submitted[q]: submissions begun
    position,   \* position[q]: the line its submission records next; 0 when none runs
    written,    \* written[q][i]: the lines its transaction has written to i, in order
    itemLock,   \* itemLock[i]: the submission that holds i's row
    item,       \* item[i]: the committed row: how often requested, and the last price
    events      \* events[i]: its catalogue_event rows, in the order of commit

catalogueVars == <<lines, submitted, position, written, itemLock, item, events>>

CatalogueInit ==
    /\ lines \in [Requisition -> UNION {Drafts[q] : q \in Requisition}]
    /\ \A q \in Requisition : lines[q] \in Drafts[q]
    /\ submitted = [q \in Requisition |-> 0]
    /\ position = [q \in Requisition |-> 0]
    /\ written = [q \in Requisition |-> [i \in Item |-> <<>>]]
    /\ itemLock = [i \in Item |-> NotHeld]
    /\ item = [i \in Item |-> [times |-> 0, price |-> 0]]
    /\ events = [i \in Item |-> <<>>]

\* A returned or new draft gets other lines.
Rewrite(q) ==
    /\ position[q] = 0
    /\ \E d \in Drafts[q] : lines' = [lines EXCEPT ![q] = d]
    /\ UNCHANGED <<submitted, position, written, itemLock, item, events>>

BeginSubmission(q) ==
    /\ position[q] = 0
    /\ submitted[q] < MaxSubmissions
    /\ submitted' = [submitted EXCEPT ![q] = @ + 1]
    /\ position' = [position EXCEPT ![q] = 1]
    /\ UNCHANGED <<lines, written, itemLock, item, events>>

Ready(q) == position[q] \in DOMAIN lines[q]

Current(q) == lines[q][position[q]]

\* Fault: every submission counts its lines anew.
NeverRecorded(q) == FALSE

\* catalogue_event_once: this line has an event for this item.
Recorded(q) == \E k \in DOMAIN events[Current(q).item] :
                   events[Current(q).item][k].line = Current(q).line

\* A repeated source: neither an event nor an update.
SkipLine(q) ==
    /\ Ready(q)
    /\ Recorded(q)
    /\ position' = [position EXCEPT ![q] = @ + 1]
    /\ UNCHANGED <<lines, submitted, written, itemLock, item, events>>

\* The item is inserted, or updated, once its row is free.
RecordLine(q) ==
    /\ Ready(q)
    /\ ~Recorded(q)
    /\ itemLock[Current(q).item] \in {NotHeld, q}
    /\ itemLock' = [itemLock EXCEPT ![Current(q).item] = q]
    /\ written' = [written EXCEPT ![q][Current(q).item] = Append(@, Current(q))]
    /\ position' = [position EXCEPT ![q] = @ + 1]
    /\ UNCHANGED <<lines, submitted, item, events>>

\* The transaction ends, and its locks with it.
EndSubmission(q) ==
    /\ position' = [position EXCEPT ![q] = 0]
    /\ written' = [written EXCEPT ![q] = [i \in Item |-> <<>>]]
    /\ itemLock' = [i \in Item |-> IF itemLock[i] = q THEN NotHeld ELSE itemLock[i]]

Counted(q, i) == item[i].times + Len(written[q][i])

CommitSubmission(q) ==
    /\ position[q] = Len(lines[q]) + 1
    /\ events' = [i \in Item |-> events[i] \o written[q][i]]
    /\ item' = [i \in Item |->
           IF written[q][i] = <<>> THEN item[i]
           ELSE [times |-> Counted(q, i), price |-> written[q][i][Len(written[q][i])].price]]
    /\ EndSubmission(q)
    /\ UNCHANGED <<lines, submitted>>

\* A later step of the submission is refused, the process dies, or the database
\* breaks a deadlock: nothing of it remains.
AbortSubmission(q) ==
    /\ position[q] # 0
    /\ EndSubmission(q)
    /\ UNCHANGED <<lines, submitted, item, events>>

CatalogueNext ==
    \E q \in Requisition :
        \/ Rewrite(q) \/ BeginSubmission(q) \/ SkipLine(q) \/ RecordLine(q)
        \/ CommitSubmission(q) \/ AbortSubmission(q)

CatalogueSpec == CatalogueInit /\ [][CatalogueNext]_catalogueVars

-----------------------------------------------------------------------------
(* Properties.                                                               *)

\* However submissions and resubmissions interleave and fail: an item counts the lines
\* that asked for it, each once, and shows the price of the newest (record_event).
CatalogueDerived ==
    \A i \in Item :
        LET log == events[i]
        IN  /\ item[i].times = Len(log)
            /\ item[i].price = IF log = <<>> THEN 0 ELSE log[Len(log)].price
            /\ \A j, k \in DOMAIN log : log[j].line = log[k].line => j = k
=============================================================================
