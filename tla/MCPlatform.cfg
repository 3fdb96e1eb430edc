\* A tenant row, an identity row, two ticks and two faults; two tasks, three people, two days and
\* two runs; a request, its retry, a reuse of its key, a rival for its attachment, and a note; two
\* requisitions, each with two drafts, that share two items.
SPECIFICATION PlatformSpec
CONSTANTS
    m1 = m1
    m2 = m2
    p1 = p1
    p2 = p2
    p3 = p3
    t1 = t1
    t2 = t2
    r1 = r1
    r2 = r2
    r3 = r3
    r4 = r4
    r5 = r5
    k1 = k1
    k2 = k2
    k3 = k3
    a1 = a1
    x = x
    y = y
    q1 = q1
    q2 = q2
    i1 = i1
    i2 = i2
    Message <- Messages
    Expiring = {m2}
    Worker = {w1, w2}
    MaxAttempts = 3
    MaxFault = 2
    NoMessage = NoMessage
    Task = {t1, t2}
    Person = {p1, p2, p3}
    Base <- Bases
    Extra <- Extras
    DueDay <- DueDays
    EscalateDay <- EscalateDays
    Cover <- Covers
    Runner = {j1, j2}
    MaxDay = 2
    NoRun = NoRun
    Request = {r1, r2, r3, r4, r5}
    Key <- Keyed
    Content <- Contents
    Nobody = Nobody
    Attachment = {a1}
    Command <- Commands
    Tab = {tab1, tab2}
    MaxNoteVersion = 3
    Item = {i1, i2}
    Requisition = {q1, q2}
    Drafts <- Lines
    MaxSubmissions = 2
    NotHeld = NotHeld
INVARIANTS SentOnce RemindersHold RecordsKept CatalogueDerived
PROPERTIES RowsSettle ImplementsOnceOnly
CHECK_DEADLOCK FALSE
