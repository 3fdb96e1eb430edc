\* Two clients; one family of commands at a time, or a few that meet.
SPECIFICATION Spec
CONSTANTS
    u1 = u1
    u2 = u2
    w1 = w1
    w2 = w2
    q1 = q1
    c1 = c1
    c2 = c2
    start = start
    test = test
    first = first
    second = second
    end = end
    Org = Org
    Nowhere = Nowhere
    Unit = {u1, u2}
    MaxLevels = 5
    Months = 3
    Year = {1, 2}
    StartMonths = {1, 2}
    Client = {c1, c2}
    Prefix = {"PRJ", "P"}
    DefaultPrefix = "PRJ"
    Code = {"A", "B"}
    Definition = {w1, w2}
    Project = {1, 2, 3, 4, 5, 6, 7}
    Request = {11, 12}
    Doc = {1, 2, 3, 4, 5, 6, 7, 11, 12, q1}
    TypeOf <- Types
    Node = {start, test, first, second, end}
    Kind <- Kinds
    Start = start
    ProjectLevels = 5
    WalkGuard = 6
    Mixes <- FamilyMixes
    MaxProjectVersion = 4
    MaxRows = 1
INVARIANTS RoutesComplete CalendarHolds DocumentsFollowApprovals PlansStand PathsMeet
PROPERTIES EndedPlansStand
SYMMETRY Clients
CHECK_DEADLOCK FALSE
