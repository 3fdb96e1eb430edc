\* Two requisitions of a project and a Project Request, two transactions in flight.
SPECIFICATION Spec
CONSTANTS
    r1 = r1
    r2 = r2
    r3 = r3
    m1 = m1
    m2 = m2
    w1 = w1
    w2 = w2
    Req = {r1, r2, r3}
    Standalone = {r3}
    Main = {m1, m2}
    Nothing = Nothing
    Worker = {w1, w2}
    Funds <- AllFunds
    MaxEstimate = 2
    Mixes <- FamilyMixes
SYMMETRY Symmetry
INVARIANTS HoldsMatchStatus SubFundedExactly ApprovalRunsWhileAwaited ApprovalCovers ClosedIsIdle
PROPERTY CoverKept
CHECK_DEADLOCK FALSE
