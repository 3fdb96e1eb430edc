\* One project, two transactions, four entries and two dates.
SPECIFICATION Spec
CONSTANTS
    Worker = {w1, w2}
    Project <- OneProject
    Parent <- OneParent
    Route <- OneRoute
    Key = {k1, k2, k3, k4}
    Amount = {3}
    Quantum = 2
    MaxDate = 2
    MaxEntry = 4
    Ops = {"adjust", "reserve", "release_reservation", "commit", "record_actual", "reverse_entry", "transition", "close_period", "reopen_period"}
    OverdraftValues = {FALSE}
    FirstStatus = "active"
CONSTRAINT OneMix
SYMMETRY Symmetry
INVARIANTS ConstraintsNeverFire NoOverdraft
PROPERTIES ClosedPeriodsStayClosed NoHoldsOnEndedProjects
CHECK_DEADLOCK FALSE
