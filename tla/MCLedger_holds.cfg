\* Long sequences of postings to one project.
SPECIFICATION Spec
CONSTANTS
    Worker = {w1}
    Project <- OneProject
    Parent <- OneParent
    Route <- OneRoute
    Key = {k1, k2, k3, k4}
    Amount = {1, 3}
    Quantum = 2
    MaxDate = 1
    MaxEntry = 4
    Ops = {"reserve", "release_reservation", "commit", "record_actual", "release_commitment", "reverse_entry", "set_setting"}
    OverdraftValues = {FALSE, TRUE}
    FirstStatus = "active"
SYMMETRY Symmetry
INVARIANTS HoldsBacked
CHECK_DEADLOCK FALSE
