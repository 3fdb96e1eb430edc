\* Allocations and transfers down a chain of three projects while the funding
\* mode may still change.
SPECIFICATION Spec
CONSTANTS
    Worker = {w1, w2}
    Project <- ChainProject
    Parent <- ChainParent
    Route <- ChainRoute
    Key = {k1, k2}
    Amount = {3}
    Quantum = 2
    MaxDate = 1
    MaxEntry = 3
    Ops = {"allocate", "adjust", "transfer", "set_setting"}
    OverdraftValues = {TRUE}
    FirstStatus = "draft"
SYMMETRY Symmetry
INVARIANTS GroupsBalance OnePostingPerKey FundedByMode
CHECK_DEADLOCK FALSE
