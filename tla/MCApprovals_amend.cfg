\* A code substituted while an amendment is approved that then fails.
SPECIFICATION Spec
CONSTANTS
    ann = ann
    bob = bob
    cat = cat
    req = req
    User = {ann, bob, req}
    Requester = req
    Node = {"n1", "n2"}
    Amount = {1, 2}
    Code = {"c1", "c2"}
    Expirable = {"c1"}
    NextNode <- Edges
    Rule <- OneEach
    Mode <- AnyThenAll
    Quorum <- Quorums
    AllowRepeat <- Repeats
    EscalateTo <- NoEscalation
    SeparationOfDuty = TRUE
    Changing = {}
    MaxInstance = 2
    MaxCover = 0
INVARIANT ApprovalStaysCurrent
CHECK_DEADLOCK FALSE
