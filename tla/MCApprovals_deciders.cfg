\* One approval whose first step needs two of its members and whose second all of
\* them, with delegations, reassignment, escalation and a permission that changes.
SPECIFICATION Spec
CONSTANTS
    ann = ann
    bob = bob
    cat = cat
    req = req
    User = {ann, bob, cat, req}
    Requester = req
    Node = {"n1", "n2"}
    Amount = {2}
    Code = {"c1"}
    Expirable = {}
    NextNode <- Edges
    Rule <- Rules
    Mode <- TwoThenAll
    Quorum <- Quorums
    AllowRepeat <- Repeats
    EscalateTo <- Escalations
    SeparationOfDuty = TRUE
    Changing = {ann, bob}
    MaxInstance = 1
    MaxCover = 2
INVARIANTS DecidersDistinct RequesterApart
CHECK_DEADLOCK FALSE
