---------------------------- MODULE MCApprovals ----------------------------
(* Instances of Approvals for TLC. *)
EXTENDS Approvals, TLC

CONSTANTS ann, bob, cat, req    \* users; req submits the document

\* Small documents take one step, large ones a second.
Edges ==
    [a \in Amount |-> "start" :> "n1" @@ "n1" :> (IF a > 1 THEN "n2" ELSE "end") @@ "n2" :> "end"]

Rules == "n1" :> {ann, bob, req} @@ "n2" :> {bob, cat}
OneEach == "n1" :> {ann, req} @@ "n2" :> {bob}
TwoThenAll == "n1" :> "quorum" @@ "n2" :> "all"
AnyThenAll == "n1" :> "any" @@ "n2" :> "all"
Quorums == "n1" :> 2 @@ "n2" :> 1
Repeats == "n1" :> FALSE @@ "n2" :> FALSE
NoEscalation == [n \in Node |-> {}]
Escalations == "n1" :> {} @@ "n2" :> {ann}
=============================================================================
