---------------------------- MODULE LedgerRules ----------------------------
(***************************************************************************)
(* The pure rules of the budget ledger: entry types and their buckets,     *)
(* signs and rounding, what an entry contributes to a balance bucket, and  *)
(* what is left of a reservation or commitment.  Nothing here has state;   *)
(* Ledger.tla runs these rules inside concurrent database transactions.    *)
(***************************************************************************)
EXTENDS Integers, Sequences

CONSTANTS
    Quantum      \* smallest amount of the currency, in the model's amount unit

ASSUME QuantumAssumption == Quantum \in Nat \ {0}

Bucket == {"allocated", "reserved", "committed", "actual"}

EntryType == {"allocation", "transfer", "adjustment", "reservation",
              "commitment", "actual", "release", "reversal"}

\* The bucket an entry type posts to.  A release names its bucket and a
\* reversal takes its original's, so neither has one of its own.
BucketForType ==
    [ allocation  |-> "allocated", transfer   |-> "allocated",
      adjustment  |-> "allocated", reservation |-> "reserved",
      commitment  |-> "committed", actual      |-> "actual" ]

\* What holds or spends a project's money.
HoldTypes == {"reservation", "commitment", "actual"}

\* The sign rule: +1, -1, or 0 when either sign is allowed.
ExpectedSign(type) ==
    CASE type \in {"allocation", "reservation", "commitment", "actual"} -> 1
      [] type = "release" -> -1
      [] OTHER -> 0

SignOK(type, amount) ==
    /\ amount # 0
    /\ ExpectedSign(type) = 1 => amount > 0
    /\ ExpectedSign(type) = -1 => amount < 0

\* ROUND_HALF_UP of decimal: to the nearest multiple of Quantum, ties away
\* from zero.
RoundUpward(amount) == ((2 * amount + Quantum) \div (2 * Quantum)) * Quantum

Quantize(amount) ==
    IF amount >= 0 THEN RoundUpward(amount) ELSE -RoundUpward(-amount)

-----------------------------------------------------------------------------
(* Sums over sequences of entries.  SumTo is a recursive function, so that   *)
(* the proofs can reason about it.                                           *)

\* The sum c[1] + ... + c[n].
SumTo(c, n) ==
    LET sum[k \in 0..n] == IF k = 0 THEN 0 ELSE sum[k - 1] + c[k]
    IN  sum[n]

\* What entry e adds to bucket b of project p.
Contribution(e, p, b) == IF e.project = p /\ e.bucket = b THEN e.amount ELSE 0

\* The sum of the entries of one project's bucket: what reconciliation
\* compares with the stored balance.
LedgerSum(entries, p, b) ==
    SumTo([i \in 1..Len(entries) |-> Contribution(entries[i], p, b)], Len(entries))

\* The sum of the legs of one transfer group.
GroupSum(entries, g) ==
    SumTo([i \in 1..Len(entries) |->
              IF entries[i].group = g THEN entries[i].amount ELSE 0], Len(entries))

Available(row) ==
    row["allocated"] - row["reserved"] - row["committed"] - row["actual"]

-----------------------------------------------------------------------------
(* Lineage: releases and reversals point at the entry they act on; 0 is NULL. *)

IsReversed(entries, i) == \E j \in 1..Len(entries) : entries[j].reverses = i

\* Entry j changes what is held under entry i: a release of i, or the reversal
\* of such a release.
ActsOn(entries, j, i) ==
    \/ entries[j].releases = i
    \/ entries[j].reverses # 0 /\ entries[entries[j].reverses].releases = i

\* The reservation_remaining and commitment_remaining views.
Remaining(entries, i) ==
    IF IsReversed(entries, i)
    THEN 0
    ELSE entries[i].amount
         + SumTo([j \in 1..Len(entries) |->
                     IF ActsOn(entries, j, i) THEN entries[j].amount ELSE 0],
                 Len(entries))
=============================================================================
