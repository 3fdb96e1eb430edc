---------------------------- MODULE LedgerProofs ----------------------------
(***************************************************************************)
(* Ledger for every set of workers, projects, keys, amounts and dates. The *)
(* first part is about the sums and holds of LedgerRules: entries each of  *)
(* which was added rightly keep their buckets.  Induction over Nat is done *)
(* on sets: a set of naturals that holds a counterexample holds a least    *)
(* one.                                                                    *)
(*                                                                         *)
(* The invariants of the second part, each inductive with the types: the   *)
(* stored rows and who holds them (BooksAgree), the funds left             *)
(* (FundsCovered), what was checked before a posting (PostingsGuarded),    *)
(* one posting per key (KeysApart), what a command may still post          *)
(* (CommandsKept) and, with BooksAgree, what every hold has left           *)
(* (HoldsKept).                                                            *)
(***************************************************************************)
EXTENDS Ledger, WellFoundedInduction, TLAPS

NatLess == {ss \in Nat \X Nat : ss[1] < ss[2]}

\* Every non-empty set of naturals has a least element.
LEMMA LeastNat ==
    ASSUME NEW T \in SUBSET Nat, T # {}
    PROVE  \E x \in T : \A y \in T : x <= y
<1>1. IsWellFoundedOn(NatLess, Nat)
  BY NatLessThanWellFounded DEF OpToRel, NatLess
<1>2. PICK x \in T : \A y \in T : ~(<<y, x>> \in NatLess)
  BY <1>1, WFMin
<1>3. \A y \in T : ~(y < x)
  BY <1>2 DEF NatLess
<1>4. QED
  BY <1>3

\* Induction on a set of naturals.
LEMMA SetInduction ==
    ASSUME NEW S, 0 \in S, \A n \in Nat : n \in S => n + 1 \in S
    PROVE  Nat \subseteq S
<1> DEFINE T == Nat \ S
<1>1. SUFFICES ASSUME T # {} PROVE FALSE
  OBVIOUS
<1>2. PICK x \in T : \A y \in T : x <= y
  BY <1>1, LeastNat
<1>3. x - 1 \in Nat /\ x - 1 \in S
  BY <1>2
<1>4. QED
  BY <1>2, <1>3

LEMMA ConcatElements ==
    ASSUME NEW S, NEW s \in Seq(S), NEW t \in Seq(S)
    PROVE  /\ s \o t \in Seq(S) /\ Len(s) \in Nat /\ Len(t) \in Nat
           /\ Len(s \o t) = Len(s) + Len(t)
           /\ \A i \in 1..Len(s) : (s \o t)[i] = s[i]
           /\ \A i \in 1..Len(t) : (s \o t)[Len(s) + i] = t[i]
           /\ \A i \in 1..Len(s \o t) :
                i \in 1..Len(s) \/ (i - Len(s) \in 1..Len(t) /\ (s \o t)[i] = t[i - Len(s)])
  OBVIOUS

LEMMA AppendElements ==
    ASSUME NEW S, NEW s \in Seq(S), NEW x \in S
    PROVE  /\ Append(s, x) \in Seq(S) /\ Len(s) \in Nat
           /\ Len(Append(s, x)) = Len(s) + 1
           /\ \A i \in 1..Len(s) : Append(s, x)[i] = s[i]
           /\ Append(s, x)[Len(s) + 1] = x
           /\ \A i \in 1..Len(Append(s, x)) : i \in 1..Len(s) \/ i = Len(s) + 1
  OBVIOUS

-----------------------------------------------------------------------------

IsSum(f, c, n) ==
    f = [k \in 0..n |-> IF k = 0 THEN 0 ELSE f[k - 1] + c[k]]

\* The recursion of SumTo has a solution for every length.
LEMMA SumExists ==
    ASSUME NEW c, NEW n \in Nat
    PROVE  \E f : IsSum(f, c, n)
<1> DEFINE S == {m \in Nat : \E f : IsSum(f, c, m)}
<1>1. 0 \in S
  <2> DEFINE f == [k \in 0..0 |-> 0]
  <2>1. IsSum(f, c, 0)
    BY DEF IsSum
  <2>2. QED
    BY <2>1
<1>2. ASSUME NEW m \in Nat, m \in S PROVE m + 1 \in S
  <2>1. PICK g : IsSum(g, c, m)
    BY <1>2
  <2> DEFINE f == [k \in 0..(m + 1) |-> IF k = m + 1 THEN g[m] + c[k] ELSE g[k]]
  <2>2. \A k \in 0..m : g[k] = IF k = 0 THEN 0 ELSE g[k - 1] + c[k]
    BY <2>1 DEF IsSum
  <2>3. ASSUME NEW k \in 0..(m + 1) PROVE f[k] = IF k = 0 THEN 0 ELSE f[k - 1] + c[k]
    BY <2>2
  <2>4. f = [k \in 0..(m + 1) |-> IF k = 0 THEN 0 ELSE f[k - 1] + c[k]]
    <3> HIDE DEF f
    <3>1. f = [k \in 0..(m + 1) |-> f[k]]
      BY DEF f
    <3>2. QED
      BY <2>3, <3>1
  <2>5. IsSum(f, c, m + 1)
    BY <2>4 DEF IsSum
  <2>6. QED
    BY <2>5
<1>3. n \in S
  BY <1>1, <1>2, SetInduction
<1>4. QED
  BY <1>3

\* SumTo is computed by a function that obeys the recursion.
LEMMA SumIsSum ==
    ASSUME NEW c, NEW n \in Nat
    PROVE  \E f : IsSum(f, c, n) /\ SumTo(c, n) = f[n]
<1> DEFINE sum == CHOOSE f : f = [k \in 0..n |-> IF k = 0 THEN 0 ELSE f[k - 1] + c[k]]
<1>1. IsSum(sum, c, n)
  BY SumExists DEF IsSum
<1>2. SumTo(c, n) = sum[n]
  BY DEF SumTo
<1>3. QED
  BY <1>1, <1>2

\* Two solutions agree as far as the summed functions agree.
LEMMA SumsAgree ==
    ASSUME NEW c, NEW d, NEW f, NEW g, NEW m \in Nat, NEW n \in Nat,
           IsSum(f, c, m), IsSum(g, d, n), m <= n, \A k \in 1..m : c[k] = d[k]
    PROVE  f[m] = g[m]
<1> DEFINE S == {k \in Nat : k <= m => f[k] = g[k]}
<1>1. \A k \in 0..m : f[k] = IF k = 0 THEN 0 ELSE f[k - 1] + c[k]
  BY DEF IsSum
<1>2. \A k \in 0..n : g[k] = IF k = 0 THEN 0 ELSE g[k - 1] + d[k]
  BY DEF IsSum
<1>3. 0 \in S
  BY <1>1, <1>2
<1>4. ASSUME NEW k \in Nat, k \in S PROVE k + 1 \in S
  <2>1. SUFFICES ASSUME k + 1 <= m PROVE f[k + 1] = g[k + 1]
    OBVIOUS
  <2>2. f[k] = g[k] /\ c[k + 1] = d[k + 1]
    BY <1>4, <2>1
  <2>3. f[k + 1] = f[k] + c[k + 1] /\ g[k + 1] = g[k] + d[k + 1]
    BY <1>1, <1>2, <2>1
  <2>4. QED
    BY <2>2, <2>3
<1>5. m \in S
  BY <1>3, <1>4, SetInduction
<1>6. QED
  BY <1>5

LEMMA SumZero == ASSUME NEW c PROVE SumTo(c, 0) = 0
<1>1. PICK f : IsSum(f, c, 0) /\ SumTo(c, 0) = f[0]
  BY SumIsSum
<1>2. QED
  BY <1>1 DEF IsSum

LEMMA SumStep ==
    ASSUME NEW c, NEW n \in Nat
    PROVE  SumTo(c, n + 1) = SumTo(c, n) + c[n + 1]
<1>1. PICK f : IsSum(f, c, n) /\ SumTo(c, n) = f[n]
  BY SumIsSum
<1>2. PICK g : IsSum(g, c, n + 1) /\ SumTo(c, n + 1) = g[n + 1]
  BY SumIsSum
<1>3. f[n] = g[n]
  <2>1. n + 1 \in Nat /\ n <= n + 1
    OBVIOUS
  <2>2. IsSum(f, c, n) /\ IsSum(g, c, n + 1)
    BY <1>1, <1>2
  <2>3. QED
    BY <2>1, <2>2, SumsAgree
<1>4. g[n + 1] = g[n] + c[n + 1]
  BY <1>2 DEF IsSum
<1>5. QED
  BY <1>1, <1>2, <1>3, <1>4

LEMMA SumCong ==
    ASSUME NEW c, NEW d, NEW n \in Nat, \A k \in 1..n : c[k] = d[k]
    PROVE  SumTo(c, n) = SumTo(d, n)
<1>1. PICK f : IsSum(f, c, n) /\ SumTo(c, n) = f[n]
  BY SumIsSum
<1>2. PICK g : IsSum(g, d, n) /\ SumTo(d, n) = g[n]
  BY SumIsSum
<1>3. f[n] = g[n]
  <2>1. n <= n
    OBVIOUS
  <2>2. IsSum(f, c, n) /\ IsSum(g, d, n)
    BY <1>1, <1>2
  <2>3. QED
    BY <2>1, <2>2, SumsAgree
<1>4. QED
  BY <1>1, <1>2, <1>3

LEMMA SumInt ==
    ASSUME NEW c, NEW n \in Nat, \A k \in 1..n : c[k] \in Int
    PROVE  SumTo(c, n) \in Int
<1> DEFINE S == {k \in Nat : k <= n => SumTo(c, k) \in Int}
<1>1. 0 \in S
  BY SumZero
<1>2. ASSUME NEW k \in Nat, k \in S PROVE k + 1 \in S
  <2>1. SUFFICES ASSUME k + 1 <= n PROVE SumTo(c, k + 1) \in Int
    OBVIOUS
  <2>2. SumTo(c, k) \in Int /\ c[k + 1] \in Int
    BY <1>2, <2>1
  <2>3. QED
    BY <2>2, SumStep
<1>3. n \in S
  BY <1>1, <1>2, SetInduction
<1>4. QED
  BY <1>3

\* The sum over c, then d: what appending one sequence to another does.
Joins(e, c, d, m, n) ==
    /\ \A k \in 1..m : e[k] = c[k] /\ c[k] \in Int
    /\ \A k \in 1..n : e[m + k] = d[k] /\ d[k] \in Int

LEMMA SumShift ==
    ASSUME NEW c, NEW d, NEW e, NEW m \in Nat, NEW n \in Nat, Joins(e, c, d, m, n)
    PROVE  SumTo(e, m + n) = SumTo(c, m) + SumTo(d, n)
<1> USE DEF Joins
<1> DEFINE S == {k \in Nat : k <= n => SumTo(e, m + k) = SumTo(c, m) + SumTo(d, k)}
<1>1. SumTo(c, m) \in Int
  BY SumInt
<1>2. 0 \in S
  <2>1. SumTo(e, m) = SumTo(c, m)
    BY SumCong
  <2>2. SumTo(d, 0) = 0
    BY SumZero
  <2>3. QED
    BY <2>1, <2>2, <1>1
<1>3. ASSUME NEW k \in Nat, k \in S PROVE k + 1 \in S
  <2>1. SUFFICES ASSUME k + 1 <= n
                 PROVE  SumTo(e, m + (k + 1)) = SumTo(c, m) + SumTo(d, k + 1)
    OBVIOUS
  <2>2. SumTo(e, m + k) = SumTo(c, m) + SumTo(d, k)
    BY <1>3, <2>1
  <2>3. SumTo(d, k) \in Int
    BY SumInt, <2>1
  <2>4. SumTo(d, k + 1) = SumTo(d, k) + d[k + 1]
    BY SumStep
  <2>5. SumTo(e, (m + k) + 1) = SumTo(e, m + k) + e[(m + k) + 1]
    BY SumStep
  <2>6. e[m + (k + 1)] = d[k + 1] /\ d[k + 1] \in Int
    BY <2>1
  <2>7. m + (k + 1) = (m + k) + 1
    OBVIOUS
  <2>8. QED
    BY <1>1, <2>2, <2>3, <2>4, <2>5, <2>6, <2>7
<1>4. n \in S
  BY <1>2, <1>3, SetInduction
<1>5. QED
  BY <1>4

-----------------------------------------------------------------------------
(* Sums over ledger entries: E is any set of entries with integer amounts.   *)

LEMMA LedgerSumEmpty == ASSUME NEW p, NEW b PROVE LedgerSum(<<>>, p, b) = 0
  BY SumZero DEF LedgerSum

LEMMA LedgerSumInt ==
    ASSUME NEW E, \A e \in E : e.amount \in Int, NEW s \in Seq(E), NEW p, NEW b
    PROVE  LedgerSum(s, p, b) \in Int
<1> DEFINE c == [i \in 1..Len(s) |-> Contribution(s[i], p, b)]
<1>1. \A i \in 1..Len(s) : c[i] \in Int
  BY DEF Contribution
<1>2. Len(s) \in Nat
  OBVIOUS
<1>3. SumTo(c, Len(s)) \in Int
  <2> HIDE DEF c
  <2>1. QED
    BY <1>1, <1>2, SumInt
<1>4. QED
  BY <1>3 DEF LedgerSum

\* Entries of other projects do not count.
LEMMA LedgerSumForeign ==
    ASSUME NEW s, Len(s) \in Nat, NEW p, NEW b, \A i \in 1..Len(s) : s[i].project # p
    PROVE  LedgerSum(s, p, b) = 0
<1> DEFINE c == [i \in 1..Len(s) |-> Contribution(s[i], p, b)]
           S == {k \in Nat : k <= Len(s) => SumTo(c, k) = 0}
<1>1. \A i \in 1..Len(s) : c[i] = 0
  BY DEF Contribution
<1> HIDE DEF c
<1>2. 0 \in S
  BY SumZero
<1>3. ASSUME NEW k \in Nat, k \in S PROVE k + 1 \in S
  <2>1. SUFFICES ASSUME k + 1 <= Len(s) PROVE SumTo(c, k + 1) = 0
    OBVIOUS
  <2>2. SumTo(c, k) = 0 /\ c[k + 1] = 0
    BY <1>1, <1>3, <2>1
  <2>3. QED
    BY <2>2, SumStep
<1>4. Len(s) \in S
  BY <1>2, <1>3, SetInduction
<1>5. QED
  BY <1>4 DEF LedgerSum, c

\* Committing a transaction's entries adds their sum to the ledger's.
LEMMA LedgerSumConcat ==
    ASSUME NEW E, \A e \in E : e.amount \in Int,
           NEW s \in Seq(E), NEW t \in Seq(E), NEW p, NEW b
    PROVE  LedgerSum(s \o t, p, b) = LedgerSum(s, p, b) + LedgerSum(t, p, b)
<1> DEFINE c == [i \in 1..Len(s) |-> Contribution(s[i], p, b)]
           d == [i \in 1..Len(t) |-> Contribution(t[i], p, b)]
           u == s \o t
           e == [i \in 1..Len(u) |-> Contribution(u[i], p, b)]
<1>1. Len(s) \in Nat /\ Len(t) \in Nat /\ Len(u) = Len(s) + Len(t)
  OBVIOUS
<1>2. \A i \in 1..Len(s) : c[i] \in Int
  BY DEF Contribution
<1>3. \A i \in 1..Len(t) : d[i] \in Int
  BY DEF Contribution
<1>4. \A i \in 1..Len(s) : e[i] = c[i]
  BY <1>1
<1>5. \A i \in 1..Len(t) : e[Len(s) + i] = d[i]
  BY <1>1
<1>6. SumTo(e, Len(s) + Len(t)) = SumTo(c, Len(s)) + SumTo(d, Len(t))
  <2> HIDE DEF c, d, e, u
  <2>1. Joins(e, c, d, Len(s), Len(t))
    BY <1>2, <1>3, <1>4, <1>5 DEF Joins
  <2>2. QED
    BY <1>1, <2>1, SumShift
<1>7. QED
  BY <1>1, <1>6 DEF LedgerSum

\* Posting one more entry adds its contribution.
LEMMA LedgerSumAppend ==
    ASSUME NEW E, \A x \in E : x.amount \in Int,
           NEW s \in Seq(E), NEW y \in E, NEW p, NEW b
    PROVE  LedgerSum(Append(s, y), p, b) = LedgerSum(s, p, b) + Contribution(y, p, b)
<1> DEFINE t == Append(s, y)
           c == [i \in 1..Len(s) |-> Contribution(s[i], p, b)]
           e == [i \in 1..Len(t) |-> Contribution(t[i], p, b)]
<1>1. Len(s) \in Nat /\ Len(t) = Len(s) + 1
  OBVIOUS
<1>2. \A i \in 1..Len(s) : e[i] = c[i]
  BY <1>1
<1>3. e[Len(s) + 1] = Contribution(y, p, b)
  BY <1>1
<1>4. SumTo(e, Len(s)) = SumTo(c, Len(s))
  <2> HIDE DEF c, e, t
  <2>1. QED
    BY <1>1, <1>2, SumCong
<1>5. SumTo(e, Len(s) + 1) = SumTo(e, Len(s)) + e[Len(s) + 1]
  <2> HIDE DEF c, e, t
  <2>1. QED
    BY <1>1, SumStep
<1>6. QED
  BY <1>1, <1>3, <1>4, <1>5 DEF LedgerSum

-----------------------------------------------------------------------------
(* Closure, and changes at one point.                                        *)

\* A sum of members of a set closed under addition is a member.
LEMMA SumClosed ==
    ASSUME NEW M, 0 \in M, \A x, y \in M : x + y \in M,
           NEW c, NEW n \in Nat, \A k \in 1..n : c[k] \in M
    PROVE  SumTo(c, n) \in M
<1> DEFINE S == {k \in Nat : k <= n => SumTo(c, k) \in M}
<1>1. 0 \in S
  BY SumZero
<1>2. ASSUME NEW k \in Nat, k \in S PROVE k + 1 \in S
  <2>1. SUFFICES ASSUME k + 1 <= n PROVE SumTo(c, k + 1) \in M
    OBVIOUS
  <2>2. SumTo(c, k) \in M /\ c[k + 1] \in M
    BY <1>2, <2>1
  <2>3. QED
    BY <2>2, SumStep
<1>3. n \in S
  BY <1>1, <1>2, SetInduction
<1>4. QED
  BY <1>3

LEMMA SumNothing ==
    ASSUME NEW c, NEW n \in Nat, \A k \in 1..n : c[k] = 0
    PROVE  SumTo(c, n) = 0
<1>1. SumTo(c, n) \in {0}
  <2>1. \A x, y \in {0} : x + y \in {0}
    OBVIOUS
  <2>2. QED
    BY <2>1, SumClosed
<1>2. QED
  BY <1>1

\* A change of one summand changes the sum by as much.
LEMMA SumPoint ==
    ASSUME NEW c, NEW d, NEW n \in Nat, NEW t \in 1..n, NEW x \in Int,
           \A k \in 1..n : c[k] \in Int,
           \A k \in 1..n : k # t => d[k] = c[k],
           d[t] = c[t] + x
    PROVE  SumTo(d, n) = SumTo(c, n) + x
<1> DEFINE S == {k \in Nat : k <= n => SumTo(d, k) = SumTo(c, k) + IF t <= k THEN x ELSE 0}
<1>1. 0 \in S
  BY SumZero
<1>2. ASSUME NEW k \in Nat, k \in S PROVE k + 1 \in S
  <2>1. SUFFICES ASSUME k + 1 <= n
                 PROVE  SumTo(d, k + 1) = SumTo(c, k + 1) + IF t <= k + 1 THEN x ELSE 0
    OBVIOUS
  <2>2. SumTo(d, k) = SumTo(c, k) + IF t <= k THEN x ELSE 0
    BY <1>2, <2>1
  <2>3. SumTo(c, k) \in Int /\ c[k + 1] \in Int
    BY <2>1, SumInt
  <2>4. SumTo(c, k + 1) = SumTo(c, k) + c[k + 1] /\ SumTo(d, k + 1) = SumTo(d, k) + d[k + 1]
    BY SumStep
  <2>5. CASE k + 1 = t
    BY <2>2, <2>3, <2>4, <2>5
  <2>6. CASE k + 1 # t
    <3>1. d[k + 1] = c[k + 1] /\ (t <= k + 1 <=> t <= k)
      BY <2>1, <2>6
    <3>2. QED
      BY <2>2, <2>3, <2>4, <3>1
  <2>7. QED
    BY <2>5, <2>6
<1>3. n \in S
  BY <1>1, <1>2, SetInduction
<1>4. QED
  BY <1>3

\* A sum of summands that are never positive is at most each of them.
LEMMA SumBelowEach ==
    ASSUME NEW c, NEW n \in Nat, NEW t \in 1..n, \A k \in 1..n : c[k] \in Int /\ c[k] <= 0
    PROVE  SumTo(c, n) \in Int /\ SumTo(c, n) <= c[t]
<1> DEFINE d == [k \in 1..n |-> IF k = t THEN 0 ELSE c[k]]
           M == {x \in Int : x <= 0}
<1>1. d[t] = 0 /\ \A k \in 1..n : k # t => d[k] = c[k]
  OBVIOUS
<1>2. \A k \in 1..n : d[k] \in Int /\ d[k] \in M
  OBVIOUS
<1>3. 0 \in M /\ \A x, y \in M : x + y \in M
  OBVIOUS
<1> HIDE DEF d, M
<1>4. SumTo(d, n) \in M
  BY <1>2, <1>3, SumClosed
<1>5. c[t] = d[t] + c[t] /\ c[t] \in Int
  BY <1>1
<1>6. \A k \in 1..n : k # t => c[k] = d[k]
  BY <1>1
<1>7. SumTo(c, n) = SumTo(d, n) + c[t]
  BY <1>2, <1>5, <1>6, SumPoint
<1>8. QED
  BY <1>4, <1>5, <1>7 DEF M

-----------------------------------------------------------------------------
(* Transfer groups.                                                          *)

LEMMA GroupSumForeign ==
    ASSUME NEW s, Len(s) \in Nat, NEW g, \A i \in 1..Len(s) : s[i].group # g
    PROVE  GroupSum(s, g) = 0
<1> DEFINE c == [i \in 1..Len(s) |-> IF s[i].group = g THEN s[i].amount ELSE 0]
<1>1. \A i \in 1..Len(s) : c[i] = 0
  OBVIOUS
<1>2. SumTo(c, Len(s)) = 0
  <2> HIDE DEF c
  <2>1. QED
    BY <1>1, SumNothing
<1>3. QED
  BY <1>2 DEF GroupSum

LEMMA GroupSumConcat ==
    ASSUME NEW E, \A e \in E : e.amount \in Int, NEW s \in Seq(E), NEW t \in Seq(E), NEW g
    PROVE  GroupSum(s \o t, g) = GroupSum(s, g) + GroupSum(t, g)
<1> DEFINE c == [i \in 1..Len(s) |-> IF s[i].group = g THEN s[i].amount ELSE 0]
           d == [i \in 1..Len(t) |-> IF t[i].group = g THEN t[i].amount ELSE 0]
           u == s \o t
           e == [i \in 1..Len(u) |-> IF u[i].group = g THEN u[i].amount ELSE 0]
<1>1. Len(s) \in Nat /\ Len(t) \in Nat /\ Len(u) = Len(s) + Len(t)
  OBVIOUS
<1>2. \A i \in 1..Len(s) : c[i] \in Int
  OBVIOUS
<1>3. \A i \in 1..Len(t) : d[i] \in Int
  OBVIOUS
<1>4. \A i \in 1..Len(s) : e[i] = c[i]
  BY <1>1
<1>5. \A i \in 1..Len(t) : e[Len(s) + i] = d[i]
  BY <1>1
<1>6. SumTo(e, Len(s) + Len(t)) = SumTo(c, Len(s)) + SumTo(d, Len(t))
  <2> HIDE DEF c, d, e, u
  <2>1. Joins(e, c, d, Len(s), Len(t))
    BY <1>2, <1>3, <1>4, <1>5 DEF Joins
  <2>2. QED
    BY <1>1, <2>1, SumShift
<1>7. QED
  BY <1>1, <1>6 DEF GroupSum

-----------------------------------------------------------------------------
(* Holds: what is left of reservations, commitments and actuals.             *)

\* The sum of what acts on entry i, and of the releases of i still in force.
Acts(s, i) ==
    SumTo([j \in 1..Len(s) |-> IF ActsOn(s, j, i) THEN s[j].amount ELSE 0], Len(s))

LivePart(s, j, i) == IF s[j].releases = i /\ ~IsReversed(s, j) THEN s[j].amount ELSE 0

LiveSum(s, i) == SumTo([j \in 1..Len(s) |-> LivePart(s, j, i)], Len(s))

\* What remains of the entries of one type of a project.
HeldPart(s, i, p, type) ==
    IF s[i].project = p /\ s[i].type = type THEN Remaining(s, i) ELSE 0

HeldSum(s, p, type) == SumTo([i \in 1..Len(s) |-> HeldPart(s, i, p, type)], Len(s))

\* Entry e is of the bucket it acts on, and refers to another as its type says.
Formed(e) ==
    /\ e.type \in HoldTypes =>
         e.bucket = BucketForType[e.type] /\ e.amount > 0 /\ e.releases = 0 /\ e.reverses = 0
    /\ e.bucket # "allocated" => e.type \in HoldTypes \cup {"release", "reversal"}
    /\ e.releases # 0 => e.type = "release"
    /\ e.reverses # 0 => e.type = "reversal"
    /\ e.type = "release" => e.releases # 0
    /\ e.type = "reversal" => e.reverses # 0

\* Entry e releases part of entry r, or takes entry r back.
ReleasesRightly(e, r) ==
    /\ r.type \in {"reservation", "commitment"}
    /\ e.project = r.project /\ e.bucket = r.bucket /\ e.amount < 0

ReversesRightly(e, r) ==
    /\ r.type # "reversal"
    /\ e.project = r.project /\ e.bucket = r.bucket /\ e.amount = -r.amount

\* Every release of entry i has been taken back.
Unreleased(s, i) == \A j \in 1..Len(s) : s[j].releases = i => IsReversed(s, j)

\* Entry e may be added to the entries s.
Fits(s, e) ==
    /\ Formed(e)
    /\ e.releases # 0 =>
         /\ e.releases \in 1..Len(s) /\ ReleasesRightly(e, s[e.releases])
         /\ ~IsReversed(s, e.releases)
         /\ s[e.releases].amount + LiveSum(s, e.releases) + e.amount >= 0
    /\ e.reverses # 0 =>
         /\ e.reverses \in 1..Len(s) /\ ReversesRightly(e, s[e.reverses])
         /\ ~IsReversed(s, e.reverses)
         /\ Unreleased(s, e.reverses)

\* Entries that were each added rightly.  What acts on a hold is what is still
\* released of it, and a bucket is what remains of its holds.
LineageOK(s) ==
    \A j \in 1..Len(s) :
        /\ Formed(s[j])
        /\ s[j].releases # 0 => s[j].releases < j /\ ReleasesRightly(s[j], s[s[j].releases])
        /\ s[j].reverses # 0 => s[j].reverses < j /\ ReversesRightly(s[j], s[s[j].reverses])

ReversedOnce(s) ==
    \A i, j \in 1..Len(s) : s[i].reverses # 0 /\ s[i].reverses = s[j].reverses => i = j

HoldsOK(s) ==
    \A i \in 1..Len(s) :
        /\ IsReversed(s, i) => Unreleased(s, i)
        /\ Acts(s, i) = LiveSum(s, i)
        /\ s[i].type \in HoldTypes => s[i].amount + LiveSum(s, i) >= 0

BucketsOK(s) ==
    \A p, type : type \in HoldTypes => HeldSum(s, p, type) = LedgerSum(s, p, BucketForType[type])

BookOK(s) == LineageOK(s) /\ ReversedOnce(s) /\ HoldsOK(s) /\ BucketsOK(s)

-----------------------------------------------------------------------------
(* What one more entry does to the sums.  E is any set of entries.           *)

Entries(E) == \A x \in E : x.amount \in Int /\ x.releases \in Nat /\ x.reverses \in Nat

LEMMA SumAppend ==
    ASSUME NEW c, NEW d, NEW n \in Nat, \A k \in 1..n : d[k] = c[k]
    PROVE  SumTo(d, n + 1) = SumTo(c, n) + d[n + 1]
<1>1. SumTo(d, n) = SumTo(c, n)
  BY SumCong
<1>2. SumTo(d, n + 1) = SumTo(d, n) + d[n + 1]
  BY SumStep
<1>3. QED
  BY <1>1, <1>2

LEMMA SumPointAppend ==
    ASSUME NEW c, NEW d, NEW n \in Nat, NEW t \in 1..n, NEW x \in Int,
           \A k \in 1..n : c[k] \in Int,
           \A k \in 1..n : k # t => d[k] = c[k],
           d[t] = c[t] + x
    PROVE  SumTo(d, n + 1) = SumTo(c, n) + x + d[n + 1]
<1>1. SumTo(d, n) = SumTo(c, n) + x
  BY SumPoint
<1>2. SumTo(d, n + 1) = SumTo(d, n) + d[n + 1]
  BY SumStep
<1>3. QED
  BY <1>1, <1>2

LEMMA ReversedAppend ==
    ASSUME NEW E, NEW s \in Seq(E), NEW e \in E
    PROVE  \A i : IsReversed(Append(s, e), i) <=> IsReversed(s, i) \/ e.reverses = i
<1>1. /\ Len(s) \in Nat /\ Len(Append(s, e)) = Len(s) + 1
      /\ \A i \in 1..Len(s) : Append(s, e)[i] = s[i]
      /\ Append(s, e)[Len(s) + 1] = e
  BY AppendElements
<1> DEFINE u == Append(s, e)
<1> HIDE DEF u
<1>2. QED
  BY <1>1 DEF IsReversed

\* What the entry e acts on, added to s.
ActsNew(s, e, i) == e.releases = i \/ (e.reverses # 0 /\ s[e.reverses].releases = i)

NewPart(s, e, i) == IF ActsNew(s, e, i) THEN e.amount ELSE 0

\* The references of the entries, and of an entry that fits, are to earlier ones.
LEMMA References ==
    ASSUME NEW E, Entries(E), NEW s \in Seq(E), LineageOK(s)
    PROVE  /\ \A j \in 1..Len(s) : s[j].releases \in 0..Len(s) /\ s[j].reverses \in 0..Len(s)
           /\ \A j \in 1..Len(s) : s[j].releases # j /\ s[j].reverses # j
           /\ \A j \in 1..Len(s) : s[j].amount \in Int
           /\ \A e : Fits(s, e) /\ e.reverses # 0 => e.releases = 0
           /\ \A j \in 1..Len(s) : s[j].reverses # 0 => s[j].releases = 0
<1>1. \A j \in 1..Len(s) : s[j].releases \in Nat /\ s[j].reverses \in Nat /\ s[j].amount \in Int
  BY DEF Entries
<1>2. ASSUME NEW j \in 1..Len(s)
      PROVE  /\ s[j].releases \in 0..Len(s) /\ s[j].reverses \in 0..Len(s)
             /\ s[j].releases # j /\ s[j].reverses # j
  <2>1. s[j].releases # 0 => s[j].releases < j
    BY DEF LineageOK
  <2>2. s[j].reverses # 0 => s[j].reverses < j
    BY DEF LineageOK
  <2>3. QED
    BY <1>1, <2>1, <2>2
<1>3. \A e : Formed(e) /\ e.reverses # 0 => e.releases = 0
  BY DEF Formed
<1>4. QED
  BY <1>1, <1>2, <1>3 DEF Fits, LineageOK

LEMMA ActsOnAppend ==
    ASSUME NEW E, Entries(E), NEW s \in Seq(E), NEW e \in E, LineageOK(s), Fits(s, e), NEW i
    PROVE  /\ \A j \in 1..Len(s) : ActsOn(Append(s, e), j, i) <=> ActsOn(s, j, i)
           /\ ActsOn(Append(s, e), Len(s) + 1, i) <=> ActsNew(s, e, i)
<1> DEFINE u == Append(s, e)
           n == Len(s)
<1>1. n \in Nat /\ (\A k \in 1..n : u[k] = s[k]) /\ u[n + 1] = e
  BY AppendElements
<1>2. \A j \in 1..n : s[j].reverses \in 0..n
  BY References
<1>3. e.reverses # 0 => e.reverses \in 1..n
  BY DEF Fits
<1> HIDE DEF u, n
<1>4. ASSUME NEW j \in 1..n PROVE ActsOn(u, j, i) <=> ActsOn(s, j, i)
  <2>1. s[j].reverses # 0 => u[s[j].reverses] = s[s[j].reverses]
    BY <1>1, <1>2
  <2>2. QED
    BY <1>1, <2>1 DEF ActsOn
<1>5. ActsOn(u, n + 1, i) <=> ActsNew(s, e, i)
  BY <1>1, <1>3 DEF ActsOn, ActsNew
<1>6. QED
  BY <1>4, <1>5 DEF u, n

LEMMA ActsAppend ==
    ASSUME NEW E, Entries(E), NEW s \in Seq(E), NEW e \in E, LineageOK(s), Fits(s, e), NEW i
    PROVE  Acts(Append(s, e), i) = Acts(s, i) + NewPart(s, e, i)
<1> DEFINE u == Append(s, e)
           n == Len(s)
           c == [j \in 1..n |-> IF ActsOn(s, j, i) THEN s[j].amount ELSE 0]
           d == [j \in 1..Len(u) |-> IF ActsOn(u, j, i) THEN u[j].amount ELSE 0]
<1>1. n \in Nat /\ Len(u) = n + 1 /\ (\A k \in 1..n : u[k] = s[k]) /\ u[n + 1] = e
  BY AppendElements
<1>2. /\ \A j \in 1..n : ActsOn(u, j, i) <=> ActsOn(s, j, i)
      /\ ActsOn(u, n + 1, i) <=> ActsNew(s, e, i)
  BY ActsOnAppend
<1> HIDE DEF u, n
<1>3. \A j \in 1..n : d[j] = c[j]
  BY <1>1, <1>2
<1>4. d[n + 1] = NewPart(s, e, i)
  BY <1>1, <1>2 DEF NewPart
<1>5. SumTo(d, n + 1) = SumTo(c, n) + d[n + 1]
  <2> HIDE DEF c, d
  <2>1. QED
    BY <1>1, <1>3, SumAppend
<1>6. QED
  BY <1>1, <1>4, <1>5 DEF Acts, u, n

\* The releases in force change by as much as what acts on the entry.
LEMMA LiveAppend ==
    ASSUME NEW E, Entries(E), NEW s \in Seq(E), NEW e \in E, LineageOK(s), Fits(s, e),
           NEW i \in Nat \ {0}
    PROVE  LiveSum(Append(s, e), i) = LiveSum(s, i) + NewPart(s, e, i)
<1> DEFINE u == Append(s, e)
           n == Len(s)
           c == [j \in 1..n |-> LivePart(s, j, i)]
           d == [j \in 1..Len(u) |-> LivePart(u, j, i)]
<1>1. n \in Nat /\ Len(u) = n + 1 /\ (\A k \in 1..n : u[k] = s[k]) /\ u[n + 1] = e
  BY AppendElements
<1>2. \A j : IsReversed(u, j) <=> IsReversed(s, j) \/ e.reverses = j
  BY ReversedAppend
<1>3. /\ \A j \in 1..n : s[j].amount \in Int /\ s[j].reverses \in 0..n
      /\ e.reverses # 0 => e.releases = 0
  BY References
<1>4. e.amount \in Int /\ e.reverses \in Nat
  BY DEF Entries
<1>5. e.reverses # 0 => /\ e.reverses \in 1..n /\ ~IsReversed(s, e.reverses)
                        /\ e.amount = -s[e.reverses].amount
  BY DEF Fits, ReversesRightly
<1>6. ~IsReversed(s, n + 1) /\ e.reverses # n + 1
  BY <1>1, <1>3, <1>5 DEF IsReversed
<1>7. LiveSum(u, i) = SumTo(d, n + 1) /\ LiveSum(s, i) = SumTo(c, n)
  BY <1>1 DEF LiveSum
<1> HIDE DEF u, n
<1>8. \A j \in 1..n : c[j] = LivePart(s, j, i) /\ d[j] = LivePart(u, j, i)
  BY <1>1
<1>9. d[n + 1] = IF e.releases = i THEN e.amount ELSE 0
  BY <1>1, <1>2, <1>6 DEF LivePart
<1>10. \A j \in 1..n : c[j] \in Int
  BY <1>3 DEF LivePart
<1>11. \A j \in 1..n : j # e.reverses => d[j] = c[j]
  BY <1>1, <1>2, <1>8 DEF LivePart
<1> HIDE DEF c, d
<1>12. CASE e.reverses = 0
  <2>1. \A j \in 1..n : d[j] = c[j]
    BY <1>11, <1>12
  <2>2. SumTo(d, n + 1) = SumTo(c, n) + d[n + 1]
    BY <1>1, <2>1, SumAppend
  <2>3. NewPart(s, e, i) = d[n + 1]
    BY <1>9, <1>12 DEF NewPart, ActsNew
  <2>4. QED
    BY <1>7, <2>2, <2>3 DEF u
<1>13. CASE e.reverses # 0
  <2>1. PICK t \in 1..n : t = e.reverses
    BY <1>5, <1>13
  <2>2. d[n + 1] = 0
    BY <1>3, <1>9, <1>13
  <2>3. NewPart(s, e, i) = IF s[t].releases = i THEN e.amount ELSE 0
    BY <1>3, <1>13, <2>1 DEF NewPart, ActsNew
  <2>4. d[t] = 0
    BY <1>2, <1>8, <2>1 DEF LivePart
  <2>5. c[t] = IF s[t].releases = i THEN s[t].amount ELSE 0
    BY <1>5, <1>8, <1>13, <2>1 DEF LivePart
  <2>6. d[t] = c[t] + NewPart(s, e, i) /\ NewPart(s, e, i) \in Int
    BY <1>3, <1>4, <1>5, <1>13, <2>1, <2>3, <2>4, <2>5
  <2>7. \A j \in 1..n : j # t => d[j] = c[j]
    BY <1>11, <2>1
  <2>8. SumTo(d, n + 1) = SumTo(c, n) + NewPart(s, e, i) + d[n + 1]
    <3>1. PICK x \in Int : x = NewPart(s, e, i)
      BY <2>6
    <3>2. d[t] = c[t] + x
      BY <2>6, <3>1
    <3>3. SumTo(d, n + 1) = SumTo(c, n) + x + d[n + 1]
      BY <1>1, <1>10, <2>7, <3>2, SumPointAppend
    <3>4. QED
      BY <3>1, <3>3
  <2>9. SumTo(c, n) \in Int
    BY <1>1, <1>10, SumInt
  <2>10. QED
    BY <1>7, <2>2, <2>6, <2>8, <2>9 DEF u
<1>14. QED
  BY <1>12, <1>13

-----------------------------------------------------------------------------
(* Entries that were each added rightly stay so when one that fits is added. *)

LEMMA LineageAppend ==
    ASSUME NEW E, Entries(E), NEW s \in Seq(E), NEW e \in E, LineageOK(s), Fits(s, e)
    PROVE  LineageOK(Append(s, e))
<1> DEFINE u == Append(s, e)
           n == Len(s)
<1>1. n \in Nat /\ Len(u) = n + 1 /\ (\A k \in 1..n : u[k] = s[k]) /\ u[n + 1] = e
  BY AppendElements
<1>2. \A j \in 1..n : s[j].releases \in 0..n /\ s[j].reverses \in 0..n
  BY References
<1> HIDE DEF u, n
<1>3. ASSUME NEW j \in 1..n
      PROVE  /\ Formed(u[j])
             /\ u[j].releases # 0 => u[j].releases < j /\ ReleasesRightly(u[j], u[u[j].releases])
             /\ u[j].reverses # 0 => u[j].reverses < j /\ ReversesRightly(u[j], u[u[j].reverses])
  <2>1. /\ Formed(s[j])
        /\ s[j].releases # 0 => s[j].releases < j /\ ReleasesRightly(s[j], s[s[j].releases])
        /\ s[j].reverses # 0 => s[j].reverses < j /\ ReversesRightly(s[j], s[s[j].reverses])
    BY DEF LineageOK, n
  <2>2. /\ s[j].releases # 0 => u[s[j].releases] = s[s[j].releases]
        /\ s[j].reverses # 0 => u[s[j].reverses] = s[s[j].reverses]
    BY <1>1, <1>2
  <2>3. u[j] = s[j]
    BY <1>1
  <2>4. QED
    BY <2>1, <2>2, <2>3
<1>4. /\ Formed(e)
      /\ e.releases # 0 => e.releases \in 1..n /\ ReleasesRightly(e, s[e.releases])
      /\ e.reverses # 0 => e.reverses \in 1..n /\ ReversesRightly(e, s[e.reverses])
  BY DEF Fits, n
<1>5. /\ e.releases # 0 => e.releases < n + 1 /\ ReleasesRightly(e, u[e.releases])
      /\ e.reverses # 0 => e.reverses < n + 1 /\ ReversesRightly(e, u[e.reverses])
  BY <1>1, <1>4
<1>6. \A j \in 1..Len(u) : j \in 1..n \/ j = n + 1
  BY <1>1
<1>7. QED
  BY <1>1, <1>3, <1>4, <1>5, <1>6 DEF LineageOK, u

LEMMA ReversedOnceAppend ==
    ASSUME NEW E, Entries(E), NEW s \in Seq(E), NEW e \in E, ReversedOnce(s), Fits(s, e)
    PROVE  ReversedOnce(Append(s, e))
<1> DEFINE u == Append(s, e)
           n == Len(s)
<1>1. n \in Nat /\ Len(u) = n + 1 /\ (\A k \in 1..n : u[k] = s[k]) /\ u[n + 1] = e
  BY AppendElements
<1>2. e.reverses # 0 => \A j \in 1..n : s[j].reverses # e.reverses
  BY DEF Fits, IsReversed
<1> HIDE DEF u
<1>3. \A j \in 1..Len(u) : j \in 1..n \/ j = n + 1
  BY <1>1
<1>4. QED
  BY <1>1, <1>2, <1>3 DEF ReversedOnce, u

\* Nothing refers to the place after the last entry.
LEMMA NothingActsAfter ==
    ASSUME NEW E, Entries(E), NEW s \in Seq(E), LineageOK(s)
    PROVE  /\ Acts(s, Len(s) + 1) = 0 /\ LiveSum(s, Len(s) + 1) = 0
           /\ ~IsReversed(s, Len(s) + 1)
           /\ \A j \in 1..Len(s) : s[j].releases # Len(s) + 1
<1> DEFINE n == Len(s)
           c == [j \in 1..n |-> IF ActsOn(s, j, n + 1) THEN s[j].amount ELSE 0]
           d == [j \in 1..n |-> LivePart(s, j, n + 1)]
<1>1. n \in Nat /\ \A j \in 1..n : s[j].releases \in 0..n /\ s[j].reverses \in 0..n
  BY References
<1>2. \A j \in 1..n : s[j].releases # n + 1 /\ s[j].reverses # n + 1
  BY <1>1
<1>3. \A j \in 1..n : s[j].reverses # 0 => s[s[j].reverses].releases # n + 1
  BY <1>1, <1>2
<1>4. \A j \in 1..n : c[j] = 0 /\ d[j] = 0
  BY <1>2, <1>3 DEF ActsOn, LivePart
<1>5. SumTo(c, n) = 0 /\ SumTo(d, n) = 0
  <2> HIDE DEF c, d
  <2>1. QED
    BY <1>1, <1>4, SumNothing
<1>6. QED
  BY <1>2, <1>5 DEF Acts, LiveSum, IsReversed

LEMMA SumsInt ==
    ASSUME NEW E, Entries(E), NEW s \in Seq(E), NEW i
    PROVE  Acts(s, i) \in Int /\ LiveSum(s, i) \in Int
<1> DEFINE n == Len(s)
           c == [j \in 1..n |-> IF ActsOn(s, j, i) THEN s[j].amount ELSE 0]
           d == [j \in 1..n |-> LivePart(s, j, i)]
<1>1. n \in Nat /\ \A j \in 1..n : s[j].amount \in Int
  BY DEF Entries
<1>2. \A j \in 1..n : c[j] \in Int /\ d[j] \in Int
  BY <1>1 DEF LivePart
<1>3. SumTo(c, n) \in Int /\ SumTo(d, n) \in Int
  <2> HIDE DEF c, d
  <2>1. QED
    BY <1>1, <1>2, SumInt
<1>4. QED
  BY <1>3 DEF Acts, LiveSum

\* The releases in force lower a hold by at least each of them.
LEMMA LiveBelowEach ==
    ASSUME NEW E, Entries(E), NEW s \in Seq(E), LineageOK(s), NEW i \in 1..Len(s)
    PROVE  /\ LiveSum(s, i) <= 0
           /\ LiveSum(s, i) >= 0 => Unreleased(s, i)
<1> DEFINE n == Len(s)
           d == [j \in 1..n |-> LivePart(s, j, i)]
<1>1. n \in Nat /\ \A j \in 1..n : s[j].amount \in Int
  BY DEF Entries
<1>2. \A j \in 1..n : s[j].releases = i => s[j].amount < 0
  BY DEF LineageOK, ReleasesRightly
<1>3. \A j \in 1..n : d[j] \in Int /\ d[j] <= 0
  BY <1>1, <1>2 DEF LivePart
<1>4. \A t \in 1..n : SumTo(d, n) \in Int /\ SumTo(d, n) <= d[t]
  <2> HIDE DEF d
  <2>1. QED
    BY <1>1, <1>3, SumBelowEach
<1>5. LiveSum(s, i) = SumTo(d, n)
  BY DEF LiveSum
<1>6. LiveSum(s, i) <= 0
  <2>1. SumTo(d, n) <= d[i] /\ d[i] <= 0 /\ d[i] \in Int /\ SumTo(d, n) \in Int
    BY <1>3, <1>4
  <2> HIDE DEF d
  <2>2. QED
    BY <1>5, <2>1
<1>7. ASSUME LiveSum(s, i) >= 0, NEW j \in 1..n, s[j].releases = i, ~IsReversed(s, j)
      PROVE  FALSE
  <2>1. d[j] = s[j].amount
    BY <1>7 DEF LivePart
  <2>2. d[j] < 0 /\ SumTo(d, n) <= d[j] /\ SumTo(d, n) \in Int /\ d[j] \in Int
    BY <1>2, <1>3, <1>4, <1>7, <2>1
  <2> HIDE DEF d
  <2>3. QED
    BY <1>5, <1>7, <2>2
<1>8. QED
  BY <1>6, <1>7 DEF Unreleased

LEMMA HoldsAppend ==
    ASSUME NEW E, Entries(E), NEW s \in Seq(E), NEW e \in E, LineageOK(s), HoldsOK(s), Fits(s, e)
    PROVE  HoldsOK(Append(s, e))
<1> DEFINE u == Append(s, e)
           n == Len(s)
<1>1. n \in Nat /\ Len(u) = n + 1 /\ (\A k \in 1..n : u[k] = s[k]) /\ u[n + 1] = e
  BY AppendElements
<1>2. \A j : IsReversed(u, j) <=> IsReversed(s, j) \/ e.reverses = j
  BY ReversedAppend
<1>3. \A i : Acts(u, i) = Acts(s, i) + NewPart(s, e, i)
  BY ActsAppend
<1>4. \A i \in Nat \ {0} : LiveSum(u, i) = LiveSum(s, i) + NewPart(s, e, i)
  BY LiveAppend
<1>5. /\ Acts(s, n + 1) = 0 /\ LiveSum(s, n + 1) = 0 /\ ~IsReversed(s, n + 1)
      /\ \A j \in 1..n : s[j].releases # n + 1
  BY NothingActsAfter
<1>6. e.amount \in Int /\ \A j \in 1..n : s[j].amount \in Int
  BY DEF Entries
<1>7. \A i : Acts(s, i) \in Int /\ LiveSum(s, i) \in Int
  BY SumsInt
<1>8. /\ e.reverses # 0 => e.releases = 0
      /\ e.reverses # 0 => e.reverses \in 1..n
      /\ e.releases # 0 => e.releases \in 1..n
  BY References DEF Fits
<1> HIDE DEF u
<1>9. ASSUME NEW i \in 1..n, IsReversed(u, i) PROVE Unreleased(u, i)
  <2>1. Unreleased(s, i)
    BY <1>2, <1>9 DEF Fits, HoldsOK
  <2>2. e.releases # i
    <3>1. CASE IsReversed(s, i)
      BY <3>1 DEF Fits
    <3>2. CASE e.reverses = i
      BY <1>8, <3>2
    <3>3. QED
      BY <1>2, <1>9, <3>1, <3>2
  <2>3. \A j \in 1..Len(u) : \/ j \in 1..n /\ u[j] = s[j]
                             \/ u[j] = e
    BY <1>1
  <2>4. QED
    BY <1>2, <2>1, <2>2, <2>3 DEF Unreleased
<1>10. ASSUME NEW i \in 1..n, s[i].type \in HoldTypes PROVE s[i].amount + LiveSum(u, i) >= 0
  <2>1. s[i].amount + LiveSum(s, i) >= 0
    BY <1>10 DEF HoldsOK
  <2>2. LiveSum(u, i) = LiveSum(s, i) + NewPart(s, e, i)
    BY <1>4
  <2>3. CASE e.releases = i
    <3>1. s[i].amount + LiveSum(s, i) + e.amount >= 0
      BY <2>3 DEF Fits
    <3>2. NewPart(s, e, i) = e.amount
      BY <2>3 DEF NewPart, ActsNew
    <3>3. QED
      BY <1>6, <1>7, <2>2, <3>1, <3>2
  <2>4. CASE e.releases # i /\ e.reverses # 0 /\ s[e.reverses].releases = i
    <3>1. s[e.reverses].amount < 0
      BY <1>8, <2>4 DEF LineageOK, ReleasesRightly
    <3>2. e.amount = -s[e.reverses].amount
      BY <2>4 DEF Fits, ReversesRightly
    <3>3. NewPart(s, e, i) = e.amount
      BY <2>4 DEF NewPart, ActsNew
    <3>4. s[e.reverses].amount \in Int
      BY <1>6, <1>8, <2>4
    <3>5. e.amount > 0
      BY <1>6, <3>1, <3>2, <3>4
    <3>6. s[i].amount \in Int /\ LiveSum(s, i) \in Int /\ LiveSum(u, i) = LiveSum(s, i) + e.amount
      BY <1>6, <1>7, <2>2, <3>3
    <3>7. QED
      BY <1>6, <2>1, <3>5, <3>6
  <2>5. CASE ~ActsNew(s, e, i)
    BY <1>6, <1>7, <2>1, <2>2, <2>5 DEF NewPart
  <2>6. QED
    BY <2>3, <2>4, <2>5 DEF ActsNew
<1>11. ASSUME NEW i \in 1..n PROVE Acts(u, i) = LiveSum(u, i)
  BY <1>3, <1>4 DEF HoldsOK
<1>12. /\ ~IsReversed(u, n + 1) /\ LiveSum(u, n + 1) = 0 /\ Acts(u, n + 1) = 0
  <2>1. ~ActsNew(s, e, n + 1)
    BY <1>1, <1>5, <1>8 DEF ActsNew
  <2>2. QED
    BY <1>1, <1>2, <1>3, <1>4, <1>5, <1>8, <2>1 DEF NewPart
<1>13. e.type \in HoldTypes => e.amount + LiveSum(u, n + 1) >= 0
  BY <1>6, <1>12 DEF Fits, Formed
<1>14. ASSUME NEW i \in 1..Len(u)
       PROVE  /\ IsReversed(u, i) => Unreleased(u, i)
              /\ Acts(u, i) = LiveSum(u, i)
              /\ u[i].type \in HoldTypes => u[i].amount + LiveSum(u, i) >= 0
  <2>1. CASE i \in 1..n
    BY <1>1, <1>9, <1>10, <1>11, <2>1
  <2>2. CASE i = n + 1
    BY <1>1, <1>12, <1>13, <2>2
  <2>3. QED
    BY <1>1, <2>1, <2>2
<1>15. QED
  BY <1>14 DEF HoldsOK, u

LEMMA RemainingIs ==
    ASSUME NEW s, NEW i
    PROVE  Remaining(s, i) = IF IsReversed(s, i) THEN 0 ELSE s[i].amount + Acts(s, i)
  BY DEF Remaining, Acts

LEMMA HoldBuckets ==
    /\ \A t \in HoldTypes : BucketForType[t] # "allocated"
    /\ \A t, v \in HoldTypes : BucketForType[t] = BucketForType[v] => t = v
  BY DEF HoldTypes, BucketForType

LEMMA HeldInt ==
    ASSUME NEW E, Entries(E), NEW s \in Seq(E)
    PROVE  /\ \A i \in 1..Len(s) : Remaining(s, i) \in Int
           /\ \A p, type : HeldSum(s, p, type) \in Int
<1>1. ASSUME NEW i \in 1..Len(s) PROVE Remaining(s, i) \in Int
  <2>1. s[i].amount \in Int /\ Acts(s, i) \in Int
    BY SumsInt DEF Entries
  <2>2. QED
    BY <2>1, RemainingIs
<1>2. ASSUME NEW p, NEW type PROVE HeldSum(s, p, type) \in Int
  <2> DEFINE c == [i \in 1..Len(s) |-> HeldPart(s, i, p, type)]
  <2>1. Len(s) \in Nat /\ \A i \in 1..Len(s) : c[i] \in Int
    BY <1>1 DEF HeldPart
  <2>2. SumTo(c, Len(s)) \in Int
    <3> HIDE DEF c
    <3>1. QED
      BY <2>1, SumInt
  <2>3. QED
    BY <2>2 DEF HeldSum
<1>3. QED
  BY <1>1, <1>2

\* An entry that changes no hold adds what remains of itself.
LEMMA HeldStays ==
    ASSUME NEW E, Entries(E), NEW s \in Seq(E), NEW e \in E, NEW p, NEW type \in HoldTypes,
           \A i \in 1..Len(s) : s[i].type \in HoldTypes =>
                                    Remaining(Append(s, e), i) = Remaining(s, i)
    PROVE  HeldSum(Append(s, e), p, type) =
             HeldSum(s, p, type) + HeldPart(Append(s, e), Len(s) + 1, p, type)
<1> DEFINE u == Append(s, e)
           n == Len(s)
           c == [i \in 1..n |-> HeldPart(s, i, p, type)]
           d == [i \in 1..Len(u) |-> HeldPart(u, i, p, type)]
<1>1. n \in Nat /\ Len(u) = n + 1 /\ (\A k \in 1..n : u[k] = s[k])
  BY AppendElements
<1>2. HeldSum(u, p, type) = SumTo(d, n + 1) /\ HeldSum(s, p, type) = SumTo(c, n)
  BY <1>1 DEF HeldSum
<1> HIDE DEF u
<1>3. \A i \in 1..n : HeldPart(u, i, p, type) = HeldPart(s, i, p, type)
  BY <1>1 DEF HeldPart, u
<1>4. \A i \in 1..n : d[i] = c[i]
  BY <1>1, <1>3
<1>5. d[n + 1] = HeldPart(u, n + 1, p, type)
  BY <1>1
<1>6. SumTo(d, n + 1) = SumTo(c, n) + d[n + 1]
  <2> HIDE DEF c, d
  <2>1. QED
    BY <1>1, <1>4, SumAppend
<1>7. QED
  BY <1>2, <1>5, <1>6 DEF u

\* An entry that changes hold h, and holds nothing itself, changes h's bucket.
LEMMA HeldMoves ==
    ASSUME NEW E, Entries(E), NEW s \in Seq(E), NEW e \in E, NEW p, NEW type \in HoldTypes,
           NEW h \in 1..Len(s), s[h].type \in HoldTypes, s[h].bucket = BucketForType[s[h].type],
           e.type \notin HoldTypes, e.project = s[h].project, e.bucket = s[h].bucket,
           Remaining(Append(s, e), h) = Remaining(s, h) + e.amount,
           \A i \in 1..Len(s) : i # h /\ s[i].type \in HoldTypes =>
                                    Remaining(Append(s, e), i) = Remaining(s, i)
    PROVE  HeldSum(Append(s, e), p, type) =
             HeldSum(s, p, type) + Contribution(e, p, BucketForType[type])
<1> DEFINE u == Append(s, e)
           n == Len(s)
           c == [i \in 1..n |-> HeldPart(s, i, p, type)]
           d == [i \in 1..Len(u) |-> HeldPart(u, i, p, type)]
<1>1. n \in Nat /\ Len(u) = n + 1 /\ (\A k \in 1..n : u[k] = s[k]) /\ u[n + 1] = e
  BY AppendElements
<1>2. HeldSum(u, p, type) = SumTo(d, n + 1) /\ HeldSum(s, p, type) = SumTo(c, n)
  BY <1>1 DEF HeldSum
<1>3. e.amount \in Int /\ \A i \in 1..n : Remaining(s, i) \in Int
  BY HeldInt DEF Entries
<1>4. PICK x \in Int : x = Contribution(e, p, BucketForType[type])
  <2>1. Contribution(e, p, BucketForType[type]) \in {e.amount, 0}
    BY Zenon DEF Contribution
  <2>2. {e.amount, 0} \subseteq Int
    BY <1>3
  <2>3. QED
    BY <2>1, <2>2, Zenon
<1> HIDE DEF u
<1>5. \A i \in 1..n : i # h => HeldPart(u, i, p, type) = HeldPart(s, i, p, type)
  BY <1>1 DEF HeldPart, u
<1>6. HeldPart(u, h, p, type) = HeldPart(s, h, p, type) + x
  <2>1. u[h] = s[h] /\ Remaining(u, h) = Remaining(s, h) + e.amount /\ Remaining(s, h) \in Int
    BY <1>1, <1>3 DEF u
  <2>2. s[h].bucket = BucketForType[type] <=> s[h].type = type
    BY HoldBuckets
  <2>3. CASE s[h].project = p /\ s[h].type = type
    BY <1>4, <2>1, <2>2, <2>3 DEF HeldPart, Contribution
  <2>4. CASE ~(s[h].project = p /\ s[h].type = type)
    BY <1>4, <2>1, <2>2, <2>4 DEF HeldPart, Contribution
  <2>5. QED
    BY <2>3, <2>4
<1>7. d[n + 1] = 0
  BY <1>1 DEF HeldPart
<1>8. \A i \in 1..n : c[i] = HeldPart(s, i, p, type) /\ d[i] = HeldPart(u, i, p, type)
  BY <1>1
<1>9. \A i \in 1..n : c[i] \in Int
  BY <1>3 DEF HeldPart
<1> HIDE DEF c, d, n
<1>10. SumTo(d, n + 1) = SumTo(c, n) + x + d[n + 1]
  <2>1. h \in 1..n /\ d[h] = c[h] + x /\ \A i \in 1..n : i # h => d[i] = c[i]
    BY <1>5, <1>6, <1>8 DEF n
  <2>2. QED
    BY <1>1, <1>9, <2>1, SumPointAppend
<1>11. SumTo(c, n) \in Int
  BY <1>1, <1>9, SumInt
<1>12. QED
  BY <1>2, <1>4, <1>7, <1>10, <1>11 DEF u

LEMMA BucketsAppend ==
    ASSUME NEW E, Entries(E), NEW s \in Seq(E), NEW e \in E,
           LineageOK(s), HoldsOK(s), BucketsOK(s), Fits(s, e)
    PROVE  BucketsOK(Append(s, e))
<1> DEFINE u == Append(s, e)
           n == Len(s)
<1> SUFFICES ASSUME NEW p, NEW type \in HoldTypes
             PROVE  HeldSum(u, p, type) = LedgerSum(u, p, BucketForType[type])
  BY DEF BucketsOK
<1> DEFINE b == BucketForType[type]
<1>1. n \in Nat /\ Len(u) = n + 1 /\ (\A k \in 1..n : u[k] = s[k]) /\ u[n + 1] = e
  BY AppendElements
<1>2. LedgerSum(u, p, b) = LedgerSum(s, p, b) + Contribution(e, p, b)
  BY LedgerSumAppend DEF Entries
<1>3. HeldSum(s, p, type) = LedgerSum(s, p, b)
  BY DEF BucketsOK
<1>4. SUFFICES HeldSum(u, p, type) = HeldSum(s, p, type) + Contribution(e, p, b)
  BY <1>2, <1>3
<1>5. \A j : IsReversed(u, j) <=> IsReversed(s, j) \/ e.reverses = j
  BY ReversedAppend
<1>6. \A i : Acts(u, i) = Acts(s, i) + NewPart(s, e, i)
  BY ActsAppend
<1>7. /\ e.amount \in Int /\ \A i \in 1..n : s[i].amount \in Int
      /\ \A i : Acts(s, i) \in Int
      /\ \A i \in 1..n : Remaining(s, i) \in Int
  BY SumsInt, HeldInt DEF Entries
<1>8. /\ \A i : Remaining(s, i) = IF IsReversed(s, i) THEN 0 ELSE s[i].amount + Acts(s, i)
      /\ \A i : Remaining(u, i) = IF IsReversed(u, i) THEN 0 ELSE u[i].amount + Acts(u, i)
  BY RemainingIs
\* Entries that e neither acts on nor reverses keep what remains of them.
<1>9. ASSUME NEW i \in 1..n, ~ActsNew(s, e, i), e.reverses # i PROVE Remaining(u, i) = Remaining(s, i)
  <2>1. NewPart(s, e, i) = 0 /\ Acts(u, i) = Acts(s, i)
    BY <1>6, <1>7, <1>9 DEF NewPart
  <2>2. u[i] = s[i]
    BY <1>1
  <2>3. QED
    BY <1>5, <1>8, <1>9, <2>1, <2>2
\* A hold in force that e acts on changes by e's amount.
<1>10. ASSUME NEW i \in 1..n, ActsNew(s, e, i), e.reverses # i, ~IsReversed(s, i)
       PROVE  Remaining(u, i) = Remaining(s, i) + e.amount
  <2>1. Acts(u, i) = Acts(s, i) + e.amount
    BY <1>6, <1>10 DEF NewPart
  <2>2. u[i] = s[i]
    BY <1>1
  <2>3. QED
    <3>1. ~IsReversed(u, i) /\ Remaining(s, i) = s[i].amount + Acts(s, i)
      BY <1>5, <1>8, <1>10
    <3>2. Remaining(u, i) = s[i].amount + Acts(u, i)
      BY <1>8, <2>2, <3>1
    <3>3. QED
      BY <1>7, <2>1, <3>1, <3>2
<1>11. /\ e.reverses # 0 => e.releases = 0
       /\ \A j \in 1..n : s[j].releases \in 0..n /\ s[j].releases # j
  BY References
<1>12. \A i \in 1..n : s[i].type \in HoldTypes =>
           s[i].bucket = BucketForType[s[i].type] /\ s[i].releases = 0
  BY DEF LineageOK, Formed
<1>13. \A t \in {"release", "reversal", "reservation", "commitment"} :
           t \in HoldTypes <=> t \in {"reservation", "commitment"}
  BY DEF HoldTypes
<1> HIDE DEF u, n
<1>14. CASE e.releases = 0 /\ e.reverses = 0
  <2>1. \A i \in 1..n : Remaining(u, i) = Remaining(s, i)
    BY <1>9, <1>14 DEF ActsNew
  <2>2. HeldSum(u, p, type) = HeldSum(s, p, type) + HeldPart(u, n + 1, p, type)
    BY <2>1, HeldStays DEF u, n
  <2>3. Formed(e)
    BY DEF Fits
  <2>4. e.bucket = b <=> e.type = type
    BY <1>14, <2>3, HoldBuckets DEF Formed
  <2>5. Remaining(u, n + 1) = e.amount
    <3>1. Acts(s, n + 1) = 0 /\ ~IsReversed(s, n + 1)
      BY NothingActsAfter DEF n
    <3>2. NewPart(s, e, n + 1) = 0
      BY <1>1, <1>14 DEF NewPart, ActsNew
    <3>3. Acts(u, n + 1) = 0 /\ ~IsReversed(u, n + 1)
      BY <1>1, <1>5, <1>6, <1>14, <3>1, <3>2
    <3>4. QED
      BY <1>1, <1>7, <1>8, <3>3
  <2>6. HeldPart(u, n + 1, p, type) = Contribution(e, p, b)
    BY <1>1, <2>4, <2>5 DEF HeldPart, Contribution
  <2>7. QED
    BY <2>2, <2>6
<1>15. CASE e.releases # 0
  <2>1. PICK h \in 1..n : h = e.releases
    BY <1>15 DEF Fits, n
  <2>2. /\ s[h].type \in {"reservation", "commitment"} /\ ~IsReversed(s, h)
        /\ e.project = s[h].project /\ e.bucket = s[h].bucket /\ e.type = "release"
        /\ e.reverses = 0
    BY <1>11, <1>15, <2>1 DEF Fits, ReleasesRightly, Formed
  <2>3. Remaining(u, h) = Remaining(s, h) + e.amount
    BY <1>10, <2>1, <2>2 DEF ActsNew
  <2>4. \A i \in 1..n : i # h => Remaining(u, i) = Remaining(s, i)
    BY <1>9, <2>1, <2>2 DEF ActsNew
  <2>5. s[h].type \in HoldTypes /\ e.type \notin HoldTypes
    BY <1>13, <2>2
  <2>6. s[h].bucket = BucketForType[s[h].type]
    BY <1>12, <2>5
  <2>7. QED
    BY <2>2, <2>3, <2>4, <2>5, <2>6, HeldMoves DEF u, n
<1>16. CASE e.reverses # 0
  <2>1. PICK t \in 1..n : t = e.reverses
    BY <1>16 DEF Fits, n
  <2>2. /\ s[t].type # "reversal" /\ ~IsReversed(s, t) /\ Unreleased(s, t)
        /\ e.project = s[t].project /\ e.bucket = s[t].bucket /\ e.amount = -s[t].amount
        /\ e.type = "reversal" /\ e.releases = 0
    BY <1>11, <1>16, <2>1 DEF Fits, ReversesRightly, Formed
  <2>3. e.type \notin HoldTypes
    BY <1>13, <2>2
  <2>4. \A i \in 1..n : ActsNew(s, e, i) <=> s[t].releases = i
    BY <1>1, <1>16, <2>1, <2>2 DEF ActsNew
  <2>5. CASE s[t].type \in HoldTypes
    <3>1. s[t].releases = 0 /\ s[t].bucket = BucketForType[s[t].type]
      BY <1>12, <2>5
    <3>2. Acts(s, t) = 0
      <4>1. \A j \in 1..n : LivePart(s, j, t) = 0
        BY <2>2 DEF LivePart, Unreleased, n
      <4> DEFINE d == [j \in 1..n |-> LivePart(s, j, t)]
      <4>2. SumTo(d, n) = 0
        <5>1. \A j \in 1..n : d[j] = 0
          BY <4>1
        <5> HIDE DEF d
        <5>2. QED
          BY <1>1, <5>1, SumNothing
      <4>3. Acts(s, t) = LiveSum(s, t)
        BY <2>1 DEF HoldsOK, n
      <4>4. QED
        BY <4>2, <4>3 DEF LiveSum, n
    <3>3. Remaining(s, t) = s[t].amount
      BY <1>7, <1>8, <2>1, <2>2, <3>2
    <3>4. Remaining(u, t) = 0
      BY <1>5, <1>8, <2>1
    <3>5. Remaining(u, t) = Remaining(s, t) + e.amount
      <4>1. s[t].amount \in Int
        BY <1>7, <2>1
      <4>2. QED
        BY <2>2, <3>3, <3>4, <4>1
    <3>6. \A i \in 1..n : i # t => Remaining(u, i) = Remaining(s, i)
      BY <1>1, <1>9, <2>1, <2>4, <3>1
    <3>7. QED
      BY <2>2, <2>3, <2>5, <3>1, <3>5, <3>6, HeldMoves DEF u, n
  <2>6. CASE s[t].releases # 0
    <3>1. PICK h \in 1..n : h = s[t].releases
      BY <1>11, <2>1, <2>6
    <3>2. /\ s[h].type \in {"reservation", "commitment"}
          /\ s[t].project = s[h].project /\ s[t].bucket = s[h].bucket
      BY <2>1, <2>6, <3>1 DEF LineageOK, ReleasesRightly, n
    <3>3. ~IsReversed(s, h)
      BY <2>1, <2>2, <3>1 DEF HoldsOK, Unreleased, n
    <3>4. h # t
      BY <1>11, <2>1, <3>1
    <3>5. Remaining(u, h) = Remaining(s, h) + e.amount
      BY <1>10, <2>1, <2>4, <3>1, <3>3, <3>4
    <3>6. s[h].type \in HoldTypes /\ s[h].bucket = BucketForType[s[h].type]
      BY <1>12, <1>13, <3>2
    <3>7. ASSUME NEW i \in 1..n, i # h, s[i].type \in HoldTypes
          PROVE  Remaining(u, i) = Remaining(s, i)
      <4>1. i # t
        BY <1>12, <2>6, <3>7
      <4>2. QED
        BY <1>9, <2>1, <2>4, <3>1, <3>7, <4>1
    <3>8. e.project = s[h].project /\ e.bucket = s[h].bucket
      BY <2>2, <3>2
    <3>9. QED
      BY <2>3, <3>5, <3>6, <3>7, <3>8, HeldMoves DEF u, n
  <2>7. CASE s[t].type \notin HoldTypes /\ s[t].releases = 0
    <3>1. s[t].bucket = "allocated"
      BY <2>1, <2>2, <2>7 DEF LineageOK, Formed, n
    <3>2. Contribution(e, p, b) = 0
      BY <2>2, <3>1, HoldBuckets DEF Contribution
    <3>3. \A i \in 1..n : s[i].type \in HoldTypes => Remaining(u, i) = Remaining(s, i)
      BY <1>1, <1>9, <2>1, <2>4, <2>7
    <3>4. HeldSum(u, p, type) = HeldSum(s, p, type) + HeldPart(u, n + 1, p, type)
      BY <3>3, HeldStays DEF u, n
    <3>5. HeldPart(u, n + 1, p, type) = 0
      BY <1>1, <2>3 DEF HeldPart
    <3>6. QED
      BY <3>2, <3>4, <3>5
  <2>8. QED
    BY <2>5, <2>6, <2>7
<1>17. QED
  BY <1>14, <1>15, <1>16

LEMMA BookEmpty == BookOK(<<>>)
<1>1. LineageOK(<<>>) /\ ReversedOnce(<<>>) /\ HoldsOK(<<>>)
  BY DEF LineageOK, ReversedOnce, HoldsOK
<1>2. ASSUME NEW p, NEW type PROVE HeldSum(<<>>, p, type) = LedgerSum(<<>>, p, BucketForType[type])
  BY SumZero DEF HeldSum, LedgerSum
<1>3. QED
  BY <1>1, <1>2 DEF BookOK, BucketsOK

LEMMA BookAppend ==
    ASSUME NEW E, Entries(E), NEW s \in Seq(E), NEW e \in E, BookOK(s), Fits(s, e)
    PROVE  BookOK(Append(s, e))
  BY LineageAppend, ReversedOnceAppend, HoldsAppend, BucketsAppend DEF BookOK

\* Releases and reversals act on another entry; what does not fits anywhere.
Acting(e) == e.releases # 0 \/ e.reverses # 0

LEMMA PlainFits ==
    ASSUME NEW s, NEW t, NEW e, Fits(s, e), ~Acting(e)
    PROVE  Fits(t, e)
  BY DEF Fits, Acting

\* The entries of a transaction fit one after the other: the first fits, and only
\* the first acts on another entry.
RowsFit(s, t) ==
    \A i \in 1..Len(t) : Fits(s, t[i]) /\ (Acting(t[i]) => i = 1)

LEMMA BookConcat ==
    ASSUME NEW E, Entries(E), NEW s \in Seq(E), NEW t \in Seq(E), BookOK(s), RowsFit(s, t)
    PROVE  BookOK(s \o t)
<1> DEFINE S == {k \in Nat : k <= Len(t) => BookOK(s \o SubSeq(t, 1, k))}
<1>1. 0 \in S
  <2>1. SubSeq(t, 1, 0) = <<>>
    OBVIOUS
  <2>2. s \o <<>> = s
    OBVIOUS
  <2>3. QED
    BY <2>1, <2>2
<1>2. ASSUME NEW k \in Nat, k \in S PROVE k + 1 \in S
  <2>1. SUFFICES ASSUME k + 1 <= Len(t) PROVE BookOK(s \o SubSeq(t, 1, k + 1))
    OBVIOUS
  <2> DEFINE r == s \o SubSeq(t, 1, k)
  <2>2. BookOK(r)
    BY <1>2, <2>1
  <2>3. k + 1 \in 1..Len(t) /\ t[k + 1] \in E
    BY <2>1
  <2>4. SubSeq(t, 1, k) \in Seq(E) /\ r \in Seq(E)
    BY <2>1
  <2>5. SubSeq(t, 1, k + 1) = Append(SubSeq(t, 1, k), t[k + 1])
    BY <2>1
  <2>6. s \o SubSeq(t, 1, k + 1) = Append(r, t[k + 1])
    BY <2>3, <2>4, <2>5
  <2>7. Fits(r, t[k + 1])
    <3>1. Fits(s, t[k + 1]) /\ (Acting(t[k + 1]) => k + 1 = 1)
      BY <2>3 DEF RowsFit
    <3>2. CASE Acting(t[k + 1])
      <4>1. k = 0
        BY <3>1, <3>2
      <4>2. SubSeq(t, 1, 0) = <<>> /\ s \o <<>> = s
        OBVIOUS
      <4>3. r = s
        BY <4>1, <4>2
      <4>4. QED
        BY <3>1, <4>3
    <3>3. CASE ~Acting(t[k + 1])
      <4> HIDE DEF r
      <4>1. QED
        BY <3>1, <3>3, PlainFits
    <3>4. QED
      BY <3>2, <3>3
  <2>8. BookOK(Append(r, t[k + 1]))
    <3> HIDE DEF r
    <3>1. QED
      BY <2>2, <2>3, <2>4, <2>7, BookAppend
  <2>9. QED
    BY <2>6, <2>8
<1>3. Len(t) \in S
  <2>1. Len(t) \in Nat
    OBVIOUS
  <2>2. QED
    BY <1>1, <1>2, <2>1, SetInduction
<1>4. Len(t) <= Len(t) => BookOK(s \o SubSeq(t, 1, Len(t)))
  BY <1>3
<1>5. SubSeq(t, 1, Len(t)) = t /\ Len(t) <= Len(t)
  OBVIOUS
<1>6. QED
  BY <1>4, <1>5

\* What fits still fits after entries of other projects are added.
LEMMA FitsForeign ==
    ASSUME NEW E, Entries(E), NEW s \in Seq(E), NEW t \in Seq(E), NEW e \in E,
           LineageOK(s), LineageOK(s \o t), Fits(s, e),
           \A i \in 1..Len(t) : t[i].project # e.project
    PROVE  Fits(s \o t, e)
<1> DEFINE u == s \o t
           n == Len(s)
           m == Len(t)
<1>1. /\ u \in Seq(E) /\ n \in Nat /\ m \in Nat /\ Len(u) = n + m
      /\ \A i \in 1..n : u[i] = s[i]
      /\ \A i \in 1..m : u[n + i] = t[i]
      /\ \A i \in 1..Len(u) : i \in 1..n \/ (i - n \in 1..m /\ u[i] = t[i - n])
  BY ConcatElements
<1>2. /\ \A j \in 1..Len(u) : u[j].releases # 0 => ReleasesRightly(u[j], u[u[j].releases])
      /\ \A j \in 1..Len(u) : u[j].reverses # 0 => ReversesRightly(u[j], u[u[j].reverses])
  BY DEF LineageOK
<1>3. /\ \A j \in 1..n : s[j].releases # 0 => ReleasesRightly(s[j], s[s[j].releases])
      /\ \A j \in 1..n : s[j].amount \in Int
  <2>1. \A j \in 1..n : s[j] \in E
    OBVIOUS
  <2>2. \A j \in 1..n : s[j].amount \in Int
    BY <2>1 DEF Entries
  <2>3. \A j \in 1..n : s[j].releases # 0 => ReleasesRightly(s[j], s[s[j].releases])
    BY Zenon DEF LineageOK
  <2>4. QED
    BY <2>2, <2>3
<1> HIDE DEF u, n, m
<1>4. ASSUME NEW i \in 1..n, s[i].project = e.project
      PROVE  \A j \in 1..m : t[j].releases # i /\ t[j].reverses # i
  <2>1. ASSUME NEW j \in 1..m PROVE t[j].releases # i /\ t[j].reverses # i
    <3>1. n + j \in 1..Len(u) /\ u[n + j] = t[j] /\ u[i] = s[i] /\ i # 0
      BY <1>1
    <3>2. t[j].releases = i => t[j].project = s[i].project
      BY <1>2, <3>1 DEF ReleasesRightly
    <3>3. t[j].reverses = i => t[j].project = s[i].project
      BY <1>2, <3>1 DEF ReversesRightly
    <3>4. QED
      BY <1>4, <3>2, <3>3 DEF m
  <2>2. QED
    BY <2>1
<1>5. ASSUME NEW i \in 1..n, s[i].project = e.project PROVE IsReversed(u, i) <=> IsReversed(s, i)
  <2>1. IsReversed(s, i) => IsReversed(u, i)
    BY <1>1 DEF IsReversed, n
  <2>2. IsReversed(u, i) => IsReversed(s, i)
    <3>1. SUFFICES ASSUME NEW j \in 1..Len(u), u[j].reverses = i PROVE j \in 1..n
      BY <1>1 DEF IsReversed, n
    <3>2. QED
      BY <1>1, <1>4, <1>5, <3>1
  <2>3. QED
    BY <2>1, <2>2
\* What acts on an entry of e's project is of that project.
<1>6. ASSUME NEW i \in 1..n, s[i].project = e.project, NEW j \in 1..n, s[j].releases = i
      PROVE  s[j].project = e.project
  BY <1>3, <1>6 DEF ReleasesRightly
<1>7. ASSUME NEW i \in 1..n, s[i].project = e.project PROVE LiveSum(u, i) = LiveSum(s, i)
  <2> DEFINE c == [j \in 1..n |-> LivePart(s, j, i)]
             d == [j \in 1..m |-> 0]
             f == [j \in 1..Len(u) |-> LivePart(u, j, i)]
  <2>1. \A j \in 1..n : f[j] = c[j] /\ c[j] \in Int
    BY <1>1, <1>3, <1>5, <1>6, <1>7 DEF LivePart
  <2>2. ASSUME NEW j \in 1..m PROVE f[n + j] = d[j] /\ d[j] \in Int /\ d[j] = 0
    <3>1. n + j \in 1..Len(u) /\ u[n + j].releases # i
      <4>1. u[n + j] = t[j] /\ t[j].releases # i
        BY <1>1, <1>4, <1>7
      <4>2. n + j \in 1..Len(u)
        BY <1>1
      <4>3. QED
        BY <4>1, <4>2
    <3>2. f[n + j] = LivePart(u, n + j, i)
      BY <3>1
    <3>3. QED
      BY <3>1, <3>2 DEF LivePart
  <2>3. LiveSum(u, i) = SumTo(f, n + m) /\ LiveSum(s, i) = SumTo(c, n)
    BY <1>1 DEF LiveSum, n
  <2> HIDE DEF c, d, f
  <2>4. Joins(f, c, d, n, m)
    BY <2>1, <2>2 DEF Joins
  <2>5. SumTo(f, n + m) = SumTo(c, n) + SumTo(d, m)
    BY <1>1, <2>4, SumShift
  <2>6. SumTo(d, m) = 0
    BY <1>1, <2>2, SumNothing
  <2>7. SumTo(c, n) \in Int
    BY <1>1, <2>1, SumInt
  <2>8. QED
    BY <2>3, <2>5, <2>6, <2>7
<1>8. CASE e.releases # 0
  <2>1. PICK i \in 1..n : i = e.releases
    BY <1>8 DEF Fits, n
  <2>2. s[i].project = e.project /\ u[i] = s[i] /\ i \in 1..Len(u) /\ e.reverses = 0
    BY <1>1, <1>8, <2>1, References DEF Fits, ReleasesRightly
  <2>3. LiveSum(u, i) = LiveSum(s, i) /\ (IsReversed(u, i) <=> IsReversed(s, i))
    BY <1>5, <1>7, <2>2
  <2>4. QED
    BY <1>8, <2>1, <2>2, <2>3 DEF Fits, u
<1>9. CASE e.reverses # 0
  <2>1. PICK i \in 1..n : i = e.reverses
    BY <1>9 DEF Fits, n
  <2>2. s[i].project = e.project /\ u[i] = s[i] /\ i \in 1..Len(u) /\ e.releases = 0
    BY <1>1, <1>9, <2>1, References DEF Fits, ReversesRightly
  <2>3. IsReversed(u, i) <=> IsReversed(s, i)
    BY <1>5, <2>2
  <2>4. Unreleased(u, i)
    <3>1. SUFFICES ASSUME NEW j \in 1..Len(u), u[j].releases = i PROVE IsReversed(u, j)
      BY DEF Unreleased
    <3>2. j \in 1..n /\ s[j].releases = i
      BY <1>1, <1>4, <2>2, <3>1
    <3>3. IsReversed(s, j)
      BY <1>9, <2>1, <3>2 DEF Fits, Unreleased, n
    <3>4. QED
      BY <1>5, <1>6, <2>2, <3>2, <3>3
  <2>5. QED
    BY <1>9, <2>1, <2>2, <2>3, <2>4 DEF Fits, u
<1>10. CASE e.releases = 0 /\ e.reverses = 0
  BY <1>10, PlainFits DEF Acting, u
<1>11. QED
  BY <1>8, <1>9, <1>10

\* What remains of a hold is between nothing and its amount.
LEMMA RemainingBounds ==
    ASSUME NEW E, Entries(E), NEW s \in Seq(E), BookOK(s), NEW i \in 1..Len(s),
           s[i].type \in HoldTypes
    PROVE  Remaining(s, i) \in 0..s[i].amount
<1>1. s[i].amount \in Int /\ s[i].amount > 0
  BY DEF Entries, BookOK, LineageOK, Formed
<1>2. Acts(s, i) = LiveSum(s, i) /\ s[i].amount + LiveSum(s, i) >= 0
  BY DEF BookOK, HoldsOK
<1>3. LiveSum(s, i) \in Int /\ LiveSum(s, i) <= 0
  BY SumsInt, LiveBelowEach DEF BookOK
<1>4. QED
  BY <1>1, <1>2, <1>3, RemainingIs

\* So the spending buckets of a book are never negative.
LEMMA BucketsNat ==
    ASSUME NEW E, Entries(E), NEW s \in Seq(E), BookOK(s), NEW p, NEW type \in HoldTypes
    PROVE  LedgerSum(s, p, BucketForType[type]) \in Nat
<1> DEFINE c == [i \in 1..Len(s) |-> HeldPart(s, i, p, type)]
<1>1. Len(s) \in Nat /\ \A i \in 1..Len(s) : s[i].amount \in Int
  BY DEF Entries
<1>2. \A i \in 1..Len(s) : s[i].type \in HoldTypes => Remaining(s, i) \in Nat
  BY <1>1, RemainingBounds
<1>3. \A i \in 1..Len(s) : c[i] \in Nat
  BY <1>2 DEF HeldPart
<1>4. SumTo(c, Len(s)) \in Nat
  <2>1. 0 \in Nat /\ \A x, y \in Nat : x + y \in Nat
    OBVIOUS
  <2> HIDE DEF c
  <2>2. QED
    BY <1>1, <1>3, <2>1, SumClosed
<1>5. HeldSum(s, p, type) = LedgerSum(s, p, BucketForType[type])
  BY DEF BookOK, BucketsOK
<1>6. QED
  BY <1>4, <1>5 DEF HeldSum

-----------------------------------------------------------------------------
(* Rounding.                                                                 *)

\* Amounts the currency can express.
Multiples == {x \in Int : \E k \in Int : x = k * Quantum}

LEMMA Quotient ==
    ASSUME NEW a \in Int, NEW b \in Nat \ {0}, NEW k \in Int, NEW r \in Nat,
           r < b, a = k * b + r
    PROVE  a \div b = k
<1> DEFINE q == a \div b
           m == a % b
<1>1. q \in Int /\ m \in Nat /\ m < b /\ a = b * q + m
  OBVIOUS
<1> HIDE DEF q, m
<1>2. b * q + m = k * b + r
  BY <1>1
<1>3. CASE q >= k + 1
  <2>1. PICK d \in Nat : q = k + 1 + d
    <3>1. q - (k + 1) \in Nat /\ q = k + 1 + (q - (k + 1))
      BY <1>1, <1>3
    <3>2. QED
      BY <3>1
  <2>2. b * q = k * b + b + b * d /\ b * d \in Nat /\ k * b \in Int
    BY <2>1
  <2>3. QED
    BY <1>1, <1>2, <2>2
<1>4. CASE q <= k - 1
  <2>1. PICK d \in Nat : k = q + 1 + d
    <3>1. k - (q + 1) \in Nat /\ k = q + 1 + (k - (q + 1))
      BY <1>1, <1>4
    <3>2. QED
      BY <3>1
  <2>2. k * b = b * q + b + b * d /\ b * d \in Nat /\ b * q \in Int
    BY <1>1, <2>1
  <2>3. QED
    BY <1>1, <1>2, <2>2
<1>5. QED
  BY <1>1, <1>3, <1>4 DEF q

LEMMA MultiplesClosed ==
    /\ 0 \in Multiples
    /\ \A x, y \in Multiples : x + y \in Multiples
    /\ \A x \in Multiples : -x \in Multiples
<1>1. Quantum \in Nat \ {0}
  BY QuantumAssumption
<1>2. 0 \in Multiples
  <2>1. 0 = 0 * Quantum /\ 0 \in Int
    BY <1>1
  <2>2. QED
    BY <2>1 DEF Multiples
<1>3. ASSUME NEW x \in Multiples, NEW y \in Multiples PROVE x + y \in Multiples
  <2>1. PICK j \in Int : x = j * Quantum
    BY DEF Multiples
  <2>2. PICK k \in Int : y = k * Quantum
    BY DEF Multiples
  <2>3. x + y = (j + k) * Quantum /\ j + k \in Int /\ x + y \in Int
    BY <1>1, <2>1, <2>2
  <2>4. QED
    BY <2>3 DEF Multiples
<1>4. ASSUME NEW x \in Multiples PROVE -x \in Multiples
  <2>1. PICK j \in Int : x = j * Quantum
    BY DEF Multiples
  <2>2. -x = (-j) * Quantum /\ -j \in Int /\ -x \in Int
    BY <1>1, <2>1
  <2>3. QED
    BY <2>2 DEF Multiples
<1>5. QED
  BY <1>2, <1>3, <1>4

LEMMA RoundedIsMultiple == ASSUME NEW a \in Int PROVE RoundUpward(a) \in Multiples
<1> DEFINE q == (2 * a + Quantum) \div (2 * Quantum)
<1>1. Quantum \in Nat \ {0}
  BY QuantumAssumption
<1>2. q \in Int
  BY <1>1
<1>3. RoundUpward(a) = q * Quantum
  BY DEF RoundUpward
<1> HIDE DEF q
<1>4. q * Quantum \in Int
  BY <1>1, <1>2
<1>5. QED
  BY <1>2, <1>3, <1>4 DEF Multiples

LEMMA QuantizedIsMultiple == ASSUME NEW a \in Int PROVE Quantize(a) \in Multiples
<1>1. -a \in Int
  OBVIOUS
<1>2. RoundUpward(a) \in Multiples /\ RoundUpward(-a) \in Multiples
  BY <1>1, RoundedIsMultiple
<1>3. QED
  BY <1>2, MultiplesClosed DEF Quantize

\* Rounding leaves an amount the currency can express alone.
LEMMA MultipleIsQuantized == ASSUME NEW x \in Multiples PROVE Quantize(x) = x
<1>1. Quantum \in Nat \ {0}
  BY QuantumAssumption
<1>2. ASSUME NEW y \in Multiples PROVE RoundUpward(y) = y
  <2>1. PICK k \in Int : y = k * Quantum
    BY DEF Multiples
  <2>2. 2 * y + Quantum = k * (2 * Quantum) + Quantum
    BY <1>1, <2>1
  <2>3. /\ 2 * y + Quantum \in Int /\ 2 * Quantum \in Nat \ {0} /\ Quantum < 2 * Quantum
        /\ Quantum \in Nat
    BY <1>1 DEF Multiples
  <2>4. (2 * y + Quantum) \div (2 * Quantum) = k
    BY <2>2, <2>3, Quotient
  <2>5. QED
    BY <2>1, <2>4 DEF RoundUpward
<1>3. x \in Int /\ -x \in Multiples
  BY MultiplesClosed DEF Multiples
<1>4. RoundUpward(x) = x /\ RoundUpward(-x) = -x
  BY <1>2, <1>3
<1>5. QED
  BY <1>3, <1>4 DEF Quantize

\* What remains of an entry can be expressed when every amount can.
LEMMA RemainingMultiple ==
    ASSUME NEW s, Len(s) \in Nat, NEW i \in 1..Len(s),
           \A j \in 1..Len(s) : s[j].amount \in Multiples
    PROVE  Remaining(s, i) \in Multiples
<1> DEFINE c == [j \in 1..Len(s) |-> IF ActsOn(s, j, i) THEN s[j].amount ELSE 0]
<1>1. \A j \in 1..Len(s) : c[j] \in Multiples
  BY MultiplesClosed
<1>2. SumTo(c, Len(s)) \in Multiples
  <2> HIDE DEF c
  <2>1. QED
    BY <1>1, MultiplesClosed, SumClosed
<1>3. Acts(s, i) \in Multiples
  BY <1>2 DEF Acts
<1>4. QED
  BY <1>3, MultiplesClosed, RemainingIs

-----------------------------------------------------------------------------
(* Types of what a transaction computes.                                     *)

LEMMA QuantizeInt == ASSUME NEW a \in Int PROVE Quantize(a) \in Int
<1>1. \A x \in Int : RoundUpward(x) \in Int
  BY QuantumAssumption DEF RoundUpward
<1>2. QED
  BY <1>1 DEF Quantize

LEMMA EntryFields ==
    ASSUME NEW e \in Entry
    PROVE  /\ e.amount \in Int /\ e.bucket \in Bucket /\ e.project \in Project
           /\ e.date \in Date /\ e.type \in EntryType
  BY DEF Entry

LEMMA RemainingInt ==
    ASSUME NEW s \in Seq(Entry), NEW i \in 1..Len(s)
    PROVE  Remaining(s, i) \in Int
<1> DEFINE c == [j \in 1..Len(s) |-> IF ActsOn(s, j, i) THEN s[j].amount ELSE 0]
<1>1. \A j \in 1..Len(s) : s[j].amount \in Int
  <2>1. \A j \in 1..Len(s) : s[j] \in Entry
    OBVIOUS
  <2>2. QED
    BY <2>1, EntryFields
<1>2. \A j \in 1..Len(s) : c[j] \in Int
  BY <1>1
<1>3. SumTo(c, Len(s)) \in Int
  <2> HIDE DEF c
  <2>1. QED
    BY <1>2, SumInt
<1>4. QED
  BY <1>1, <1>3 DEF Remaining

LEMMA MakeEntryType ==
    ASSUME NEW t \in EntryType, NEW b \in Bucket, NEW p \in Project, NEW a \in Int,
           NEW k \in LedgerKey, NEW d \in Date
    PROVE  MakeEntry(t, b, p, a, k, d) \in Entry
  BY DEF MakeEntry, Entry

LEMMA KeyTypes ==
    ASSUME NEW k \in Key
    PROVE  /\ EntryKey(k) \in LedgerKey /\ ReleaseKey(k) \in LedgerKey
           /\ \A h \in Nat : OutKey(k, h) \in LedgerKey /\ InKey(k, h) \in LedgerKey
  BY DEF EntryKey, ReleaseKey, OutKey, InKey, LedgerKey

LEMMA TypedType ==
    ASSUME NEW t \in {"allocation", "transfer", "adjustment", "reservation",
                      "commitment", "actual"},
           NEW p \in Project, NEW a \in Int, NEW k \in LedgerKey, NEW d \in Date
    PROVE  Typed(t, p, a, k, d) \in Entry
<1>1. BucketForType[t] \in Bucket /\ t \in EntryType
  BY DEF BucketForType, Bucket, EntryType
<1>2. QED
  BY <1>1, MakeEntryType DEF Typed

LEMMA TransferLegType ==
    ASSUME NEW p \in Project, NEW a \in Int, NEW lk \in LedgerKey,
           NEW g \in Key \X {0, 1}, NEW d \in Date
    PROVE  TransferLeg(p, a, lk, g, d) \in Entry
<1>1. Typed("transfer", p, a, lk, d) \in Entry
  BY TypedType
<1>2. QED
  BY <1>1 DEF TransferLeg, Entry

LEMMA ReleaseOfType ==
    ASSUME TypeOK, NEW i \in 1..Len(ledger), NEW a \in Int, NEW k \in LedgerKey,
           NEW d \in Date
    PROVE  ReleaseOf(i, a, k, d) \in Entry
<1>1. ledger[i].bucket \in Bucket /\ ledger[i].project \in Project /\ i \in Nat
  <2>1. ledger[i] \in Entry
    BY DEF TypeOK
  <2>2. QED
    BY <2>1, EntryFields
<1>2. MakeEntry("release", ledger[i].bucket, ledger[i].project, -a, k, d) \in Entry
  BY <1>1, MakeEntryType DEF EntryType
<1>3. QED
  BY <1>1, <1>2 DEF ReleaseOf, Entry

LEMMA VisibleType ==
    ASSUME TypeOK, NEW w \in Worker
    PROVE  /\ Visible(w) \in Seq(Entry)
           /\ \A i \in 1..Len(ledger) : i \in 1..Len(Visible(w))
  BY DEF TypeOK, Visible

LEMMA EntryWithKeyType ==
    ASSUME TypeOK, NEW w \in Worker, NEW k, KnownKey(w, k)
    PROVE  EntryWithKey(w, k) \in Entry
<1> DEFINE P(i) == i \in 1..Len(Visible(w)) /\ Visible(w)[i].key = k
<1>1. PICK i \in 1..Len(Visible(w)) : Visible(w)[i].key = k
  BY DEF KnownKey
<1> DEFINE j == CHOOSE n \in 1..Len(Visible(w)) : Visible(w)[n].key = k
<1>2. j \in 1..Len(Visible(w))
  BY <1>1
<1>3. QED
  BY <1>2, VisibleType DEF EntryWithKey

LEMMA TargetType ==
    ASSUME TypeOK, NEW w \in Worker, stage[w] # "idle"
    PROVE  /\ cmd[w] \in Command
           /\ cmd[w].project \in Project /\ cmd[w].dest \in Project
           /\ cmd[w].amount \in Int /\ cmd[w].key \in Key /\ cmd[w].date \in Date
           /\ cmd[w].target \in 0..Len(ledger)
           /\ cmd[w].op \in Releasing \cup {"reverse_entry"} => cmd[w].target # 0
<1>1. CommandOK(cmd[w])
  BY DEF TypeOK
<1>2. QED
  BY <1>1 DEF CommandOK, Command

LEMMA ReleaseLegsType ==
    ASSUME TypeOK, NEW w \in Worker, stage[w] # "idle", cmd[w].op \in Releasing
    PROVE  ReleaseLegs(w) \in Seq(Entry)
<1> DEFINE c == cmd[w]
           held == Remaining(Visible(w), c.target)
           known == KnownKey(w, EntryKey(c.key))
           amount == IF c.amount # All THEN Quantize(c.amount)
                     ELSE IF known THEN -EntryWithKey(w, EntryKey(c.key)).amount ELSE held
<1>1. c.target \in 1..Len(ledger) /\ c.amount \in Int /\ EntryKey(c.key) \in LedgerKey
  BY TargetType, KeyTypes
<1>2. held \in Int
  BY <1>1, VisibleType, RemainingInt
<1>3. Quantize(c.amount) \in Int
  BY <1>1, QuantizeInt
<1>4. known => -EntryWithKey(w, EntryKey(c.key)).amount \in Int
  <2>1. SUFFICES ASSUME known PROVE EntryWithKey(w, EntryKey(c.key)).amount \in Int
    OBVIOUS
  <2>2. EntryWithKey(w, EntryKey(c.key)) \in Entry
    BY <2>1, EntryWithKeyType
  <2>3. QED
    BY <2>2, EntryFields
<1>5. amount \in Int
  BY <1>2, <1>3, <1>4
<1>6. today \in Date
  BY DEF TypeOK
<1>7. ReleaseOf(c.target, amount, EntryKey(c.key), today) \in Entry
  <2> HIDE DEF amount
  <2>1. QED
    BY <1>1, <1>5, <1>6, ReleaseOfType
<1>8. QED
  BY <1>7 DEF ReleaseLegs

LEMMA ConsumeLegsType ==
    ASSUME TypeOK, NEW w \in Worker, stage[w] # "idle"
    PROVE  ConsumeLegs(w) \in Seq(Entry)
<1> DEFINE c == cmd[w]
           known == KnownKey(w, EntryKey(c.key))
           amount == IF known THEN c.amount ELSE Quantize(c.amount)
           held == IF c.target = 0 THEN 0 ELSE Remaining(Visible(w), c.target)
           released == IF amount <= held THEN amount ELSE held
           plain == Typed(ConsumingType(c.op), c.project, amount, EntryKey(c.key), c.date)
           posting == [plain EXCEPT !.converts = c.target]
<1>1. /\ c.target \in 0..Len(ledger) /\ c.amount \in Int /\ EntryKey(c.key) \in LedgerKey
      /\ ReleaseKey(c.key) \in LedgerKey /\ c.date \in Date /\ c.project \in Project
  BY TargetType, KeyTypes
<1>2. amount \in Int
  BY <1>1, QuantizeInt
<1>3. held \in Int
  BY <1>1, VisibleType, RemainingInt
<1>4. released \in Int
  BY <1>2, <1>3
<1>5. posting \in Entry
  <2>1. ConsumingType(c.op) \in {"commitment", "actual"}
    BY DEF ConsumingType
  <2>2. plain \in Entry
    <3> HIDE DEF amount
    <3>1. QED
      BY <1>1, <1>2, <2>1, TypedType
  <2>3. c.target \in Nat
    BY <1>1
  <2>4. QED
    <3> HIDE DEF plain
    <3>1. QED
      BY <2>2, <2>3 DEF Entry
<1>6. c.target # 0 => ReleaseOf(c.target, released, ReleaseKey(c.key), c.date) \in Entry
  <2> HIDE DEF released
  <2>1. QED
    BY <1>1, <1>4, ReleaseOfType
<1>7. ConsumeLegs(w) = IF known \/ c.target = 0 \/ released = 0
                       THEN <<posting>>
                       ELSE <<ReleaseOf(c.target, released, ReleaseKey(c.key), c.date), posting>>
  BY DEF ConsumeLegs
<1>8. QED
  <2> HIDE DEF posting, released, known
  <2>1. QED
    BY <1>5, <1>6, <1>7

LEMMA ReverseLegsType ==
    ASSUME TypeOK, NEW w \in Worker, stage[w] # "idle", cmd[w].target # 0
    PROVE  ReverseLegs(w) \in Seq(Entry)
<1> DEFINE c == cmd[w]
           e == ledger[c.target]
           plain == MakeEntry("reversal", e.bucket, e.project, -e.amount, EntryKey(c.key), c.date)
<1>1. c.target \in 1..Len(ledger) /\ EntryKey(c.key) \in LedgerKey /\ c.date \in Date
  BY TargetType, KeyTypes
<1>2. e \in Entry
  BY <1>1 DEF TypeOK
<1>3. e.bucket \in Bucket /\ e.project \in Project /\ -e.amount \in Int
  BY <1>2, EntryFields
<1>4. plain \in Entry
  BY <1>1, <1>3, MakeEntryType DEF EntryType
<1>5. [plain EXCEPT !.reverses = c.target] \in Entry
  <2> HIDE DEF plain
  <2>1. QED
    BY <1>1, <1>4 DEF Entry
<1>6. QED
  BY <1>5 DEF ReverseLegs

LEMMA PathLegsType ==
    ASSUME TypeOK, NEW w \in Worker, stage[w] # "idle", NEW path \in Seq(Project)
    PROVE  PathLegs(w, path) \in Seq(Entry)
<1> DEFINE c == cmd[w]
           n == 2 * (Len(path) - 1)
           first == FirstHop(w)
           group == Group(c.key, first)
           leg(i) == LET hop == (i - 1) \div 2 IN
                     IF i % 2 = 1
                     THEN TransferLeg(path[hop + 1], -c.amount, OutKey(c.key, first + hop), group, c.date)
                     ELSE TransferLeg(path[hop + 2], c.amount, InKey(c.key, first + hop), group, c.date)
<1>1. c.amount \in Int /\ -c.amount \in Int /\ c.key \in Key /\ c.date \in Date
  BY TargetType
<1> first \in {0, 1}
  BY DEF FirstHop
<1> group \in Key \X {0, 1}
  BY <1>1 DEF Group
<1> HIDE DEF first, group
<1>2. ASSUME NEW i \in 1..n PROVE leg(i) \in Entry
  <2> DEFINE hop == (i - 1) \div 2
  <2>1. hop \in Nat /\ hop + 1 \in 1..Len(path) /\ hop + 2 \in 1..Len(path)
    OBVIOUS
  <2>2. path[hop + 1] \in Project /\ path[hop + 2] \in Project
    <3> HIDE DEF hop
    <3>1. QED
      BY <2>1
  <2>0. first + hop \in Nat
    <3> HIDE DEF hop
    <3>1. QED
      BY <2>1
  <2>3. OutKey(c.key, first + hop) \in LedgerKey /\ InKey(c.key, first + hop) \in LedgerKey
    <3> HIDE DEF hop
    <3>1. QED
      BY <1>1, <2>0, KeyTypes
  <2>4. /\ TransferLeg(path[hop + 1], -c.amount, OutKey(c.key, first + hop), group, c.date) \in Entry
        /\ TransferLeg(path[hop + 2], c.amount, InKey(c.key, first + hop), group, c.date) \in Entry
    <3> HIDE DEF hop
    <3>1. QED
      BY <1>1, <2>2, <2>3, TransferLegType
  <2>5. QED
    BY <2>4
<1>3. [i \in 1..n |-> leg(i)] \in Seq(Entry)
  <2> HIDE DEF leg
  <2>1. CASE Len(path) = 0
    <3>1. 1..n = {}
      BY <2>1
    <3>2. [i \in 1..n |-> leg(i)] = <<>>
      BY <3>1
    <3>3. QED
      BY <3>2
  <2>2. CASE Len(path) # 0
    <3>1. n \in Nat
      BY <2>2
    <3> HIDE DEF n
    <3>2. QED
      BY <1>2, <3>1
  <2>3. QED
    BY <2>1, <2>2
<1>4. QED
  BY <1>3 DEF PathLegs, first, group

LEMMA PlannedLegsType ==
    ASSUME TypeOK, NEW w \in Worker, stage[w] # "idle"
    PROVE  PlannedLegs(w) \in Seq(Entry)
<1> DEFINE c == cmd[w]
<1>1. /\ c.project \in Project /\ c.dest \in Project /\ c.amount \in Int
      /\ EntryKey(c.key) \in LedgerKey /\ c.date \in Date
      /\ c.op \in PostingOps
  BY TargetType, KeyTypes DEF Command
<1>2. /\ Typed("reservation", c.project, c.amount, EntryKey(c.key), c.date) \in Entry
      /\ Typed("adjustment", c.project, c.amount, EntryKey(c.key), c.date) \in Entry
      /\ Typed("allocation", c.project, c.amount, EntryKey(c.key), c.date) \in Entry
  BY <1>1, TypedType
<1>3. FromParent(w) => PathLegs(w, <<Parent[c.project], c.project>>) \in Seq(Entry)
  <2>1. SUFFICES ASSUME FromParent(w)
                 PROVE  PathLegs(w, <<Parent[c.project], c.project>>) \in Seq(Entry)
    OBVIOUS
  <2>2. Parent[c.project] \in Project
    BY <1>1, <2>1, LedgerAssumption DEF FromParent
  <2>3. <<Parent[c.project], c.project>> \in Seq(Project)
    BY <1>1, <2>2
  <2>4. QED
    BY <2>3, PathLegsType
<1>4. PathLegs(w, TransferPath(w)) \in Seq(Entry)
  <2>1. TransferPath(w) \in Seq(Project)
    <3>1. Route[c.project][c.dest] \in Seq(Project)
      BY <1>1, LedgerAssumption
    <3>2. <<c.project, c.dest>> \in Seq(Project)
      BY <1>1
    <3>3. QED
      BY <3>1, <3>2 DEF TransferPath
  <2>2. QED
    BY <2>1, PathLegsType
<1>5. c.op \in Releasing => ReleaseLegs(w) \in Seq(Entry)
  BY ReleaseLegsType
<1>6. ConsumeLegs(w) \in Seq(Entry)
  BY ConsumeLegsType
<1>7. c.target # 0 => ReverseLegs(w) \in Seq(Entry)
  BY ReverseLegsType
<1>8. c.op = "reverse_entry" => ReverseLegs(w) \in Seq(Entry)
  BY <1>7, TargetType
<1>9. QED
  BY <1>1, <1>2, <1>3, <1>4, <1>5, <1>6, <1>8 DEF PlannedLegs, PostingOps, Releasing, Consuming

-----------------------------------------------------------------------------
(* Types.                                                                    *)

LEMMA NeedsType ==
    ASSUME TypeOK, NEW w \in Worker, stage[w] # "idle"
    PROVE  Needs(w) \subseteq Project /\ NextRow(w) \subseteq Needs(w) \ locked[w]
<1> DEFINE c == cmd[w]
<1>1. c.project \in Project /\ c.dest \in Project /\ c.target \in 0..Len(ledger)
  BY TargetType
<1>2. c.target # 0 => ledger[c.target].project \in Project
  <2>1. SUFFICES ASSUME c.target # 0 PROVE ledger[c.target].project \in Project
    OBVIOUS
  <2>2. ledger[c.target] \in Entry
    BY <1>1, <2>1 DEF TypeOK
  <2>3. QED
    BY <2>2, EntryFields
<1>3. RangeOf(Route[c.project][c.dest]) \subseteq Project
  <2>1. Route[c.project][c.dest] \in Seq(Project)
    BY <1>1, LedgerAssumption
  <2>2. QED
    BY <2>1 DEF RangeOf
<1>4. FromParent(w) => Parent[c.project] \in Project
  BY <1>1, LedgerAssumption DEF FromParent
<1>5. /\ c.op \in PostingOps
      /\ c.op \in Releasing \cup {"reverse_entry"} => c.target # 0
  BY TargetType DEF Command
<1>6. Needs(w) \subseteq Project
  BY <1>1, <1>2, <1>3, <1>4, <1>5 DEF Needs, PostingOps, Releasing, Consuming
<1>7. NextRow(w) \subseteq Needs(w) \ locked[w]
  BY DEF NextRow
<1>8. QED
  BY <1>6, <1>7

LEMMA RequestsType ==
    ASSUME TypeOK, NEW c \in Requests
    PROVE  CommandOK(c)
<1> USE LedgerAssumption DEF Request, CommandOK, Command, PostingOps, Releasing, Consuming
<1>0. All \in Int /\ mode \in FundingMode /\ today \in Date /\ Len(ledger) \in Nat
  BY DEF TypeOK, All
<1>1. ASSUME NEW t \in 1..Len(ledger) PROVE ledger[t].project \in Project
  BY EntryFields DEF TypeOK
<1>2. CASE c \in FundingRequests
  BY <1>2, <1>0 DEF FundingRequests, PositiveAmount
<1>3. CASE c \in TransferRequests
  BY <1>3, <1>0 DEF TransferRequests, PositiveAmount
<1>4. CASE c \in ConsumeRequests
  BY <1>4, <1>0 DEF ConsumeRequests, Holds
<1>5. CASE c \in ReleaseRequests
  BY <1>5, <1>0, <1>1 DEF ReleaseRequests, Holds
<1>6. CASE c \in ReverseRequests
  BY <1>6, <1>0, <1>1 DEF ReverseRequests
<1>7. QED
  BY <1>2, <1>3, <1>4, <1>5, <1>6 DEF Requests

LEMMA TypeInit == Init => TypeOK
<1> SUFFICES ASSUME Init PROVE TypeOK
  OBVIOUS
<1>1. ZeroRow \in BalanceRow
  BY DEF ZeroRow, BalanceRow
<1>2. 1 \in Date
  BY LedgerAssumption DEF Date
<1>3. QED
  BY <1>1, <1>2, LedgerAssumption DEF Init, TypeOK, FundingMode, NoRequest

\* What is left when a transaction ends.
LEMMA TypeEnd ==
    ASSUME TypeOK, NEW w \in Worker, EndTransaction(w)
    PROVE  /\ cmd' \in [Worker -> Command \cup {NoRequest}]
           /\ stage' \in [Worker -> {"idle", "locking", "posting"}]
           /\ locked' \in [Worker -> SUBSET Project]
           /\ view' \in [Worker -> [Project -> BalanceRow]]
           /\ rows' \in [Worker -> Seq(Entry)]
           /\ legs' \in [Worker -> Seq(Entry)]
           /\ shares' \in [Worker -> SUBSET Date]
           /\ \A v \in Worker : stage'[v] # "idle" => v # w /\ stage[v] # "idle" /\ cmd'[v] = cmd[v]
<1>1. ZeroRow \in BalanceRow
  BY DEF ZeroRow, BalanceRow
<1>2. QED
  BY <1>1 DEF EndTransaction, TypeOK

LEMMA RowSeenType ==
    ASSUME TypeOK, NEW w \in Worker, NEW p \in Project
    PROVE  RowSeen(w, p) \in BalanceRow
  BY DEF TypeOK, RowSeen

LEMMA TypeStep == TypeOK /\ [Next]_vars => TypeOK'
<1> SUFFICES ASSUME TypeOK, [Next]_vars PROVE TypeOK'
  OBVIOUS
<1>1. ASSUME NEW w \in Worker, Receive(w) PROVE TypeOK'
  <2>1. PICK c \in Requests : Begin(w, c)
    BY <1>1 DEF Receive
  <2>2. CommandOK(c)
    BY <2>1, RequestsType
  <2>3. cmd' \in [Worker -> Command \cup {NoRequest}]
    BY <2>1, <2>2 DEF Begin, TypeOK, CommandOK
  <2>4. stage' \in [Worker -> {"idle", "locking", "posting"}]
    BY <2>1 DEF Begin, TypeOK
  <2>5. ASSUME NEW v \in Worker, stage'[v] # "idle" PROVE CommandOK(cmd'[v])
    BY <2>1, <2>2, <2>5 DEF Begin, TypeOK
  <2>6. ledger' = ledger
    BY <2>1 DEF Begin, bookVars
  <2>7. \A v \in Worker : stage'[v] # "idle" => CommandOK(cmd[v])'
    BY <2>5, <2>6 DEF CommandOK
  <2>8. QED
    BY <2>1, <2>3, <2>4, <2>7 DEF Begin, TypeOK, bookVars, orgVars
<1>2. ASSUME NEW w \in Worker, Lock(w) PROVE TypeOK'
  <2>1. PICK p \in NextRow(w) : TakeRow(w, p) /\ view' = [view EXCEPT ![w][p] = balance[p]]
    BY <1>2 DEF Lock
  <2>2. p \in Project
    BY <1>2, <2>1, NeedsType DEF Lock
  <2>3. locked' \in [Worker -> SUBSET Project]
    BY <2>1, <2>2 DEF TakeRow, TypeOK
  <2>4. view' \in [Worker -> [Project -> BalanceRow]]
    BY <2>1, <2>2 DEF TypeOK
  <2>5. QED
    BY <1>2, <2>3, <2>4 DEF Lock, TypeOK, bookVars, orgVars, CommandOK
<1>3. ASSUME NEW w \in Worker, Plan(w) PROVE TypeOK'
  <2>1. PlannedLegs(w) \in Seq(Entry)
    BY <1>3, PlannedLegsType DEF Plan
  <2>2. legs' \in [Worker -> Seq(Entry)]
    BY <1>3, <2>1 DEF Plan, TypeOK
  <2>3. stage' \in [Worker -> {"idle", "locking", "posting"}]
    BY <1>3 DEF Plan, TypeOK
  <2>4. \A v \in Worker : stage'[v] # "idle" => stage[v] # "idle"
    BY <1>3 DEF Plan, TypeOK
  <2>5. QED
    BY <1>3, <2>2, <2>3, <2>4 DEF Plan, TypeOK, bookVars, orgVars, CommandOK
<1>4. ASSUME NEW w \in Worker, Replay(w) PROVE TypeOK'
  <2> DEFINE leg == Head(legs[w])
  <2>1. leg \in Entry /\ Tail(legs[w]) \in Seq(Entry)
    BY <1>4 DEF Replay, TypeOK
  <2>2. leg.project \in Project
    BY <2>1, EntryFields
  <2>3. RowSeen(w, leg.project) \in BalanceRow
    BY <2>2, RowSeenType
  <2>4. view' \in [Worker -> [Project -> BalanceRow]]
    <3>1. view' = [view EXCEPT ![w][leg.project] = RowSeen(w, leg.project)]
      BY <1>4 DEF Replay
    <3>2. QED
      BY <2>2, <2>3, <3>1 DEF TypeOK
  <2>5. locked' \in [Worker -> SUBSET Project]
    BY <1>4, <2>2 DEF Replay, TakeRow, TypeOK
  <2>6. legs' \in [Worker -> Seq(Entry)]
    BY <1>4, <2>1 DEF Replay, TypeOK
  <2>7. QED
    BY <1>4, <2>4, <2>5, <2>6 DEF Replay, TypeOK, bookVars, orgVars, CommandOK
<1>5. ASSUME NEW w \in Worker, Post(w) PROVE TypeOK'
  <2> DEFINE leg == Head(legs[w])
             amount == Quantize(leg.amount)
             p == leg.project
             new == [leg EXCEPT !.amount = amount]
  <2>1. leg \in Entry /\ Tail(legs[w]) \in Seq(Entry)
    BY <1>5 DEF Post, TypeOK
  <2>2. /\ p \in Project /\ leg.amount \in Int /\ leg.bucket \in Bucket /\ leg.date \in Date
        /\ amount \in Int
    BY <2>1, EntryFields, QuantizeInt
  <2>3. new \in Entry
    BY <2>1, <2>2 DEF Entry
  <2>4. RowSeen(w, p) \in BalanceRow
    BY <2>2, RowSeenType
  <2>5. [RowSeen(w, p) EXCEPT ![leg.bucket] = @ + amount] \in BalanceRow
    BY <2>2, <2>4 DEF BalanceRow
  <2>6. view' \in [Worker -> [Project -> BalanceRow]]
    <3>1. view' = [view EXCEPT ![w][p] = [RowSeen(w, p) EXCEPT ![leg.bucket] = @ + amount]]
      BY <1>5 DEF Post
    <3>2. QED
      BY <2>2, <2>5, <3>1 DEF TypeOK
  <2>7. locked' \in [Worker -> SUBSET Project]
    BY <1>5, <2>2 DEF Post, TakeRow, TypeOK
  <2>8. rows' \in [Worker -> Seq(Entry)]
    <3>1. rows' = [rows EXCEPT ![w] = Append(@, new)]
      BY <1>5 DEF Post
    <3> HIDE DEF new
    <3>2. QED
      BY <2>3, <3>1 DEF TypeOK
  <2>9. legs' \in [Worker -> Seq(Entry)]
    BY <1>5, <2>1 DEF Post, TypeOK
  <2>10. shares' \in [Worker -> SUBSET Date]
    BY <1>5, <2>2 DEF Post, TypeOK
  <2>11. QED
    BY <1>5, <2>6, <2>7, <2>8, <2>9, <2>10 DEF Post, TypeOK, bookVars, orgVars, CommandOK
<1>6. ASSUME NEW w \in Worker, Commit(w) PROVE TypeOK'
  <2>1. ledger' \in Seq(Entry) /\ Len(ledger') >= Len(ledger)
    BY <1>6 DEF Commit, TypeOK
  <2>2. balance' \in [Project -> BalanceRow]
    BY <1>6 DEF Commit, TypeOK
  <2>3. \A v \in Worker : stage'[v] # "idle" => CommandOK(cmd[v])'
    BY <1>6, <2>1, TypeEnd DEF Commit, CommandOK, TypeOK
  <2>4. QED
    BY <1>6, <2>1, <2>2, <2>3, TypeEnd DEF Commit, TypeOK, orgVars
<1>7. ASSUME NEW w \in Worker, Abort(w) PROVE TypeOK'
  <2>1. \A v \in Worker : stage'[v] # "idle" => CommandOK(cmd[v])'
    BY <1>7, TypeEnd DEF Abort, CommandOK, TypeOK, bookVars
  <2>2. QED
    BY <1>7, <2>1, TypeEnd DEF Abort, TypeOK, orgVars, bookVars
<1>8. ASSUME NEW d \in Date, ClosePeriod(d) \/ ReopenPeriod(d) PROVE TypeOK'
  BY <1>8 DEF ClosePeriod, ReopenPeriod, TypeOK, bookVars, txVars, CommandOK
<1>9. CASE NextDay
  BY <1>9, LedgerAssumption DEF NextDay, TypeOK, bookVars, txVars, CommandOK, Date
<1>10. ASSUME NEW m \in FundingMode, SetFundingMode(m) PROVE TypeOK'
  BY <1>10 DEF SetFundingMode, TypeOK, bookVars, txVars, CommandOK
<1>11. ASSUME NEW b \in OverdraftValues, SetOverdraft(b) PROVE TypeOK'
  BY <1>11 DEF SetOverdraft, TypeOK, bookVars, txVars, CommandOK
<1>12. ASSUME NEW p \in Project, NEW to \in Status, NEW o \in BOOLEAN, Transition(p, to, o)
       PROVE  TypeOK'
  BY <1>12 DEF Transition, TypeOK, bookVars, txVars, CommandOK
<1>13. CASE UNCHANGED vars
  BY <1>13 DEF vars, TypeOK, CommandOK
<1>14. QED
  BY <1>1, <1>2, <1>3, <1>4, <1>5, <1>6, <1>7, <1>8, <1>9, <1>10, <1>11, <1>12, <1>13 DEF Next

\* Every reachable state is well typed, whatever commands run concurrently.
THEOREM TypeCorrect == Spec => []TypeOK
  BY TypeInit, TypeStep, PTL DEF Spec

-----------------------------------------------------------------------------
(* Balances never drift from the ledger.                                     *)

LEMMA EntryAmounts == \A e \in Entry : e.amount \in Int
  BY EntryFields

\* A transaction has no entries in projects whose balance it does not hold.
LEMMA UnheldSum ==
    ASSUME TypeOK, BooksAgree, NEW w \in Worker, NEW p, p \notin locked[w], NEW b
    PROVE  LedgerSum(rows[w], p, b) = 0
<1>1. Len(rows[w]) \in Nat /\ \A i \in 1..Len(rows[w]) : rows[w][i].project # p
  BY DEF TypeOK, BooksAgree
<1>2. QED
  BY <1>1, LedgerSumForeign

\* Whether or not it already holds the row, what a transaction sees of a balance
\* is the committed balance plus its own entries.
LEMMA RowSeenSum ==
    ASSUME TypeOK, BooksAgree, NEW w \in Worker, NEW p \in Project, NEW b \in Bucket
    PROVE  RowSeen(w, p)[b] = balance[p][b] + LedgerSum(rows[w], p, b)
<1>1. CASE p \in locked[w]
  BY <1>1 DEF RowSeen, BooksAgree
<1>2. CASE p \notin locked[w]
  <2>1. LedgerSum(rows[w], p, b) = 0
    BY <1>2, UnheldSum
  <2>2. balance[p][b] \in Int
    BY DEF TypeOK, BalanceRow
  <2>3. QED
    BY <1>2, <2>1, <2>2 DEF RowSeen
<1>3. QED
  BY <1>1, <1>2

LEMMA BooksInit == Init => BooksAgree
<1> SUFFICES ASSUME Init PROVE BooksAgree
  OBVIOUS
<1>1. NoDrift
  BY LedgerSumEmpty DEF Init, NoDrift, ZeroRow
<1>2. QED
  BY <1>1 DEF Init, BooksAgree

\* A worker that takes a free row stays its only holder.
LEMMA TakeRowExclusive ==
    ASSUME TypeOK, BooksAgree, NEW w \in Worker, NEW p, TakeRow(w, p)
    PROVE  \A u, v \in Worker : u # v => locked'[u] \cap locked'[v] = {}
<1>1. locked' = [locked EXCEPT ![w] = @ \cup {p}] /\ \A v \in Worker \ {w} : p \notin locked[v]
  BY DEF TakeRow, RowFree
<1>2. \A u, v \in Worker : u # v => locked[u] \cap locked[v] = {}
  BY DEF BooksAgree
<1>3. \A v \in Worker : locked'[v] = IF v = w THEN locked[w] \cup {p} ELSE locked[v]
  BY <1>1 DEF TypeOK
<1>4. QED
  BY <1>1, <1>2, <1>3

LEMMA BooksStep == TypeOK /\ BooksAgree /\ [Next]_vars => BooksAgree'
<1> SUFFICES ASSUME TypeOK, BooksAgree, [Next]_vars PROVE BooksAgree'
  OBVIOUS
<1>1. ASSUME NEW w \in Worker, Lock(w) PROVE BooksAgree'
  <2>1. PICK p \in NextRow(w) : TakeRow(w, p) /\ view' = [view EXCEPT ![w][p] = balance[p]]
    BY <1>1 DEF Lock
  <2>2. p \in Project /\ p \notin locked[w]
    BY <1>1, <2>1, NeedsType DEF Lock
  <2>3. UNCHANGED <<ledger, balance, rows>>
    BY <1>1 DEF Lock, bookVars
  <2>4. locked' = [locked EXCEPT ![w] = @ \cup {p}]
    BY <2>1 DEF TakeRow
  <2>5. NoDrift'
    BY <2>3 DEF BooksAgree, NoDrift
  <2>6. \A v \in Worker : \A i \in 1..Len(rows'[v]) : rows'[v][i].project \in locked'[v]
    BY <2>3, <2>4 DEF BooksAgree, TypeOK
  <2>7. ASSUME NEW v \in Worker, NEW q \in locked'[v], NEW b \in Bucket
        PROVE  view'[v][q][b] = balance'[q][b] + LedgerSum(rows'[v], q, b)
    <3>1. CASE v = w /\ q = p
      <4>1. view'[v][q] = balance[p]
        BY <2>1, <2>2, <3>1 DEF TypeOK
      <4>2. LedgerSum(rows[w], p, b) = 0
        BY <2>2, UnheldSum
      <4>3. balance[p][b] \in Int
        BY <2>2 DEF TypeOK, BalanceRow
      <4>4. QED
        BY <2>3, <3>1, <4>1, <4>2, <4>3
    <3>2. CASE ~(v = w /\ q = p)
      <4>1. q \in locked[v] /\ view'[v][q] = view[v][q]
        BY <2>1, <2>2, <2>4, <3>2 DEF TypeOK
      <4>2. QED
        BY <2>3, <4>1 DEF BooksAgree
    <3>3. QED
      BY <3>1, <3>2
  <2>8. QED
    BY <2>1, <2>5, <2>6, <2>7, TakeRowExclusive DEF BooksAgree
<1>2. ASSUME NEW w \in Worker, Replay(w) PROVE BooksAgree'
  <2> DEFINE p == Head(legs[w]).project
  <2>1. p \in Project
    <3>1. Head(legs[w]) \in Entry
      BY <1>2 DEF Replay, TypeOK
    <3>2. QED
      BY <3>1, EntryFields
  <2>2. TakeRow(w, p) /\ view' = [view EXCEPT ![w][p] = RowSeen(w, p)]
    BY <1>2 DEF Replay
  <2>3. UNCHANGED <<ledger, balance, rows>>
    BY <1>2 DEF Replay, bookVars
  <2>4. locked' = [locked EXCEPT ![w] = @ \cup {p}]
    BY <2>2 DEF TakeRow
  <2>5. NoDrift'
    BY <2>3 DEF BooksAgree, NoDrift
  <2>6. \A v \in Worker : \A i \in 1..Len(rows'[v]) : rows'[v][i].project \in locked'[v]
    BY <2>3, <2>4 DEF BooksAgree, TypeOK
  <2>7. ASSUME NEW v \in Worker, NEW q \in locked'[v], NEW b \in Bucket
        PROVE  view'[v][q][b] = balance'[q][b] + LedgerSum(rows'[v], q, b)
    <3> HIDE DEF p
    <3>1. CASE v = w /\ q = p
      <4>1. view'[v][q] = RowSeen(w, p)
        BY <2>1, <2>2, <3>1 DEF TypeOK
      <4>2. QED
        BY <2>1, <2>3, <3>1, <4>1, RowSeenSum
    <3>2. CASE ~(v = w /\ q = p)
      <4>1. q \in locked[v] /\ view'[v][q] = view[v][q]
        BY <2>1, <2>2, <2>4, <3>2 DEF TypeOK
      <4>2. QED
        BY <2>3, <4>1 DEF BooksAgree
    <3>3. QED
      BY <3>1, <3>2
  <2>8. QED
    BY <2>2, <2>5, <2>6, <2>7, TakeRowExclusive DEF BooksAgree
<1>3. ASSUME NEW w \in Worker, Post(w) PROVE BooksAgree'
  <2> DEFINE leg == Head(legs[w])
             amount == Quantize(leg.amount)
             p == leg.project
             new == [leg EXCEPT !.amount = amount]
  <2>1. leg \in Entry
    BY <1>3 DEF Post, TypeOK
  <2>2. p \in Project /\ leg.bucket \in Bucket /\ leg.amount \in Int /\ amount \in Int
    BY <2>1, EntryFields, QuantizeInt
  <2>3. new \in Entry /\ new.project = p /\ new.bucket = leg.bucket /\ new.amount = amount
    BY <2>1, <2>2 DEF Entry
  <2>4. /\ TakeRow(w, p)
        /\ rows' = [rows EXCEPT ![w] = Append(@, new)]
        /\ view' = [view EXCEPT ![w][p] = [RowSeen(w, p) EXCEPT ![leg.bucket] = @ + amount]]
    BY <1>3 DEF Post
  <2>5. UNCHANGED <<ledger, balance>>
    BY <1>3 DEF Post, bookVars
  <2>6. locked' = [locked EXCEPT ![w] = @ \cup {p}]
    BY <2>4 DEF TakeRow
  <2>7. NoDrift'
    BY <2>5 DEF BooksAgree, NoDrift
  <2>8. ASSUME NEW v \in Worker, NEW i \in 1..Len(rows'[v])
        PROVE  rows'[v][i].project \in locked'[v]
    <3> HIDE DEF new, p, amount, leg
    <3>1. CASE v = w
      <4>1. rows'[w] = Append(rows[w], new) /\ rows[w] \in Seq(Entry) /\ locked'[w] = locked[w] \cup {p}
        BY <2>4, <2>6 DEF TypeOK
      <4>2. \A j \in 1..Len(rows[w]) : rows[w][j].project \in locked[w]
        BY DEF BooksAgree
      <4>3. QED
        BY <2>3, <3>1, <4>1, <4>2
    <3>2. CASE v # w
      <4>1. rows'[v] = rows[v] /\ locked'[v] = locked[v]
        BY <2>4, <2>6, <3>2 DEF TypeOK
      <4>2. QED
        BY <4>1 DEF BooksAgree
    <3>3. QED
      BY <3>1, <3>2
  <2>9. ASSUME NEW v \in Worker, NEW q \in locked'[v], NEW b \in Bucket
        PROVE  view'[v][q][b] = balance'[q][b] + LedgerSum(rows'[v], q, b)
    <3> HIDE DEF new, p, amount, leg
    <3>1. CASE v = w
      <4>1. rows'[w] = Append(rows[w], new) /\ rows[w] \in Seq(Entry)
        BY <2>4 DEF TypeOK
      <4>2. LedgerSum(rows'[w], q, b) = LedgerSum(rows[w], q, b) + Contribution(new, q, b)
        BY <2>3, <4>1, EntryAmounts, LedgerSumAppend
      <4>3. LedgerSum(rows[w], q, b) \in Int
        BY <4>1, EntryAmounts, LedgerSumInt
      <4>4. q \in Project
        BY <2>2, <2>6 DEF TypeOK
      <4>5. RowSeen(w, q)[b] = balance[q][b] + LedgerSum(rows[w], q, b)
        BY <4>4, RowSeenSum
      <4>6. balance[q][b] \in Int
        BY <4>4 DEF TypeOK, BalanceRow
      <4>7. CASE q = p
        <5>1. view'[w][p] = [RowSeen(w, p) EXCEPT ![leg.bucket] = @ + amount]
          BY <2>2, <2>4 DEF TypeOK
        <5>2. RowSeen(w, p) \in [Bucket -> Int]
          BY <2>2, RowSeenType DEF BalanceRow
        <5>3. view'[w][p][b] = RowSeen(w, p)[b] + Contribution(new, p, b)
          BY <2>2, <2>3, <5>1, <5>2 DEF Contribution
        <5>4. Contribution(new, p, b) \in Int
          BY <2>2, <2>3 DEF Contribution
        <5>5. QED
          BY <2>5, <3>1, <4>2, <4>3, <4>5, <4>6, <4>7, <5>3, <5>4
      <4>8. CASE q # p
        <5>1. q \in locked[w] /\ view'[w][q] = view[w][q]
          BY <2>4, <2>6, <3>1, <4>8 DEF TypeOK
        <5>2. Contribution(new, q, b) = 0
          BY <2>3, <4>8 DEF Contribution
        <5>3. RowSeen(w, q) = view[w][q]
          BY <5>1 DEF RowSeen
        <5>4. QED
          BY <2>5, <3>1, <4>2, <4>3, <4>5, <5>1, <5>2, <5>3
      <4>9. QED
        BY <4>7, <4>8
    <3>2. CASE v # w
      <4>1. rows'[v] = rows[v] /\ q \in locked[v] /\ view'[v] = view[v]
        BY <2>4, <2>6, <3>2 DEF TypeOK
      <4>2. QED
        BY <2>5, <4>1 DEF BooksAgree
    <3>3. QED
      BY <3>1, <3>2
  <2>10. QED
    BY <2>4, <2>7, <2>8, <2>9, TakeRowExclusive, SMTT(20) DEF BooksAgree
<1>4. ASSUME NEW w \in Worker, Commit(w) PROVE BooksAgree'
  <2>1. /\ ledger' = ledger \o rows[w]
        /\ balance' = [p \in Project |-> IF p \in locked[w] THEN view[w][p] ELSE balance[p]]
        /\ EndTransaction(w)
    BY <1>4 DEF Commit
  <2>2. /\ \A v \in Worker : locked'[v] = IF v = w THEN {} ELSE locked[v]
        /\ \A v \in Worker : rows'[v] = IF v = w THEN <<>> ELSE rows[v]
        /\ \A v \in Worker : v # w => view'[v] = view[v]
    BY <2>1 DEF EndTransaction, TypeOK
  <2>3. ASSUME NEW p \in Project, NEW b \in Bucket
        PROVE  balance'[p][b] = LedgerSum(ledger', p, b)
    <3>1. ledger \in Seq(Entry) /\ rows[w] \in Seq(Entry)
      BY DEF TypeOK
    <3>2. LedgerSum(ledger', p, b) = LedgerSum(ledger, p, b) + LedgerSum(rows[w], p, b)
      BY <2>1, <3>1, EntryAmounts, LedgerSumConcat
    <3>3. balance[p][b] = LedgerSum(ledger, p, b)
      BY DEF BooksAgree, NoDrift
    <3>4. balance'[p][b] = RowSeen(w, p)[b]
      BY <2>1 DEF RowSeen
    <3>5. QED
      BY <3>2, <3>3, <3>4, RowSeenSum
  <2>4. ASSUME NEW v \in Worker, NEW q \in locked'[v], NEW b \in Bucket
        PROVE  view'[v][q][b] = balance'[q][b] + LedgerSum(rows'[v], q, b)
    <3>1. v # w /\ q \in locked[v] /\ rows'[v] = rows[v] /\ view'[v] = view[v]
      BY <2>2, <2>4
    <3>2. q \notin locked[w] /\ q \in Project
      BY <3>1 DEF BooksAgree, TypeOK
    <3>3. balance'[q] = balance[q]
      BY <2>1, <3>2
    <3>4. QED
      BY <3>1, <3>3 DEF BooksAgree
  <2>5. \A v \in Worker : \A i \in 1..Len(rows'[v]) : rows'[v][i].project \in locked'[v]
    BY <2>2 DEF BooksAgree
  <2>6. \A u, v \in Worker : u # v => locked'[u] \cap locked'[v] = {}
    BY <2>2 DEF BooksAgree
  <2>7. QED
    BY <2>3, <2>4, <2>5, <2>6 DEF BooksAgree, NoDrift
<1>5. ASSUME NEW w \in Worker, Abort(w) PROVE BooksAgree'
  <2>1. /\ \A v \in Worker : locked'[v] = IF v = w THEN {} ELSE locked[v]
        /\ \A v \in Worker : rows'[v] = IF v = w THEN <<>> ELSE rows[v]
        /\ \A v \in Worker : v # w => view'[v] = view[v]
        /\ UNCHANGED <<ledger, balance>>
    BY <1>5 DEF Abort, EndTransaction, TypeOK, bookVars
  <2>2. NoDrift'
    BY <2>1 DEF BooksAgree, NoDrift
  <2>3. \A v \in Worker : \A i \in 1..Len(rows'[v]) : rows'[v][i].project \in locked'[v]
    BY <2>1 DEF BooksAgree
  <2>4. \A u, v \in Worker : u # v => locked'[u] \cap locked'[v] = {}
    BY <2>1 DEF BooksAgree
  <2>5. ASSUME NEW v \in Worker, NEW q \in locked'[v], NEW b \in Bucket
        PROVE  view'[v][q][b] = balance'[q][b] + LedgerSum(rows'[v], q, b)
    <3>1. v # w /\ q \in locked[v] /\ rows'[v] = rows[v] /\ view'[v] = view[v]
      BY <2>1, <2>5
    <3>2. QED
      BY <2>1, <3>1 DEF BooksAgree
  <2>6. QED
    BY <2>2, <2>3, <2>4, <2>5 DEF BooksAgree
<1>6. ASSUME UNCHANGED <<ledger, balance, locked, view, rows>> PROVE BooksAgree'
  BY <1>6 DEF BooksAgree, NoDrift
<1>7. ASSUME NEW w \in Worker, Receive(w) \/ Plan(w)
      PROVE  UNCHANGED <<ledger, balance, locked, view, rows>>
  BY <1>7 DEF Receive, Begin, Plan, bookVars
<1>8. ASSUME \/ \E d \in Date : ClosePeriod(d) \/ ReopenPeriod(d)
             \/ NextDay
             \/ \E m \in FundingMode : SetFundingMode(m)
             \/ \E b \in OverdraftValues : SetOverdraft(b)
             \/ \E p \in Project, to \in Status, o \in BOOLEAN : Transition(p, to, o)
      PROVE  UNCHANGED <<ledger, balance, locked, view, rows>>
  BY <1>8 DEF ClosePeriod, ReopenPeriod, NextDay, SetFundingMode, SetOverdraft, Transition,
              bookVars, txVars
<1>9. CASE UNCHANGED vars
  BY <1>6, <1>9 DEF vars
<1>10. QED
  BY <1>1, <1>2, <1>3, <1>4, <1>5, <1>6, <1>7, <1>8, <1>9 DEF Next

\* Stored balances equal the ledger's sums in every reachable state: the nightly
\* reconciliation finds no drift, for any number of concurrent transactions,
\* crashes and retries.
THEOREM BalancesReconcile == Spec => []NoDrift
<1>1. BooksAgree => NoDrift
  BY DEF BooksAgree
<1>2. QED
  BY TypeInit, TypeStep, BooksInit, BooksStep, <1>1, PTL DEF Spec

-----------------------------------------------------------------------------
(* No overdraft.                                                             *)

LEMMA FundsInit == Init => FundsCovered
<1>1. Available(ZeroRow) = 0
  BY DEF Available, ZeroRow, Bucket
<1>2. QED
  BY <1>1 DEF Init, FundsCovered

LEMMA AvailableInt == ASSUME NEW r \in BalanceRow PROVE Available(r) \in Int
  BY DEF Available, BalanceRow, Bucket

\* What is available after a posting is what post_entry projected.
LEMMA AvailableAfter ==
    ASSUME NEW r \in BalanceRow, NEW b \in Bucket, NEW a \in Int
    PROVE  Available([r EXCEPT ![b] = @ + a]) =
             IF b = "allocated" THEN Available(r) + a ELSE Available(r) - a
  BY DEF Available, BalanceRow, Bucket

LEMMA FundsStep == TypeOK /\ FundsCovered /\ [Next]_vars => FundsCovered'
<1> SUFFICES ASSUME TypeOK, FundsCovered, [Next]_vars, TRUE \notin OverdraftValues
             PROVE  /\ \A p \in Project : Available(balance'[p]) >= 0
                    /\ \A w \in Worker : \A p \in locked'[w] : Available(view'[w][p]) >= 0
  BY DEF FundsCovered
<1>0. /\ \A p \in Project : Available(balance[p]) >= 0
      /\ \A w \in Worker : \A p \in locked[w] : Available(view[w][p]) >= 0
  BY DEF FundsCovered
<1>1. ASSUME NEW w \in Worker, NEW p \in Project, TakeRow(w, p), NEW r \in BalanceRow,
             view' = [view EXCEPT ![w][p] = r], Available(r) >= 0, balance' = balance
      PROVE  /\ \A q \in Project : Available(balance'[q]) >= 0
             /\ \A v \in Worker : \A q \in locked'[v] : Available(view'[v][q]) >= 0
  <2>1. ASSUME NEW v \in Worker, NEW q \in locked'[v] PROVE Available(view'[v][q]) >= 0
    <3>1. CASE v = w /\ q = p
      <4>1. view'[v][q] = r
        BY <1>1, <3>1 DEF TypeOK
      <4>2. QED
        BY <1>1, <4>1
    <3>2. CASE ~(v = w /\ q = p)
      <4>1. q \in locked[v] /\ view'[v][q] = view[v][q]
        BY <1>1, <3>2 DEF TypeOK, TakeRow
      <4>2. QED
        BY <1>0, <4>1
    <3>3. QED
      BY <3>1, <3>2
  <2>2. QED
    BY <1>0, <1>1, <2>1
<1>2. ASSUME NEW w \in Worker, NEW p \in Project
      PROVE  RowSeen(w, p) \in BalanceRow /\ Available(RowSeen(w, p)) >= 0
  BY <1>0, RowSeenType DEF RowSeen
<1>3. ASSUME NEW w \in Worker, Lock(w)
      PROVE  /\ \A p \in Project : Available(balance'[p]) >= 0
             /\ \A v \in Worker : \A p \in locked'[v] : Available(view'[v][p]) >= 0
  <2>1. PICK p \in NextRow(w) : TakeRow(w, p) /\ view' = [view EXCEPT ![w][p] = balance[p]]
    BY <1>3 DEF Lock
  <2>2. p \in Project
    BY <1>3, <2>1, NeedsType DEF Lock
  <2>3. balance[p] \in BalanceRow /\ Available(balance[p]) >= 0 /\ balance' = balance
    BY <1>0, <1>3, <2>2 DEF Lock, TypeOK, bookVars
  <2>4. QED
    BY <1>1, <2>1, <2>2, <2>3
<1>4. ASSUME NEW w \in Worker, Replay(w)
      PROVE  /\ \A p \in Project : Available(balance'[p]) >= 0
             /\ \A v \in Worker : \A p \in locked'[v] : Available(view'[v][p]) >= 0
  <2> DEFINE p == Head(legs[w]).project
  <2>1. p \in Project
    <3>1. Head(legs[w]) \in Entry
      BY <1>4 DEF Replay, TypeOK
    <3>2. QED
      BY <3>1, EntryFields
  <2>2. TakeRow(w, p) /\ view' = [view EXCEPT ![w][p] = RowSeen(w, p)] /\ balance' = balance
    BY <1>4 DEF Replay, bookVars
  <2>3. QED
    <3> HIDE DEF p
    <3>1. QED
      BY <1>1, <1>2, <2>1, <2>2
<1>5. ASSUME NEW w \in Worker, Post(w)
      PROVE  /\ \A p \in Project : Available(balance'[p]) >= 0
             /\ \A v \in Worker : \A p \in locked'[v] : Available(view'[v][p]) >= 0
  <2> DEFINE leg == Head(legs[w])
             amount == Quantize(leg.amount)
             p == leg.project
             seen == RowSeen(w, p)
             row == [seen EXCEPT ![leg.bucket] = @ + amount]
  <2>1. leg \in Entry
    BY <1>5 DEF Post, TypeOK
  <2>2. p \in Project /\ leg.bucket \in Bucket /\ amount \in Int
    BY <2>1, EntryFields, QuantizeInt
  <2>3. /\ TakeRow(w, p) /\ view' = [view EXCEPT ![w][p] = row] /\ balance' = balance
        /\ FundsAvailable(w, leg, amount)
    BY <1>5 DEF Post, bookVars
  <2>4. overdraft = FALSE
    BY LedgerAssumption DEF TypeOK
  <2>5. seen \in BalanceRow /\ Available(seen) >= 0 /\ Available(seen) \in Int
    BY <1>2, <2>2, AvailableInt
  <2>6. row \in BalanceRow
    BY <2>2, <2>5 DEF BalanceRow
  <2>7. Available(row) = IF leg.bucket = "allocated" THEN Available(seen) + amount
                                                     ELSE Available(seen) - amount
    <3> HIDE DEF seen, amount, leg
    <3>1. QED
      BY <2>2, <2>5, AvailableAfter
  <2>8. Available(row) >= 0
    <3>1. LET projected == IF leg.bucket = "allocated" THEN Available(seen) + amount
                                                       ELSE Available(seen) - amount
          IN  ~(projected < Available(seen) /\ projected < 0)
      BY <2>3, <2>4 DEF FundsAvailable
    <3> HIDE DEF seen, amount, leg, row
    <3>2. QED
      BY <2>2, <2>5, <2>7, <3>1
  <2>9. QED
    <3> HIDE DEF row, p
    <3>1. QED
      BY <1>1, <2>2, <2>3, <2>6, <2>8
<1>6. ASSUME NEW w \in Worker, Commit(w) \/ Abort(w)
      PROVE  /\ \A p \in Project : Available(balance'[p]) >= 0
             /\ \A v \in Worker : \A p \in locked'[v] : Available(view'[v][p]) >= 0
  <2>1. EndTransaction(w)
    BY <1>6 DEF Commit, Abort
  <2>2. \A v \in Worker : \A p \in locked'[v] : p \in locked[v] /\ view'[v] = view[v]
    BY <2>1 DEF EndTransaction, TypeOK
  <2>3. \A p \in Project : \/ balance'[p] = balance[p]
                           \/ p \in locked[w] /\ balance'[p] = view[w][p]
    BY <1>6 DEF Commit, Abort, bookVars
  <2>4. QED
    BY <1>0, <2>2, <2>3
<1>7. ASSUME UNCHANGED <<balance, locked, view>>
      PROVE  /\ \A p \in Project : Available(balance'[p]) >= 0
             /\ \A v \in Worker : \A p \in locked'[v] : Available(view'[v][p]) >= 0
  BY <1>0, <1>7
<1>8. ASSUME NEW w \in Worker, Receive(w) \/ Plan(w) PROVE UNCHANGED <<balance, locked, view>>
  BY <1>8 DEF Receive, Begin, Plan, bookVars
<1>9. ASSUME \/ \E d \in Date : ClosePeriod(d) \/ ReopenPeriod(d)
             \/ NextDay
             \/ \E m \in FundingMode : SetFundingMode(m)
             \/ \E b \in OverdraftValues : SetOverdraft(b)
             \/ \E p \in Project, to \in Status, o \in BOOLEAN : Transition(p, to, o)
      PROVE  UNCHANGED <<balance, locked, view>>
  BY <1>9 DEF ClosePeriod, ReopenPeriod, NextDay, SetFundingMode, SetOverdraft, Transition,
              bookVars, txVars
<1>10. CASE UNCHANGED vars
  BY <1>7, <1>10 DEF vars
<1>11. QED
  BY <1>3, <1>4, <1>5, <1>6, <1>7, <1>8, <1>9, <1>10 DEF Next

\* Unless an administrator ever allows negative budgets, no interleaving of
\* postings spends more than a project has available.
THEOREM BudgetsNotOverdrawn == Spec => []NoOverdraft
<1>1. FundsCovered => NoOverdraft
  BY DEF FundsCovered, NoOverdraft
<1>2. QED
  BY TypeInit, TypeStep, FundsInit, FundsStep, <1>1, PTL DEF Spec

-----------------------------------------------------------------------------
(* Postings stay within open periods and running projects.                   *)

LEMMA GuardedInit == Init => PostingsGuarded
  BY DEF Init, PostingsGuarded

\* Every planned hold names the bucket of its type.
LEMMA LegsBucketed ==
    ASSUME TypeOK, NEW w \in Worker, stage[w] # "idle",
           NEW i \in 1..Len(PlannedLegs(w)), PlannedLegs(w)[i].type \in HoldTypes
    PROVE  PlannedLegs(w)[i].bucket = BucketForType[PlannedLegs(w)[i].type]
<1> DEFINE c == cmd[w]
<1> USE DEF MakeEntry
<1>1. \A t, p, a, k, d : /\ Typed(t, p, a, k, d).bucket = BucketForType[t]
                         /\ Typed(t, p, a, k, d).type = t
  BY DEF Typed
<1>2. \A p, a, lk, k, d : TransferLeg(p, a, lk, k, d).type = "transfer"
  BY <1>1 DEF TransferLeg, Typed
<1>3. \A n, a, k, d : ReleaseOf(n, a, k, d).type = "release"
  BY DEF ReleaseOf
<1>4. c.op \in PostingOps
  BY TargetType DEF Command
<1>5. CASE c.op \in {"reserve", "adjust"}
  <2> DEFINE type == IF c.op = "reserve" THEN "reservation" ELSE "adjustment"
             leg == Typed(type, c.project, c.amount, EntryKey(c.key), c.date)
  <2>1. PlannedLegs(w) = <<leg>>
    BY <1>5 DEF PlannedLegs, Releasing, Consuming
  <2>2. leg.bucket = BucketForType[type] /\ leg.type = type
    BY <1>1
  <2>3. QED
    <3> HIDE DEF leg, type
    <3>1. QED
      BY <2>1, <2>2
<1>6. ASSUME NEW path, PlannedLegs(w) = PathLegs(w, path) PROVE FALSE
  <2>1. i \in DOMAIN PathLegs(w, path)
    <3>1. PathLegs(w, path) \in Seq(Entry)
      BY <1>6, PlannedLegsType
    <3>2. QED
      BY <1>6, <3>1
  <2>2. PathLegs(w, path)[i].type = "transfer"
    BY <1>2, <2>1 DEF PathLegs
  <2>3. QED
    BY <1>6, <2>2 DEF HoldTypes
<1>7. CASE c.op = "allocate"
  <2>1. CASE FromParent(w)
    <3>1. PlannedLegs(w) = PathLegs(w, <<Parent[c.project], c.project>>)
      BY <1>7, <2>1 DEF PlannedLegs, Releasing, Consuming
    <3>2. QED
      BY <1>6, <3>1
  <2>2. CASE ~FromParent(w)
    <3> DEFINE leg == Typed("allocation", c.project, c.amount, EntryKey(c.key), c.date)
    <3>1. PlannedLegs(w) = <<leg>>
      BY <1>7, <2>2 DEF PlannedLegs, Releasing, Consuming
    <3>2. leg.type = "allocation"
      BY <1>1
    <3>3. QED
      <4> HIDE DEF leg
      <4>1. QED
        BY <3>1, <3>2 DEF HoldTypes
  <2>3. QED
    BY <2>1, <2>2
<1>8. CASE c.op = "transfer"
  <2>1. PlannedLegs(w) = PathLegs(w, TransferPath(w))
    BY <1>8 DEF PlannedLegs, Releasing, Consuming
  <2>2. QED
    BY <1>6, <2>1
<1>9. CASE c.op \in Releasing
  <2>1. PlannedLegs(w) = ReleaseLegs(w)
    BY <1>9 DEF PlannedLegs, Releasing, Consuming
  <2>2. PICK amount : \/ ReleaseLegs(w) = <<>>
                      \/ ReleaseLegs(w) = <<ReleaseOf(c.target, amount, EntryKey(c.key), today)>>
    BY DEF ReleaseLegs
  <2>3. QED
    BY <1>3, <2>1, <2>2 DEF HoldTypes
<1>10. CASE c.op \in Consuming
  <2> DEFINE known == KnownKey(w, EntryKey(c.key))
             amount == IF known THEN c.amount ELSE Quantize(c.amount)
             held == IF c.target = 0 THEN 0 ELSE Remaining(Visible(w), c.target)
             released == IF amount <= held THEN amount ELSE held
             plain == Typed(ConsumingType(c.op), c.project, amount, EntryKey(c.key), c.date)
             posting == [plain EXCEPT !.converts = c.target]
             release == ReleaseOf(c.target, released, ReleaseKey(c.key), c.date)
  <2>1. plain.type = ConsumingType(c.op) /\ plain.bucket = BucketForType[ConsumingType(c.op)]
    BY <1>1
  <2>2. posting.type = plain.type /\ posting.bucket = plain.bucket
    BY DEF Typed
  <2>3. PlannedLegs(w) = <<posting>> \/ PlannedLegs(w) = <<release, posting>>
    BY <1>10 DEF PlannedLegs, ConsumeLegs, Consuming, Releasing
  <2>4. release.type = "release"
    BY <1>3
  <2>5. QED
    <3> HIDE DEF posting, release, plain
    <3>1. QED
      BY <2>1, <2>2, <2>3, <2>4 DEF HoldTypes
<1>11. CASE c.op = "reverse_entry"
  <2>1. Len(PlannedLegs(w)) = 1 /\ PlannedLegs(w)[1].type = "reversal"
    BY <1>11 DEF PlannedLegs, ReverseLegs, Releasing, Consuming
  <2>2. QED
    BY <2>1 DEF HoldTypes
<1>12. QED
  BY <1>4, <1>5, <1>7, <1>8, <1>9, <1>10, <1>11 DEF PostingOps, Releasing, Consuming

LEMMA TailElements ==
    ASSUME NEW S, NEW s \in Seq(S), s # <<>>
    PROVE  /\ Len(s) \in Nat
           /\ Len(Tail(s)) = Len(s) - 1
           /\ \A i \in 1..(Len(s) - 1) : Tail(s)[i] = s[i + 1]
  OBVIOUS

LEMMA GuardedStep ==
    TypeOK /\ BooksAgree /\ PostingsGuarded /\ [Next]_vars => PostingsGuarded'
<1> SUFFICES ASSUME TypeOK, BooksAgree, PostingsGuarded, [Next]_vars PROVE PostingsGuarded'
  OBVIOUS
<1>1. ASSUME NEW w \in Worker, Plan(w) PROVE PostingsGuarded'
  <2>1. \A v \in Worker : legs'[v] = IF v = w THEN PlannedLegs(w) ELSE legs[v]
    BY <1>1 DEF Plan, TypeOK
  <2>2. ASSUME NEW v \in Worker, NEW i \in 1..Len(legs'[v]), legs'[v][i].type \in HoldTypes
        PROVE  legs'[v][i].bucket = BucketForType[legs'[v][i].type]
    <3>1. CASE v = w
      <4>1. stage[w] # "idle" /\ legs'[v] = PlannedLegs(w)
        BY <1>1, <2>1, <3>1 DEF Plan
      <4>2. QED
        BY <2>2, <4>1, LegsBucketed
    <3>2. CASE v # w
      BY <2>1, <2>2, <3>2 DEF PostingsGuarded
    <3>3. QED
      BY <3>1, <3>2
  <2>3. QED
    BY <1>1, <2>2 DEF Plan, PostingsGuarded, orgVars
<1>2. ASSUME NEW w \in Worker, legs[w] # <<>>, legs' = [legs EXCEPT ![w] = Tail(@)],
             NEW v \in Worker, NEW i \in 1..Len(legs'[v]), legs'[v][i].type \in HoldTypes
      PROVE  legs'[v][i].bucket = BucketForType[legs'[v][i].type]
  <2>1. CASE v = w
    <3>1. legs[w] \in Seq(Entry) /\ legs'[v] = Tail(legs[w])
      BY <1>2, <2>1 DEF TypeOK
    <3>2. Len(legs'[v]) = Len(legs[w]) - 1 /\ Len(legs[w]) \in Nat
      BY <1>2, <3>1, TailElements
    <3>3. i \in 1..(Len(legs[w]) - 1)
      BY <1>2, <3>2
    <3>4. i + 1 \in 1..Len(legs[w])
      BY <3>2, <3>3
    <3>5. legs'[v][i] = legs[w][i + 1]
      BY <1>2, <3>1, <3>3, TailElements
    <3>6. QED
      BY <1>2, <3>4, <3>5 DEF PostingsGuarded
  <2>2. CASE v # w
    BY <1>2, <2>2 DEF TypeOK, PostingsGuarded
  <2>3. QED
    BY <2>1, <2>2
<1>3. ASSUME NEW w \in Worker, Replay(w) PROVE PostingsGuarded'
  <2>1. legs[w] # <<>> /\ legs' = [legs EXCEPT ![w] = Tail(@)]
    BY <1>3 DEF Replay
  <2>2. UNCHANGED <<rows, shares, closed, status>>
    BY <1>3, SMTT(20) DEF Replay, orgVars
  <2>3. QED
    BY <1>2, <2>1, <2>2 DEF PostingsGuarded
<1>4. ASSUME NEW w \in Worker, Post(w) PROVE PostingsGuarded'
  <2> DEFINE leg == Head(legs[w])
             new == [leg EXCEPT !.amount = Quantize(leg.amount)]
  <2>1. leg \in Entry /\ legs[w] \in Seq(Entry) /\ legs[w] # <<>> /\ leg = legs[w][1]
    BY <1>4 DEF Post, TypeOK
  <2>2. new.type = leg.type /\ new.date = leg.date /\ new.project = leg.project
    BY <2>1 DEF Entry
  <2>3. /\ rows' = [rows EXCEPT ![w] = Append(@, new)]
        /\ shares' = [shares EXCEPT ![w] = IF leg.type = "release" THEN @ ELSE @ \cup {leg.date}]
        /\ PeriodOpen(leg) /\ PostingAllowed(leg, Quantize(leg.amount))
        /\ legs' = [legs EXCEPT ![w] = Tail(@)]
        /\ UNCHANGED <<status, closed>>
    BY <1>4 DEF Post, orgVars
  <2>4. leg.type \in HoldTypes => status[leg.project] \notin Ended
    <3>1. SUFFICES ASSUME leg.type \in HoldTypes PROVE status[leg.project] \notin Ended
      OBVIOUS
    <3>2. 1 \in 1..Len(legs[w])
      BY <2>1
    <3>3. leg.bucket = BucketForType[leg.type]
      BY <2>1, <3>1, <3>2 DEF PostingsGuarded
    <3>4. leg.bucket \in {"reserved", "committed", "actual"}
      BY <3>1, <3>3 DEF HoldTypes, BucketForType
    <3>5. QED
      BY <2>3, <3>1, <3>4 DEF PostingAllowed, HoldTypes, Ended
  <2>5. ASSUME NEW v \in Worker PROVE shares'[v] \cap closed' = {}
    BY <2>3 DEF PeriodOpen, PostingsGuarded, TypeOK
  <2>6. ASSUME NEW v \in Worker, NEW i \in 1..Len(rows'[v])
        PROVE  /\ rows'[v][i].type = "release" \/ rows'[v][i].date \in shares'[v]
               /\ rows'[v][i].type \in HoldTypes => status'[rows'[v][i].project] \notin Ended
    <3>1. \A j \in 1..Len(rows[v]) :
             /\ rows[v][j].type = "release" \/ rows[v][j].date \in shares[v]
             /\ rows[v][j].type \in HoldTypes => status[rows[v][j].project] \notin Ended
      BY DEF PostingsGuarded
    <3>2. shares[v] \subseteq shares'[v]
      BY <2>3 DEF TypeOK
    <3>3. CASE v = w
      <4> HIDE DEF new, leg
      <4>1. rows'[v] = Append(rows[v], new) /\ rows[v] \in Seq(Entry)
        BY <2>3, <3>3 DEF TypeOK
      <4>2. leg.type = "release" \/ leg.date \in shares'[v]
        BY <2>3, <3>3 DEF TypeOK
      <4>3. CASE i = Len(rows[v]) + 1
        <5>1. rows'[v][i] = new
          BY <4>1, <4>3
        <5>2. QED
          BY <2>2, <2>3, <2>4, <4>2, <5>1
      <4>4. CASE i # Len(rows[v]) + 1
        <5>1. i \in 1..Len(rows[v]) /\ rows'[v][i] = rows[v][i]
          BY <4>1, <4>4
        <5>2. QED
          BY <2>3, <3>1, <3>2, <5>1
      <4>5. QED
        BY <4>3, <4>4
    <3>4. CASE v # w
      <4>1. rows'[v] = rows[v]
        BY <2>3, <3>4 DEF TypeOK
      <4>2. QED
        BY <2>3, <3>1, <3>2, <4>1
    <3>5. QED
      BY <3>3, <3>4
  <2>7. QED
    BY <1>2, <2>1, <2>3, <2>5, <2>6 DEF PostingsGuarded
<1>5. ASSUME NEW w \in Worker, Commit(w) \/ Abort(w) PROVE PostingsGuarded'
  <2>1. /\ \A v \in Worker : rows'[v] = IF v = w THEN <<>> ELSE rows[v]
        /\ \A v \in Worker : legs'[v] = IF v = w THEN <<>> ELSE legs[v]
        /\ \A v \in Worker : shares'[v] = IF v = w THEN {} ELSE shares[v]
        /\ UNCHANGED <<status, closed>>
    BY <1>5 DEF Commit, Abort, EndTransaction, TypeOK, orgVars
  <2>2. QED
    BY <2>1 DEF PostingsGuarded
<1>6. ASSUME NEW p \in Project, NEW to \in Status, NEW o \in BOOLEAN, Transition(p, to, o)
      PROVE  PostingsGuarded'
  <2>1. \A v \in Worker : p \notin locked[v]
    BY <1>6 DEF Transition, TransitionLock
  <2>2. \A v \in Worker : \A i \in 1..Len(rows[v]) : rows[v][i].project # p
    BY <2>1 DEF BooksAgree
  <2>3. \A q : q # p => status'[q] = status[q]
    BY <1>6 DEF Transition, TypeOK
  <2>4. UNCHANGED <<rows, legs, shares, closed>>
    BY <1>6 DEF Transition, txVars
  <2>5. QED
    BY <2>2, <2>3, <2>4 DEF PostingsGuarded
<1>7. ASSUME NEW d \in Date, ClosePeriod(d) \/ ReopenPeriod(d) PROVE PostingsGuarded'
  <2>1. \A v \in Worker : shares[v] = {}
    BY <1>7 DEF ClosePeriod, ReopenPeriod, PeriodsShared
  <2>2. UNCHANGED <<rows, legs, shares, status>>
    BY <1>7 DEF ClosePeriod, ReopenPeriod, txVars
  <2>3. QED
    BY <2>1, <2>2 DEF PostingsGuarded
<1>8. ASSUME UNCHANGED <<rows, legs, shares, status, closed>> PROVE PostingsGuarded'
  BY <1>8 DEF PostingsGuarded
<1>9. ASSUME NEW w \in Worker, Receive(w) \/ Lock(w)
      PROVE  UNCHANGED <<rows, legs, shares, status, closed>>
  BY <1>9 DEF Receive, Begin, Lock, orgVars
<1>10. ASSUME \/ NextDay
              \/ \E m \in FundingMode : SetFundingMode(m)
              \/ \E b \in OverdraftValues : SetOverdraft(b)
       PROVE  UNCHANGED <<rows, legs, shares, status, closed>>
  BY <1>10 DEF NextDay, SetFundingMode, SetOverdraft, txVars
<1>11. CASE UNCHANGED vars
  BY <1>8, <1>11 DEF vars
<1>12. QED
  BY <1>1, <1>3, <1>4, <1>5, <1>6, <1>7, <1>8, <1>9, <1>10, <1>11 DEF Next

\* The ledger changes by a commit only.
LEMMA LedgerKept ==
    ASSUME [Next]_vars, ~\E w \in Worker : Commit(w)
    PROVE  ledger' = ledger
<1>1. ASSUME NEW w \in Worker, Receive(w) \/ Lock(w) \/ Plan(w) \/ Replay(w) \/ Post(w) \/ Abort(w)
      PROVE  ledger' = ledger
  BY <1>1 DEF Receive, Begin, Lock, Plan, Replay, Post, Abort, bookVars
<1>2. QED
  BY <1>1 DEF Next, vars, ClosePeriod, ReopenPeriod, NextDay,
              SetFundingMode, SetOverdraft, Transition, bookVars

\* What a step adds to the committed ledger is what its transaction posted.
LEMMA LedgerGrowth ==
    ASSUME TypeOK, [Next]_vars, NEW i \in (Len(ledger) + 1)..Len(ledger')
    PROVE  \E w \in Worker : \E j \in 1..Len(rows[w]) : ledger'[i] = rows[w][j]
<1>1. CASE \E w \in Worker : Commit(w)
  <2>1. PICK w \in Worker : Commit(w)
    BY <1>1
  <2>2. ledger \in Seq(Entry) /\ rows[w] \in Seq(Entry) /\ ledger' = ledger \o rows[w]
    BY <2>1 DEF Commit, TypeOK
  <2>3. i - Len(ledger) \in 1..Len(rows[w]) /\ ledger'[i] = rows[w][i - Len(ledger)]
    BY <2>2
  <2>4. QED
    BY <2>3
<1>2. CASE ~\E w \in Worker : Commit(w)
  <2>1. ledger' = ledger
    BY <1>2, LedgerKept
  <2>2. QED
    BY <2>1 DEF TypeOK
<1>3. QED
  BY <1>1, <1>2

\* However a period close and a posting interleave, nothing but a release is
\* committed into a closed period.
THEOREM PeriodsRespected == Spec => ClosedPeriodsStayClosed
<1>1. TypeOK /\ PostingsGuarded /\ [Next]_vars =>
        [ \A i \in (Len(ledger) + 1)..Len(ledger') :
            ledger'[i].type = "release" \/ ledger'[i].date \notin closed ]_vars
  <2>1. SUFFICES ASSUME TypeOK, PostingsGuarded, [Next]_vars,
                        NEW i \in (Len(ledger) + 1)..Len(ledger')
                 PROVE  ledger'[i].type = "release" \/ ledger'[i].date \notin closed
    OBVIOUS
  <2>2. PICK w \in Worker : \E j \in 1..Len(rows[w]) : ledger'[i] = rows[w][j]
    BY <2>1, LedgerGrowth
  <2>3. QED
    BY <2>1, <2>2 DEF PostingsGuarded
<1>2. QED
  BY TypeInit, TypeStep, BooksInit, BooksStep, GuardedInit, GuardedStep, <1>1, PTL
     DEF Spec, ClosedPeriodsStayClosed

\* However a status transition and a posting interleave, nothing is held or spent
\* on a project that has ended.
THEOREM EndedProjectsRespected == Spec => NoHoldsOnEndedProjects
<1>1. TypeOK /\ PostingsGuarded /\ [Next]_vars =>
        [ \A i \in (Len(ledger) + 1)..Len(ledger') :
            ledger'[i].type \in HoldTypes => status[ledger'[i].project] \notin Ended ]_vars
  <2>1. SUFFICES ASSUME TypeOK, PostingsGuarded, [Next]_vars,
                        NEW i \in (Len(ledger) + 1)..Len(ledger'), ledger'[i].type \in HoldTypes
                 PROVE  status[ledger'[i].project] \notin Ended
    OBVIOUS
  <2>2. PICK w \in Worker : \E j \in 1..Len(rows[w]) : ledger'[i] = rows[w][j]
    BY <2>1, LedgerGrowth
  <2>3. QED
    BY <2>1, <2>2 DEF PostingsGuarded
<1>2. QED
  BY TypeInit, TypeStep, BooksInit, BooksStep, GuardedInit, GuardedStep, <1>1, PTL
     DEF Spec, NoHoldsOnEndedProjects

-----------------------------------------------------------------------------
(* What a step does to the books and to the transactions' entries.           *)

\* Steps that touch none of the entries, commands or the funding mode.
LEMMA QuietSteps ==
    ASSUME [Next]_vars,
           ~\E w \in Worker : Receive(w) \/ Plan(w) \/ Replay(w) \/ Post(w) \/ Commit(w) \/ Abort(w),
           ~\E m \in FundingMode : SetFundingMode(m)
    PROVE  UNCHANGED <<ledger, rows, legs, cmd, stage, mode>>
<1>1. ASSUME NEW w \in Worker, Lock(w) PROVE UNCHANGED <<ledger, rows, legs, cmd, stage, mode>>
  BY <1>1 DEF Lock, bookVars, orgVars
<1>2. ASSUME NEW d \in Date, ClosePeriod(d) \/ ReopenPeriod(d)
      PROVE  UNCHANGED <<ledger, rows, legs, cmd, stage, mode>>
  BY <1>2 DEF ClosePeriod, ReopenPeriod, bookVars, txVars
<1>3. ASSUME NextDay \/ \E b \in OverdraftValues : SetOverdraft(b)
      PROVE  UNCHANGED <<ledger, rows, legs, cmd, stage, mode>>
  BY <1>3 DEF NextDay, SetOverdraft, bookVars, txVars
<1>4. ASSUME NEW p \in Project, NEW to \in Status, NEW o \in BOOLEAN, Transition(p, to, o)
      PROVE  UNCHANGED <<ledger, rows, legs, cmd, stage, mode>>
  BY <1>4 DEF Transition, bookVars, txVars
<1>5. CASE UNCHANGED vars
  BY <1>5 DEF vars
<1>6. QED
  BY <1>1, <1>2, <1>3, <1>4, <1>5 DEF Next

\* The entry post_entry inserts for a leg.
Inserted(leg) == [leg EXCEPT !.amount = Quantize(leg.amount)]

LEMMA InsertedFields ==
    ASSUME NEW leg \in Entry
    PROVE  /\ Inserted(leg) \in Entry
           /\ Inserted(leg).amount = Quantize(leg.amount)
           /\ Inserted(leg).type = leg.type /\ Inserted(leg).bucket = leg.bucket
           /\ Inserted(leg).project = leg.project /\ Inserted(leg).key = leg.key
           /\ Inserted(leg).group = leg.group /\ Inserted(leg).releases = leg.releases
           /\ Inserted(leg).reverses = leg.reverses
<1>1. leg.amount \in Int
  BY EntryFields
<1>2. Quantize(leg.amount) \in Int
  BY <1>1, QuantizeInt
<1>3. QED
  BY <1>2 DEF Inserted, Entry

LEMMA PlanEffect ==
    ASSUME TypeOK, NEW w \in Worker, Plan(w)
    PROVE  /\ stage[w] = "locking" /\ PlannedLegs(w) \in Seq(Entry)
           /\ \A v \in Worker : legs'[v] = IF v = w THEN PlannedLegs(w) ELSE legs[v]
           /\ \A v \in Worker : stage'[v] = IF v = w THEN "posting" ELSE stage[v]
           /\ UNCHANGED <<ledger, rows, cmd, mode, locked, view>>
  BY PlannedLegsType DEF Plan, TypeOK, bookVars, orgVars

LEMMA ReplayEffect ==
    ASSUME TypeOK, NEW w \in Worker, Replay(w)
    PROVE  /\ stage[w] = "posting" /\ legs[w] \in Seq(Entry) /\ legs[w] # <<>>
           /\ \A v \in Worker : legs'[v] = IF v = w THEN Tail(legs[w]) ELSE legs[v]
           /\ UNCHANGED <<ledger, rows, cmd, stage, mode>>
  BY DEF Replay, TypeOK, bookVars, orgVars

LEMMA PostEffect ==
    ASSUME TypeOK, NEW w \in Worker, Post(w)
    PROVE  /\ stage[w] = "posting" /\ legs[w] \in Seq(Entry) /\ legs[w] # <<>>
           /\ Head(legs[w]) = legs[w][1] /\ Head(legs[w]) \in Entry /\ 1 \in 1..Len(legs[w])
           /\ rows[w] \in Seq(Entry)
           /\ \A v \in Worker : legs'[v] = IF v = w THEN Tail(legs[w]) ELSE legs[v]
           /\ \A v \in Worker :
                rows'[v] = IF v = w THEN Append(rows[w], Inserted(Head(legs[w]))) ELSE rows[v]
           /\ KeyFree(w, Head(legs[w]).key) /\ ~KnownKey(w, Head(legs[w]).key)
           /\ SignOK(Head(legs[w]).type, Quantize(Head(legs[w]).amount))
           /\ UNCHANGED <<ledger, cmd, stage, mode>>
<1>1. /\ stage[w] = "posting" /\ legs[w] # <<>> /\ legs[w] \in Seq(Entry) /\ rows[w] \in Seq(Entry)
      /\ legs' = [legs EXCEPT ![w] = Tail(@)]
      /\ rows' = [rows EXCEPT ![w] = Append(@, Inserted(Head(legs[w])))]
      /\ KeyFree(w, Head(legs[w]).key) /\ ~KnownKey(w, Head(legs[w]).key)
      /\ SignOK(Head(legs[w]).type, Quantize(Head(legs[w]).amount))
      /\ UNCHANGED <<ledger, cmd, stage, mode>>
  BY DEF Post, TypeOK, bookVars, orgVars, Inserted
<1>2. Head(legs[w]) = legs[w][1] /\ Head(legs[w]) \in Entry /\ 1 \in 1..Len(legs[w])
  BY <1>1
<1>3. QED
  BY <1>1, <1>2 DEF TypeOK

LEMMA EndEffect ==
    ASSUME TypeOK, NEW w \in Worker, Commit(w) \/ Abort(w)
    PROVE  /\ \A v \in Worker : rows'[v] = IF v = w THEN <<>> ELSE rows[v]
           /\ \A v \in Worker : legs'[v] = IF v = w THEN <<>> ELSE legs[v]
           /\ \A v \in Worker : stage'[v] = IF v = w THEN "idle" ELSE stage[v]
           /\ \A v \in Worker : v # w => cmd'[v] = cmd[v]
           /\ ledger \in Seq(Entry) /\ rows[w] \in Seq(Entry)
           /\ Commit(w) => ledger' = ledger \o rows[w]
           /\ Abort(w) => ledger' = ledger
           /\ UNCHANGED mode
  BY DEF Commit, Abort, EndTransaction, TypeOK, orgVars, bookVars

-----------------------------------------------------------------------------
(* One posting per idempotency key.                                          *)

KeysDistinct(s) == \A i, j \in 1..Len(s) : s[i].key = s[j].key => i = j

KeysDiffer(s, t) == \A i \in 1..Len(s), j \in 1..Len(t) : s[i].key # t[j].key

\* Why OnePostingPerKey holds: the unique index covers uncommitted rows too, so
\* no two entries share a key, wherever they are.
KeysApart ==
    /\ KeysDistinct(ledger)
    /\ \A w \in Worker : KeysDistinct(rows[w]) /\ KeysDiffer(ledger, rows[w])
    /\ \A v, w \in Worker : v # w => KeysDiffer(rows[v], rows[w])

LEMMA KeysDistinctConcat ==
    ASSUME NEW s \in Seq(Entry), NEW t \in Seq(Entry),
           KeysDistinct(s), KeysDistinct(t), KeysDiffer(s, t)
    PROVE  KeysDistinct(s \o t)
<1> DEFINE u == s \o t
<1> SUFFICES ASSUME NEW i \in 1..Len(u), NEW j \in 1..Len(u), u[i].key = u[j].key PROVE i = j
  BY DEF KeysDistinct
<1>1. \A n \in 1..Len(u) : \/ n \in 1..Len(s) /\ u[n] = s[n]
                           \/ n - Len(s) \in 1..Len(t) /\ u[n] = t[n - Len(s)]
  BY ConcatElements
<1>2. Len(s) \in Nat /\ Len(t) \in Nat
  BY ConcatElements
<1> HIDE DEF u
<1>3. CASE i \in 1..Len(s) /\ u[i] = s[i] /\ j \in 1..Len(s) /\ u[j] = s[j]
  BY <1>3 DEF KeysDistinct
<1>4. CASE i - Len(s) \in 1..Len(t) /\ u[i] = t[i - Len(s)]
           /\ j - Len(s) \in 1..Len(t) /\ u[j] = t[j - Len(s)]
  <2>1. i - Len(s) = j - Len(s)
    BY <1>4 DEF KeysDistinct
  <2>2. QED
    BY <1>2, <2>1
<1>5. QED
  BY <1>1, <1>3, <1>4 DEF KeysDiffer

LEMMA KeysDifferConcat ==
    ASSUME NEW s \in Seq(Entry), NEW t \in Seq(Entry), NEW r,
           KeysDiffer(s, r), KeysDiffer(t, r)
    PROVE  KeysDiffer(s \o t, r)
<1>1. \A n \in 1..Len(s \o t) : \/ n \in 1..Len(s) /\ (s \o t)[n] = s[n]
                                \/ n - Len(s) \in 1..Len(t) /\ (s \o t)[n] = t[n - Len(s)]
  BY ConcatElements
<1>2. QED
  BY <1>1 DEF KeysDiffer

LEMMA KeysAppend ==
    ASSUME NEW s \in Seq(Entry), NEW e \in Entry, \A i \in 1..Len(s) : s[i].key # e.key
    PROVE  /\ KeysDistinct(s) => KeysDistinct(Append(s, e))
           /\ \A t : KeysDiffer(t, s) /\ (\A i \in 1..Len(t) : t[i].key # e.key)
                        => KeysDiffer(t, Append(s, e))
           /\ \A t : KeysDiffer(s, t) /\ (\A i \in 1..Len(t) : t[i].key # e.key)
                        => KeysDiffer(Append(s, e), t)
<1> DEFINE u == Append(s, e)
<1>1. \A n \in 1..Len(u) : \/ n \in 1..Len(s) /\ u[n] = s[n]
                           \/ n = Len(s) + 1 /\ u[n] = e
  BY AppendElements
<1> HIDE DEF u
<1>2. KeysDistinct(s) => KeysDistinct(u)
  BY <1>1 DEF KeysDistinct
<1>3. \A t : KeysDiffer(t, s) /\ (\A i \in 1..Len(t) : t[i].key # e.key) => KeysDiffer(t, u)
  BY <1>1 DEF KeysDiffer
<1>4. \A t : KeysDiffer(s, t) /\ (\A i \in 1..Len(t) : t[i].key # e.key) => KeysDiffer(u, t)
  BY <1>1 DEF KeysDiffer
<1>5. QED
  BY <1>2, <1>3, <1>4 DEF u

LEMMA KeysInit == Init => KeysApart
  BY DEF Init, KeysApart, KeysDistinct, KeysDiffer

LEMMA KeysStep == TypeOK /\ KeysApart /\ [Next]_vars => KeysApart'
<1> SUFFICES ASSUME TypeOK, KeysApart, [Next]_vars PROVE KeysApart'
  OBVIOUS
<1>1. ASSUME NEW w \in Worker, Post(w) PROVE KeysApart'
  <2> DEFINE leg == Head(legs[w])
             e == Inserted(leg)
  <2>1. leg \in Entry /\ e \in Entry /\ e.key = leg.key /\ rows[w] \in Seq(Entry)
    BY <1>1, PostEffect, InsertedFields
  <2>2. /\ \A v \in Worker : rows'[v] = IF v = w THEN Append(rows[w], e) ELSE rows[v]
        /\ ledger' = ledger
        /\ KeyFree(w, leg.key) /\ ~KnownKey(w, leg.key)
    BY <1>1, PostEffect
  <2> HIDE DEF leg, e
  <2>3. /\ \A i \in 1..Len(ledger) : ledger[i].key # e.key
        /\ \A i \in 1..Len(rows[w]) : rows[w][i].key # e.key
    <3>1. ledger \in Seq(Entry)
      BY DEF TypeOK
    <3>2. /\ \A i \in 1..Len(ledger) : i \in 1..Len(Visible(w)) /\ Visible(w)[i] = ledger[i]
          /\ \A i \in 1..Len(rows[w]) : /\ Len(ledger) + i \in 1..Len(Visible(w))
                                        /\ Visible(w)[Len(ledger) + i] = rows[w][i]
      BY <2>1, <3>1, ConcatElements DEF Visible
    <3>3. QED
      BY <2>1, <2>2, <3>2 DEF KnownKey
  <2>4. \A v \in Worker \ {w} : \A i \in 1..Len(rows[v]) : rows[v][i].key # e.key
    BY <2>1, <2>2 DEF KeyFree
  <2>5. KeysDistinct(Append(rows[w], e)) /\ KeysDiffer(ledger, Append(rows[w], e))
    BY <2>1, <2>3, KeysAppend DEF KeysApart
  <2>6. \A v \in Worker \ {w} : /\ KeysDiffer(rows[v], Append(rows[w], e))
                                /\ KeysDiffer(Append(rows[w], e), rows[v])
    BY <2>1, <2>3, <2>4, KeysAppend DEF KeysApart
  <2>7. QED
    BY <2>2, <2>5, <2>6 DEF KeysApart
<1>2. ASSUME NEW w \in Worker, Commit(w) PROVE KeysApart'
  <2>1. /\ \A v \in Worker : rows'[v] = IF v = w THEN <<>> ELSE rows[v]
        /\ ledger \in Seq(Entry) /\ rows[w] \in Seq(Entry) /\ ledger' = ledger \o rows[w]
    BY <1>2, EndEffect
  <2>2. KeysDistinct(ledger')
    BY <2>1, KeysDistinctConcat DEF KeysApart
  <2>3. \A v \in Worker : v # w => KeysDiffer(ledger', rows[v])
    BY <2>1, KeysDifferConcat DEF KeysApart
  <2>4. KeysDistinct(<<>>) /\ \A t : KeysDiffer(t, <<>>) /\ KeysDiffer(<<>>, t)
    BY DEF KeysDistinct, KeysDiffer
  <2>5. QED
    BY <2>1, <2>2, <2>3, <2>4 DEF KeysApart
<1>3. ASSUME NEW w \in Worker, Abort(w) PROVE KeysApart'
  <2>1. (\A v \in Worker : rows'[v] = IF v = w THEN <<>> ELSE rows[v]) /\ ledger' = ledger
    BY <1>3, EndEffect
  <2>2. KeysDistinct(<<>>) /\ \A t : KeysDiffer(t, <<>>) /\ KeysDiffer(<<>>, t)
    BY DEF KeysDistinct, KeysDiffer
  <2>3. QED
    BY <2>1, <2>2 DEF KeysApart
<1>4. ASSUME UNCHANGED <<ledger, rows>> PROVE KeysApart'
  BY <1>4 DEF KeysApart
<1>5. ASSUME NEW w \in Worker, Receive(w) \/ Plan(w) \/ Replay(w) PROVE UNCHANGED <<ledger, rows>>
  BY <1>5 DEF Receive, Begin, Plan, Replay, bookVars
<1>6. ASSUME NEW m \in FundingMode, SetFundingMode(m) PROVE UNCHANGED <<ledger, rows>>
  BY <1>6 DEF SetFundingMode, bookVars, txVars
<1>7. QED
  BY <1>1, <1>2, <1>3, <1>4, <1>5, <1>6, QuietSteps

\* However requests with one key are retried or meet, one entry is posted for it.
THEOREM PostedOncePerKey == Spec => []OnePostingPerKey
<1>1. KeysApart => OnePostingPerKey
  BY DEF KeysApart, KeysDistinct, OnePostingPerKey
<1>2. QED
  BY TypeInit, TypeStep, KeysInit, KeysStep, <1>1, PTL DEF Spec

-----------------------------------------------------------------------------
(* What a command plans.                                                     *)

\* The commands that move money between projects, leg by leg.
Moving(w) == \/ cmd[w].op = "transfer"
             \/ cmd[w].op = "allocate" /\ FromParent(w)

\* What holds of leg l, planned by w in place i.
PlannedAs(w, i, l) ==
    /\ l.type = "allocation" =>
         cmd[w].op = "allocate" /\ l.project = cmd[w].project /\ ~FromParent(w)
    /\ l.group # NoGroup => l.group = Group(cmd[w].key, FirstHop(w))
    /\ Acting(l) => i = 1
    /\ ~Acting(l) => l.type \in DOMAIN BucketForType /\ l.bucket = BucketForType[l.type]
    /\ Moving(w) => ~Acting(l)

LEMMA TypedFields ==
    ASSUME NEW t, NEW p, NEW a, NEW k, NEW d
    PROVE  LET e == Typed(t, p, a, k, d) IN
           /\ e.type = t /\ e.bucket = BucketForType[t] /\ e.project = p /\ e.amount = a
           /\ e.key = k /\ e.group = NoGroup /\ e.releases = 0 /\ e.reverses = 0
  BY DEF Typed, MakeEntry

LEMMA TransferFields ==
    ASSUME NEW p, NEW a, NEW k, NEW g, NEW d
    PROVE  LET e == TransferLeg(p, a, k, g, d) IN
           /\ e.type = "transfer" /\ e.bucket = BucketForType["transfer"]
           /\ e.key = k /\ e.group = g /\ e.releases = 0 /\ e.reverses = 0
  BY DEF TransferLeg, Typed, MakeEntry

LEMMA ReleaseFields ==
    ASSUME NEW n, NEW a, NEW k, NEW d
    PROVE  LET e == ReleaseOf(n, a, k, d) IN
           /\ e.type = "release" /\ e.bucket = ledger[n].bucket /\ e.project = ledger[n].project
           /\ e.amount = -a /\ e.key = k /\ e.group = NoGroup /\ e.releases = n /\ e.reverses = 0
  BY DEF ReleaseOf, MakeEntry

\* The posting of a conversion and the reversal of an entry.
PostingOf(w, amount) ==
    [Typed(ConsumingType(cmd[w].op), cmd[w].project, amount, EntryKey(cmd[w].key), cmd[w].date)
        EXCEPT !.converts = cmd[w].target]

ReversalOf(w) ==
    [MakeEntry("reversal", ledger[cmd[w].target].bucket, ledger[cmd[w].target].project,
               -ledger[cmd[w].target].amount, EntryKey(cmd[w].key), cmd[w].date)
        EXCEPT !.reverses = cmd[w].target]

LEMMA PostingFields ==
    ASSUME NEW w \in Worker, NEW amount
    PROVE  LET e == PostingOf(w, amount) IN
           /\ e.type = ConsumingType(cmd[w].op) /\ e.bucket = BucketForType[ConsumingType(cmd[w].op)]
           /\ e.project = cmd[w].project /\ e.amount = amount
           /\ e.key = EntryKey(cmd[w].key) /\ e.group = NoGroup /\ e.releases = 0 /\ e.reverses = 0
  BY DEF PostingOf, Typed, MakeEntry

LEMMA ReversalFields ==
    ASSUME NEW w \in Worker
    PROVE  LET e == ReversalOf(w) IN
           /\ e.type = "reversal" /\ e.bucket = ledger[cmd[w].target].bucket
           /\ e.project = ledger[cmd[w].target].project
           /\ e.amount = -ledger[cmd[w].target].amount
           /\ e.key = EntryKey(cmd[w].key) /\ e.group = NoGroup
           /\ e.releases = 0 /\ e.reverses = cmd[w].target
  BY DEF ReversalOf, MakeEntry

\* The legs of each kind of command.
LEMMA PlannedForms ==
    ASSUME TypeOK, NEW w \in Worker, stage[w] # "idle"
    PROVE  /\ cmd[w].op = "reserve" => PlannedLegs(w) =
                <<Typed("reservation", cmd[w].project, cmd[w].amount, EntryKey(cmd[w].key),
                        cmd[w].date)>>
           /\ cmd[w].op = "adjust" => PlannedLegs(w) =
                <<Typed("adjustment", cmd[w].project, cmd[w].amount, EntryKey(cmd[w].key),
                        cmd[w].date)>>
           /\ cmd[w].op = "allocate" /\ ~FromParent(w) => PlannedLegs(w) =
                <<Typed("allocation", cmd[w].project, cmd[w].amount, EntryKey(cmd[w].key),
                        cmd[w].date)>>
           /\ Moving(w) => \E path : PlannedLegs(w) = PathLegs(w, path)
           /\ cmd[w].op \in Releasing => PlannedLegs(w) = ReleaseLegs(w)
           /\ cmd[w].op \in Consuming => PlannedLegs(w) = ConsumeLegs(w)
           /\ cmd[w].op = "reverse_entry" => PlannedLegs(w) = <<ReversalOf(w)>>
           /\ \/ cmd[w].op \in {"reserve", "adjust", "reverse_entry"} \cup Releasing \cup Consuming
              \/ cmd[w].op = "allocate" /\ ~FromParent(w)
              \/ Moving(w)
<1> DEFINE op == cmd[w].op
<1>1. op \in PostingOps
  BY TargetType DEF Command
<1>2. CASE op \in {"reserve", "adjust"}
  BY <1>2 DEF PlannedLegs, Releasing, Consuming, Moving
<1>3. CASE op = "allocate"
  BY <1>3 DEF PlannedLegs, Releasing, Consuming, Moving
<1>4. CASE op = "transfer"
  BY <1>4 DEF PlannedLegs, Releasing, Consuming, Moving
<1>5. CASE op \in Releasing
  BY <1>5 DEF PlannedLegs, Releasing, Consuming, Moving
<1>6. CASE op \in Consuming
  BY <1>6 DEF PlannedLegs, Releasing, Consuming, Moving
<1>7. CASE op = "reverse_entry"
  BY <1>7 DEF PlannedLegs, ReverseLegs, ReversalOf, Releasing, Consuming, Moving
<1>8. QED
  BY <1>1, <1>2, <1>3, <1>4, <1>5, <1>6, <1>7 DEF PostingOps, Releasing, Consuming

\* A release plans nothing or one leg; a conversion one leg or a release and one.
LEMMA ReleaseForm ==
    ASSUME NEW w \in Worker
    PROVE  \/ ReleaseLegs(w) = <<>>
           \/ \E a : ReleaseLegs(w) = <<ReleaseOf(cmd[w].target, a, EntryKey(cmd[w].key), today)>>
  BY DEF ReleaseLegs

LEMMA ConsumeForm ==
    ASSUME NEW w \in Worker
    PROVE  \E a, r : \/ ConsumeLegs(w) = <<PostingOf(w, a)>>
                     \/ ConsumeLegs(w) = <<ReleaseOf(cmd[w].target, r, ReleaseKey(cmd[w].key),
                                                     cmd[w].date), PostingOf(w, a)>>
  BY DEF ConsumeLegs, PostingOf

LEMMA PlannedKinds ==
    ASSUME TypeOK, NEW w \in Worker, stage[w] # "idle"
    PROVE  \A i \in 1..Len(PlannedLegs(w)) : PlannedAs(w, i, PlannedLegs(w)[i])
<1> DEFINE c == cmd[w]
<1>1. DOMAIN BucketForType = {"allocation", "transfer", "adjustment", "reservation",
                              "commitment", "actual"}
  BY DEF BucketForType
<1>2. ASSUME NEW t \in {"reservation", "adjustment", "allocation"}, ~Moving(w),
             t = "allocation" => c.op = "allocate" /\ ~FromParent(w),
             PlannedLegs(w) = <<Typed(t, c.project, c.amount, EntryKey(c.key), c.date)>>
      PROVE  \A i \in 1..Len(PlannedLegs(w)) : PlannedAs(w, i, PlannedLegs(w)[i])
  <2> DEFINE e == Typed(t, c.project, c.amount, EntryKey(c.key), c.date)
  <2>1. /\ e.type = t /\ e.bucket = BucketForType[t] /\ e.project = c.project
        /\ e.group = NoGroup /\ e.releases = 0 /\ e.reverses = 0
    BY TypedFields
  <2>2. PlannedLegs(w) = <<e>>
    BY <1>2
  <2> HIDE DEF e
  <2>3. PlannedAs(w, 1, e)
    BY <1>1, <1>2, <2>1 DEF PlannedAs, Acting
  <2>4. QED
    BY <2>2, <2>3
<1>3. CASE Moving(w)
  <2>1. PICK path : PlannedLegs(w) = PathLegs(w, path)
    BY <1>3, PlannedForms
  <2>2. PathLegs(w, path) \in Seq(Entry)
    BY <2>1, PlannedLegsType
  <2>3. ASSUME NEW i \in 1..Len(PathLegs(w, path)) PROVE PlannedAs(w, i, PathLegs(w, path)[i])
    <3>1. i \in DOMAIN PathLegs(w, path)
      BY <2>2
    <3>2. PICK p, a, k : PathLegs(w, path)[i] =
                           TransferLeg(p, a, k, Group(c.key, FirstHop(w)), c.date)
      BY <3>1 DEF PathLegs
    <3> DEFINE e == TransferLeg(p, a, k, Group(c.key, FirstHop(w)), c.date)
    <3>3. /\ e.type = "transfer" /\ e.bucket = BucketForType["transfer"]
          /\ e.group = Group(c.key, FirstHop(w)) /\ e.releases = 0 /\ e.reverses = 0
      BY TransferFields
    <3> HIDE DEF e
    <3>4. PlannedAs(w, i, e)
      BY <1>1, <3>3 DEF PlannedAs, Acting
    <3>5. QED
      BY <3>2, <3>4 DEF e
  <2>4. QED
    BY <1>3, <2>1, <2>3
<1>4. CASE c.op \in Releasing
  <2>1. PlannedLegs(w) = ReleaseLegs(w) /\ ~Moving(w)
    BY <1>4, PlannedForms DEF Moving, Releasing
  <2>2. CASE ReleaseLegs(w) = <<>>
    BY <2>1, <2>2
  <2>3. CASE ReleaseLegs(w) # <<>>
    <3>1. PICK a : ReleaseLegs(w) = <<ReleaseOf(c.target, a, EntryKey(c.key), today)>>
      BY <2>3, ReleaseForm
    <3> DEFINE e == ReleaseOf(c.target, a, EntryKey(c.key), today)
    <3>2. e.type = "release" /\ e.group = NoGroup /\ e.releases = c.target /\ c.target # 0
      BY <1>4, ReleaseFields, TargetType
    <3>3. ReleaseLegs(w) = <<e>>
      BY <3>1
    <3> HIDE DEF e
    <3>4. PlannedAs(w, 1, e)
      BY <2>1, <3>2 DEF PlannedAs, Acting
    <3>5. QED
      BY <2>1, <3>3, <3>4
  <2>4. QED
    BY <2>2, <2>3
<1>5. CASE c.op \in Consuming
  <2>1. PlannedLegs(w) = ConsumeLegs(w) /\ ~Moving(w)
    BY <1>5, PlannedForms DEF Moving, Consuming
  <2>2. PICK a, r :
           \/ ConsumeLegs(w) = <<PostingOf(w, a)>>
           \/ ConsumeLegs(w) = <<ReleaseOf(c.target, r, ReleaseKey(c.key), c.date), PostingOf(w, a)>>
    BY ConsumeForm
  <2> DEFINE e == PostingOf(w, a)
             f == ReleaseOf(c.target, r, ReleaseKey(c.key), c.date)
  <2>3. /\ e.type = ConsumingType(c.op) /\ e.bucket = BucketForType[ConsumingType(c.op)]
        /\ e.group = NoGroup /\ e.releases = 0 /\ e.reverses = 0
    BY PostingFields
  <2>4. f.type = "release" /\ f.group = NoGroup /\ f.releases = c.target /\ f.reverses = 0
    BY ReleaseFields
  <2>5. ConsumingType(c.op) \in {"commitment", "actual"}
    BY DEF ConsumingType
  <2>6. ConsumeLegs(w) = <<e>> \/ ConsumeLegs(w) = <<f, e>>
    BY <2>2
  <2>7. ConsumeLegs(w) = <<f, e>> => c.target # 0
    <3>1. ConsumeLegs(w) = <<f, e>> => Len(ConsumeLegs(w)) = 2
      <4> HIDE DEF e, f
      <4>1. QED
        OBVIOUS
    <3>2. c.target = 0 => Len(ConsumeLegs(w)) = 1
      BY DEF ConsumeLegs
    <3>3. QED
      BY <3>1, <3>2
  <2> HIDE DEF e, f
  <2>8. PlannedAs(w, 1, e) /\ PlannedAs(w, 2, e)
    BY <1>1, <2>1, <2>3, <2>5 DEF PlannedAs, Acting
  <2>9. c.target # 0 => PlannedAs(w, 1, f)
    BY <2>1, <2>4 DEF PlannedAs, Acting
  <2>10. CASE ConsumeLegs(w) = <<e>>
    BY <2>1, <2>8, <2>10
  <2>11. CASE ConsumeLegs(w) = <<f, e>>
    BY <2>1, <2>7, <2>8, <2>9, <2>11
  <2>12. QED
    BY <2>6, <2>10, <2>11
<1>6. CASE c.op = "reverse_entry"
  <2>1. PlannedLegs(w) = <<ReversalOf(w)>> /\ ~Moving(w)
    BY <1>6, PlannedForms DEF Moving
  <2> DEFINE e == ReversalOf(w)
  <2>2. e.type = "reversal" /\ e.group = NoGroup /\ e.reverses = c.target /\ c.target # 0
    BY <1>6, ReversalFields, TargetType
  <2>3. PlannedLegs(w) = <<e>>
    BY <2>1
  <2> HIDE DEF e
  <2>4. PlannedAs(w, 1, e)
    BY <2>1, <2>2 DEF PlannedAs, Acting
  <2>5. QED
    BY <2>3, <2>4
<1>7. CASE c.op = "reserve"
  <2>1. ~Moving(w)
    BY <1>7 DEF Moving
  <2>2. QED
    BY <1>2, <1>7, <2>1, PlannedForms
<1>8. CASE c.op = "adjust"
  <2>1. ~Moving(w)
    BY <1>8 DEF Moving
  <2>2. QED
    BY <1>2, <1>8, <2>1, PlannedForms
<1>9. CASE c.op = "allocate" /\ ~FromParent(w)
  <2>1. ~Moving(w)
    BY <1>9 DEF Moving
  <2>2. QED
    BY <1>2, <1>9, <2>1, PlannedForms
<1>10. QED
  BY <1>3, <1>4, <1>5, <1>6, <1>7, <1>8, <1>9, PlannedForms

-----------------------------------------------------------------------------
(* The funding mode and the transfer groups.                                 *)

\* The number of the first leg a command plans, and whether it takes its money
\* from the parent, by the command alone.
FirstHopOf(c) ==
    IF c.op = "transfer" /\ ~( \/ Siblings(c.project, c.dest)
                               \/ Route[c.project][c.dest] = <<>>
                               \/ c.mode = "roll_up" )
    THEN 1 ELSE 0

TakesFromParent(c) == c.mode = "roll_down" /\ Parent[c.project] # 0

\* What an uncommitted entry owes to its command, wherever it stands.
Owed(st, c, e) ==
    /\ e.type = "allocation" =>
         st # "idle" /\ c.op = "allocate" /\ e.project = c.project /\ ~TakesFromParent(c)
    /\ e.group # NoGroup => st # "idle" /\ e.group = Group(c.key, FirstHopOf(c))

\* Why GroupsBalance and FundedByMode hold: a transaction's entries are of one
\* group, the group is posted whole or not at all, and an allocation keeps the
\* organization locked from when it read the mode.
CommandsKept ==
    /\ \A w \in Worker : \A i \in 1..Len(rows[w]) : Owed(stage[w], cmd[w], rows[w][i])
    /\ \A w \in Worker : \A i \in 1..Len(legs[w]) : Owed(stage[w], cmd[w], legs[w][i])
    /\ \A w \in Worker : stage[w] # "idle" /\ cmd[w].op = "allocate" => cmd[w].mode = mode

LEMMA CommandAlone ==
    ASSUME NEW w \in Worker
    PROVE  /\ FirstHop(w) = FirstHopOf(cmd[w])
           /\ FromParent(w) <=> TakesFromParent(cmd[w])
  BY DEF FirstHop, FirstHopOf, Direct, FromParent, TakesFromParent

AllGroupsBalance == \A g : g # NoGroup => GroupSum(ledger, g) = 0

LEMMA CommandsInit == Init => CommandsKept /\ AllGroupsBalance /\ FundedByMode
<1> SUFFICES ASSUME Init PROVE CommandsKept /\ AllGroupsBalance /\ FundedByMode
  OBVIOUS
<1>1. ledger = <<>> /\ \A w \in Worker : rows[w] = <<>> /\ legs[w] = <<>> /\ stage[w] = "idle"
  BY DEF Init
<1>2. Len(ledger) \in Nat /\ \A g : \A i \in 1..Len(ledger) : ledger[i].group # g
  BY <1>1
<1>3. AllGroupsBalance
  BY <1>2, GroupSumForeign DEF AllGroupsBalance
<1>4. QED
  BY <1>1, <1>3 DEF CommandsKept, FundedByMode

LEMMA CommandsStep == TypeOK /\ CommandsKept /\ [Next]_vars => CommandsKept'
<1> SUFFICES ASSUME TypeOK, CommandsKept, [Next]_vars PROVE CommandsKept'
  OBVIOUS
\* An entry owed by an idle worker is owed by any, and a running command goes on.
<1>1. \A st, c, e : Owed("idle", c, e) => \A d : Owed(st, d, e)
  BY DEF Owed
<1>2. \A st, to, c, e : to # "idle" /\ Owed(st, c, e) => Owed(to, c, e)
  BY DEF Owed
<1>3. ASSUME NEW w \in Worker, Receive(w) PROVE CommandsKept'
  <2>1. PICK c \in Requests : Begin(w, c)
    BY <1>3 DEF Receive
  <2>2. /\ UNCHANGED <<rows, legs, mode>> /\ stage[w] = "idle"
        /\ \A v \in Worker : cmd'[v] = IF v = w THEN c ELSE cmd[v]
        /\ \A v \in Worker : stage'[v] = IF v = w THEN "locking" ELSE stage[v]
    BY <2>1 DEF Begin, TypeOK, orgVars
  <2>3. c.mode = mode
    BY <2>1 DEF Requests, FundingRequests, TransferRequests, ConsumeRequests, ReleaseRequests,
                ReverseRequests, Request
  <2>4. ASSUME NEW v \in Worker, NEW e, Owed(stage[v], cmd[v], e)
        PROVE  Owed(stage'[v], cmd'[v], e)
    BY <1>1, <2>2, <2>4
  <2>5. QED
    BY <2>2, <2>3, <2>4 DEF CommandsKept
<1>4. ASSUME NEW w \in Worker, Plan(w) PROVE CommandsKept'
  <2>1. /\ stage[w] = "locking"
        /\ \A v \in Worker : legs'[v] = IF v = w THEN PlannedLegs(w) ELSE legs[v]
        /\ \A v \in Worker : stage'[v] = IF v = w THEN "posting" ELSE stage[v]
        /\ UNCHANGED <<rows, cmd, mode>>
    BY <1>4, PlanEffect
  <2>2. ASSUME NEW v \in Worker, NEW e, Owed(stage[v], cmd[v], e)
        PROVE  Owed(stage'[v], cmd'[v], e)
    BY <1>2, <2>1, <2>2
  <2>3. \A i \in 1..Len(PlannedLegs(w)) : Owed("posting", cmd[w], PlannedLegs(w)[i])
    BY <2>1, PlannedKinds, CommandAlone DEF PlannedAs, Owed
  <2>4. QED
    BY <2>1, <2>2, <2>3 DEF CommandsKept
<1>5. ASSUME NEW w \in Worker, Replay(w) \/ Post(w), NEW v \in Worker, NEW i \in 1..Len(legs'[v])
      PROVE  Owed(stage'[v], cmd'[v], legs'[v][i])
  <2>1. /\ legs[w] \in Seq(Entry) /\ legs[w] # <<>>
        /\ legs'[v] = IF v = w THEN Tail(legs[w]) ELSE legs[v]
        /\ UNCHANGED <<cmd, stage>>
    BY <1>5, ReplayEffect, PostEffect
  <2>2. PICK j \in 1..Len(legs[v]) : legs'[v][i] = legs[v][j]
    <3>1. CASE v = w
      <4>1. i \in 1..(Len(legs[w]) - 1) /\ Len(legs[w]) \in Nat
        BY <1>5, <2>1, <3>1, TailElements
      <4>2. i + 1 \in 1..Len(legs[w])
        BY <4>1
      <4>3. legs'[v][i] = legs[v][i + 1]
        BY <2>1, <3>1, <4>1, TailElements
      <4>4. QED
        BY <3>1, <4>2, <4>3
    <3>2. CASE v # w
      BY <2>1, <3>2
    <3>3. QED
      BY <3>1, <3>2
  <2>3. QED
    BY <2>1, <2>2 DEF CommandsKept
<1>6. ASSUME NEW w \in Worker, Replay(w) PROVE CommandsKept'
  <2>1. UNCHANGED <<rows, cmd, stage, mode>>
    BY <1>6, ReplayEffect
  <2>2. \A v \in Worker : \A i \in 1..Len(legs'[v]) : Owed(stage'[v], cmd'[v], legs'[v][i])
    BY <1>5, <1>6
  <2>3. QED
    BY <2>1, <2>2 DEF CommandsKept
<1>7. ASSUME NEW w \in Worker, Post(w) PROVE CommandsKept'
  <2> DEFINE leg == Head(legs[w])
             e == Inserted(leg)
  <2>1. /\ UNCHANGED <<cmd, stage, mode>>
        /\ \A v \in Worker : rows'[v] = IF v = w THEN Append(rows[w], e) ELSE rows[v]
        /\ leg = legs[w][1] /\ leg \in Entry /\ 1 \in 1..Len(legs[w]) /\ rows[w] \in Seq(Entry)
    BY <1>7, PostEffect
  <2>2. e \in Entry /\ e.type = leg.type /\ e.group = leg.group /\ e.project = leg.project
    BY <2>1, InsertedFields
  <2>3. Owed(stage[w], cmd[w], leg)
    BY <2>1 DEF CommandsKept
  <2> HIDE DEF leg, e
  <2>4. Owed(stage[w], cmd[w], e)
    BY <2>2, <2>3 DEF Owed
  <2>5. ASSUME NEW v \in Worker, NEW i \in 1..Len(rows'[v])
        PROVE  Owed(stage[v], cmd[v], rows'[v][i])
    <3>1. CASE v = w
      <4>1. rows'[v] = Append(rows[w], e) /\ i \in 1..Len(Append(rows[w], e))
        BY <2>1, <3>1
      <4>2. \/ i \in 1..Len(rows[w]) /\ rows'[v][i] = rows[w][i]
            \/ rows'[v][i] = e
        BY <2>1, <2>2, <4>1, AppendElements
      <4>3. QED
        BY <2>4, <3>1, <4>2 DEF CommandsKept
    <3>2. CASE v # w
      BY <2>1, <3>2 DEF CommandsKept
    <3>3. QED
      BY <3>1, <3>2
  <2>6. \A v \in Worker : \A i \in 1..Len(legs'[v]) : Owed(stage'[v], cmd'[v], legs'[v][i])
    BY <1>5, <1>7
  <2>7. QED
    BY <2>1, <2>5, <2>6 DEF CommandsKept
<1>8. ASSUME NEW w \in Worker, Commit(w) \/ Abort(w) PROVE CommandsKept'
  <2>1. /\ \A v \in Worker : rows'[v] = IF v = w THEN <<>> ELSE rows[v]
        /\ \A v \in Worker : legs'[v] = IF v = w THEN <<>> ELSE legs[v]
        /\ \A v \in Worker : stage'[v] = IF v = w THEN "idle" ELSE stage[v]
        /\ \A v \in Worker : v # w => cmd'[v] = cmd[v]
        /\ UNCHANGED mode
    BY <1>8, EndEffect
  <2>2. QED
    BY <2>1 DEF CommandsKept
<1>9. ASSUME NEW m \in FundingMode, SetFundingMode(m) PROVE CommandsKept'
  <2>1. UNCHANGED <<rows, legs, cmd, stage>> /\ ~OrgLocked
    BY <1>9 DEF SetFundingMode, txVars
  <2>2. \A w \in Worker : stage[w] # "idle" => cmd[w].op # "allocate"
    BY <2>1 DEF OrgLocked, OrgLockOps
  <2>3. QED
    BY <2>1, <2>2 DEF CommandsKept
<1>10. ASSUME UNCHANGED <<rows, legs, cmd, stage, mode>> PROVE CommandsKept'
  BY <1>10 DEF CommandsKept
<1>11. QED
  BY <1>3, <1>4, <1>6, <1>7, <1>8, <1>9, <1>10, QuietSteps

LEMMA GroupsStep == TypeOK /\ CommandsKept /\ AllGroupsBalance /\ [Next]_vars => AllGroupsBalance'
<1> SUFFICES ASSUME TypeOK, CommandsKept, AllGroupsBalance, [Next]_vars PROVE AllGroupsBalance'
  OBVIOUS
<1>1. ASSUME NEW w \in Worker, Commit(w), NEW g, g # NoGroup PROVE GroupSum(ledger', g) = 0
  <2>1. ledger' = ledger \o rows[w] /\ ledger \in Seq(Entry) /\ rows[w] \in Seq(Entry)
    BY <1>1, EndEffect
  <2>2. GroupSum(ledger', g) = GroupSum(ledger, g) + GroupSum(rows[w], g)
    BY <2>1, GroupSumConcat, EntryAmounts
  <2>3. GroupSum(rows[w], g) = 0
    <3>1. CASE g = Group(cmd[w].key, FirstHop(w))
      BY <1>1, <3>1 DEF Commit, LegsBalance
    <3>2. CASE g # Group(cmd[w].key, FirstHop(w))
      <4>1. \A i \in 1..Len(rows[w]) : rows[w][i].group # g
        BY <1>1, <3>2, CommandAlone DEF CommandsKept, Owed
      <4>2. Len(rows[w]) \in Nat
        BY <2>1
      <4>3. QED
        BY <4>1, <4>2, GroupSumForeign
    <3>3. QED
      BY <3>1, <3>2
  <2>4. QED
    BY <1>1, <2>2, <2>3 DEF AllGroupsBalance
<1>2. CASE \E w \in Worker : Commit(w)
  BY <1>1, <1>2 DEF AllGroupsBalance
<1>3. CASE ~\E w \in Worker : Commit(w)
  BY <1>3, LedgerKept DEF AllGroupsBalance
<1>4. QED
  BY <1>2, <1>3

\* Transfers never make or lose money, however their legs are interleaved,
\* refused or rolled back.
THEOREM TransfersBalance == Spec => []GroupsBalance
<1>1. AllGroupsBalance => GroupsBalance
  BY DEF AllGroupsBalance, GroupsBalance
<1>2. QED
  BY TypeInit, TypeStep, CommandsInit, CommandsStep, GroupsStep, <1>1, PTL DEF Spec

LEMMA FundingStep == TypeOK /\ CommandsKept /\ FundedByMode /\ [Next]_vars => FundedByMode'
<1> SUFFICES ASSUME TypeOK, CommandsKept, FundedByMode, [Next]_vars PROVE FundedByMode'
  OBVIOUS
<1>1. ASSUME NEW w \in Worker, Commit(w) PROVE FundedByMode'
  <2>1. /\ ledger' = ledger \o rows[w] /\ ledger \in Seq(Entry) /\ rows[w] \in Seq(Entry)
        /\ mode' = mode
    BY <1>1, EndEffect
  <2>2. ASSUME NEW i \in 1..Len(rows[w]), rows[w][i].type = "allocation",
               Parent[rows[w][i].project] # 0
        PROVE  mode = "roll_up"
    <3>1. /\ stage[w] # "idle" /\ cmd[w].op = "allocate"
          /\ rows[w][i].project = cmd[w].project /\ ~TakesFromParent(cmd[w])
      BY <2>2 DEF CommandsKept, Owed
    <3>2. cmd[w].mode = mode /\ mode \in FundingMode
      BY <3>1 DEF CommandsKept, TypeOK
    <3>3. QED
      BY <2>2, <3>1, <3>2 DEF TakesFromParent, FundingMode
  <2>3. \A i \in 1..Len(ledger') :
           \/ i \in 1..Len(ledger) /\ ledger'[i] = ledger[i]
           \/ i - Len(ledger) \in 1..Len(rows[w]) /\ ledger'[i] = rows[w][i - Len(ledger)]
    BY <2>1, ConcatElements
  <2>4. QED
    BY <2>1, <2>2, <2>3 DEF FundedByMode
<1>2. ASSUME NEW m \in FundingMode, SetFundingMode(m) PROVE FundedByMode'
  <2>1. ledger' = <<>>
    BY <1>2 DEF SetFundingMode, bookVars
  <2>2. QED
    BY <2>1 DEF FundedByMode
<1>3. ASSUME UNCHANGED <<ledger, mode>> PROVE FundedByMode'
  BY <1>3 DEF FundedByMode
<1>4. ASSUME NEW w \in Worker, Receive(w) \/ Plan(w) \/ Replay(w) \/ Post(w) \/ Abort(w)
      PROVE  UNCHANGED <<ledger, mode>>
  BY <1>4 DEF Receive, Begin, Plan, Replay, Post, Abort, bookVars, orgVars
<1>5. QED
  BY <1>1, <1>2, <1>3, <1>4, QuietSteps

\* A child project is funded directly only under roll_up: the mode an allocation
\* read is the mode when it commits and ever after.
THEOREM FundingFollowsMode == Spec => []FundedByMode
  BY TypeInit, TypeStep, CommandsInit, CommandsStep, FundingStep, PTL DEF Spec

-----------------------------------------------------------------------------
(* Holds: what a transaction checked under its locks is so when it commits.  *)

HasKey(s, k) == \E i \in 1..Len(s) : s[i].key = k

\* The entry inserted for leg l may be added to the entries s, unless it is
\* refused for its sign.
LegFits(s, l) == SignOK(l.type, Quantize(l.amount)) => Fits(s, Inserted(l))

\* Leg l, in place i, of a transaction that posted t and locked the projects lk.
LegKept(s, t, lk, i, l) ==
    /\ HasKey(s, l.key) \/ HasKey(t, l.key) \/ LegFits(s, l)
    /\ Acting(l) => i = 1 /\ t = <<>> /\ l.project \in lk

RowsKept(s, t) == RowsFit(s, t) /\ \A i \in 1..Len(t) : t[i].amount \in Multiples

\* Why HoldsBacked and ConstraintsNeverFire hold: the committed entries were each
\* added rightly, and what a transaction posted or still has to post fits the
\* committed entries, whatever others commit meanwhile.
HoldsKept ==
    /\ BookOK(ledger)
    /\ \A i \in 1..Len(ledger) : ledger[i].amount \in Multiples
    /\ \A w \in Worker :
         /\ stage[w] # "posting" => rows[w] = <<>> /\ legs[w] = <<>>
         /\ RowsKept(ledger, rows[w])
         /\ \A i \in 1..Len(legs[w]) : LegKept(ledger, rows[w], locked[w], i, legs[w][i])
         /\ \A p \in Project \ locked[w] : view[w][p] = ZeroRow

LEMMA EntriesAre == Entries(Entry)
  BY DEF Entries, Entry

LEMMA HoldsInit == Init => HoldsKept
<1> SUFFICES ASSUME Init PROVE HoldsKept
  OBVIOUS
<1>1. /\ ledger = <<>>
      /\ \A w \in Worker : rows[w] = <<>> /\ legs[w] = <<>> /\ stage[w] = "idle"
      /\ \A w \in Worker, p \in Project : view[w][p] = ZeroRow
  BY DEF Init
<1>2. QED
  BY <1>1, BookEmpty DEF HoldsKept, RowsKept, RowsFit

LEMMA KnownIs ==
    ASSUME TypeOK, NEW w \in Worker, NEW k
    PROVE  KnownKey(w, k) <=> HasKey(ledger, k) \/ HasKey(rows[w], k)
<1>1. ledger \in Seq(Entry) /\ rows[w] \in Seq(Entry)
  BY DEF TypeOK
<1>2. \A i \in 1..Len(ledger) : i \in 1..Len(Visible(w)) /\ Visible(w)[i] = ledger[i]
  BY <1>1, ConcatElements DEF Visible
<1>3. \A i \in 1..Len(rows[w]) : /\ Len(ledger) + i \in 1..Len(Visible(w))
                                 /\ Visible(w)[Len(ledger) + i] = rows[w][i]
  BY <1>1, ConcatElements DEF Visible
<1>4. \A i \in 1..Len(Visible(w)) :
         \/ i \in 1..Len(ledger) /\ Visible(w)[i] = ledger[i]
         \/ i - Len(ledger) \in 1..Len(rows[w]) /\ Visible(w)[i] = rows[w][i - Len(ledger)]
  BY <1>1, ConcatElements DEF Visible
<1>5. HasKey(ledger, k) => KnownKey(w, k)
  BY <1>2 DEF KnownKey, HasKey
<1>6. HasKey(rows[w], k) => KnownKey(w, k)
  BY <1>3 DEF KnownKey, HasKey
<1>7. ASSUME NEW i \in 1..Len(Visible(w)), Visible(w)[i].key = k
      PROVE  HasKey(ledger, k) \/ HasKey(rows[w], k)
  BY <1>4, <1>7 DEF HasKey
<1>8. QED
  BY <1>5, <1>6, <1>7 DEF KnownKey

\* A posting that acts on no other entry fits anywhere.
LEMMA PlainLegFits ==
    ASSUME NEW s, NEW l \in Entry, ~Acting(l),
           l.type \in DOMAIN BucketForType, l.bucket = BucketForType[l.type]
    PROVE  LegFits(s, l)
<1> DEFINE e == Inserted(l)
<1>1. /\ e.amount = Quantize(l.amount) /\ e.type = l.type /\ e.bucket = l.bucket
      /\ e.releases = l.releases /\ e.reverses = l.reverses
  BY InsertedFields
<1>2. l.type \in {"allocation", "transfer", "adjustment", "reservation", "commitment", "actual"}
  BY DEF BucketForType
<1>3. l.bucket # "allocated" => l.type \in HoldTypes
  BY <1>2 DEF BucketForType, HoldTypes
<1>4. l.type \in HoldTypes => ExpectedSign(l.type) = 1
  BY DEF ExpectedSign, HoldTypes
<1> HIDE DEF e
<1>5. SignOK(l.type, e.amount) => Formed(e)
  BY <1>1, <1>2, <1>3, <1>4 DEF Formed, SignOK, Acting
<1>6. SignOK(l.type, e.amount) => Fits(s, e)
  BY <1>1, <1>5 DEF Fits, Acting
<1>7. QED
  BY <1>1, <1>6 DEF LegFits, e

\* A release of no more than what remains fits.
LEMMA ReleaseLegFits ==
    ASSUME TypeOK, HoldsKept, NEW t \in 1..Len(ledger), NEW a \in Multiples, NEW k \in LedgerKey,
           NEW d \in Date, ledger[t].type \in {"reservation", "commitment"},
           ~IsReversed(ledger, t), a <= Remaining(ledger, t)
    PROVE  LegFits(ledger, ReleaseOf(t, a, k, d))
<1> DEFINE l == ReleaseOf(t, a, k, d)
           e == Inserted(l)
<1>0. a \in Int
  BY DEF Multiples
<1>1. l \in Entry
  BY <1>0, ReleaseOfType
<1>2. /\ l.type = "release" /\ l.bucket = ledger[t].bucket /\ l.project = ledger[t].project
      /\ l.amount = -a /\ l.releases = t /\ l.reverses = 0
  BY ReleaseFields
<1>3. Quantize(-a) = -a
  BY MultiplesClosed, MultipleIsQuantized
<1> HIDE DEF l
<1>4. /\ e.amount = -a /\ e.type = "release" /\ e.bucket = ledger[t].bucket
      /\ e.project = ledger[t].project /\ e.releases = t /\ e.reverses = 0
  BY <1>1, <1>2, <1>3, InsertedFields
<1>5. /\ ledger[t].type \in HoldTypes /\ ledger \in Seq(Entry)
      /\ BookOK(ledger) /\ Entries(Entry)
  BY EntriesAre DEF TypeOK, HoldsKept, HoldTypes
<1>6. Remaining(ledger, t) = ledger[t].amount + LiveSum(ledger, t)
  BY <1>5, RemainingIs DEF BookOK, HoldsOK
<1>7. ledger[t].amount \in Int /\ LiveSum(ledger, t) \in Int
  BY <1>5, SumsInt DEF Entries
<1>8. SignOK("release", -a) => -a < 0
  BY DEF SignOK, ExpectedSign
<1>9. ledger[t].amount + LiveSum(ledger, t) + (-a) >= 0
  BY <1>0, <1>6, <1>7
<1> HIDE DEF e
<1>10. SignOK("release", -a) => Fits(ledger, e)
  <2>1. SUFFICES ASSUME SignOK("release", -a) PROVE Fits(ledger, e)
    OBVIOUS
  <2>2. t # 0 /\ "release" \notin HoldTypes
    BY DEF HoldTypes
  <2>3. Formed(e)
    BY <1>4, <2>2 DEF Formed
  <2>4. ReleasesRightly(e, ledger[t])
    BY <1>4, <1>8, <2>1 DEF ReleasesRightly
  <2>5. QED
    BY <1>4, <1>9, <2>2, <2>3, <2>4 DEF Fits
<1>11. QED
  BY <1>2, <1>3, <1>10 DEF LegFits, l, e

\* A reversal that reverse_entry allows fits.
LEMMA ReversalLegFits ==
    ASSUME TypeOK, HoldsKept, NEW w \in Worker, stage[w] # "idle", cmd[w].target # 0,
           ledger[cmd[w].target].type # "reversal", ~IsReversed(ledger, cmd[w].target),
           ledger[cmd[w].target].type \in {"reservation", "commitment"} =>
               Remaining(ledger, cmd[w].target) >= ledger[cmd[w].target].amount
    PROVE  LegFits(ledger, ReversalOf(w))
<1> DEFINE t == cmd[w].target
           l == ReversalOf(w)
           e == Inserted(l)
<1>1. t \in 1..Len(ledger)
  BY TargetType
<1>2. /\ l.type = "reversal" /\ l.bucket = ledger[t].bucket /\ l.project = ledger[t].project
      /\ l.amount = -ledger[t].amount /\ l.releases = 0 /\ l.reverses = t
  BY ReversalFields
<1>3. l \in Entry
  <2>1. ReverseLegs(w) \in Seq(Entry)
    BY ReverseLegsType
  <2>2. ReverseLegs(w) = <<l>>
    BY DEF ReverseLegs, ReversalOf
  <2> HIDE DEF l
  <2>3. QED
    BY <2>1, <2>2
<1>4. ledger \in Seq(Entry) /\ BookOK(ledger) /\ Entries(Entry) /\ ledger[t].amount \in Multiples
  BY <1>1, EntriesAre DEF TypeOK, HoldsKept
<1>5. Quantize(-ledger[t].amount) = -ledger[t].amount
  BY <1>4, MultiplesClosed, MultipleIsQuantized
<1> HIDE DEF l, t
<1>6. /\ e.amount = -ledger[t].amount /\ e.type = "reversal" /\ e.bucket = ledger[t].bucket
      /\ e.project = ledger[t].project /\ e.releases = 0 /\ e.reverses = t
  BY <1>2, <1>3, <1>5, InsertedFields
<1> HIDE DEF e
<1>7. Unreleased(ledger, t)
  <2>1. CASE ledger[t].type \in {"reservation", "commitment"}
    <3>1. Remaining(ledger, t) = ledger[t].amount + LiveSum(ledger, t)
      BY <1>1, <1>4, RemainingIs DEF BookOK, HoldsOK, t
    <3>2. ledger[t].amount \in Int /\ LiveSum(ledger, t) \in Int
      BY <1>1, <1>4, SumsInt DEF Entries
    <3>3. Remaining(ledger, t) >= ledger[t].amount
      BY <2>1 DEF t
    <3>4. LiveSum(ledger, t) >= 0
      BY <3>1, <3>2, <3>3
    <3>5. QED
      BY <1>1, <1>4, <3>4, LiveBelowEach DEF BookOK
  <2>2. CASE ledger[t].type \notin {"reservation", "commitment"}
    BY <1>1, <1>4, <2>2 DEF Unreleased, BookOK, LineageOK, ReleasesRightly
  <2>3. QED
    BY <2>1, <2>2
<1>8. t # 0 /\ "reversal" \notin HoldTypes
  BY <1>1 DEF HoldTypes
<1>9. Formed(e)
  BY <1>6, <1>8 DEF Formed
<1>10. ReversesRightly(e, ledger[t]) /\ ~IsReversed(ledger, t)
  BY <1>6 DEF ReversesRightly, t
<1>11. Fits(ledger, e)
  BY <1>1, <1>6, <1>7, <1>8, <1>9, <1>10 DEF Fits
<1>12. QED
  BY <1>11 DEF LegFits, e, l

\* The rows a command that acts on an entry has locked when it plans.
LEMMA TargetLocked ==
    ASSUME TypeOK, NEW w \in Worker, Plan(w), cmd[w].op \in Releasing \cup {"reverse_entry"}
    PROVE  ledger[cmd[w].target].project \in locked[w]
<1>1. Needs(w) = {ledger[cmd[w].target].project}
  BY DEF Needs, Releasing, Consuming
<1>2. QED
  BY <1>1 DEF Plan

LEMMA ReleasePlanned ==
    ASSUME TypeOK, HoldsKept, NEW w \in Worker, Plan(w), cmd[w].op \in Releasing,
           NEW i \in 1..Len(ReleaseLegs(w))
    PROVE  LegKept(ledger, rows[w], locked[w], i, ReleaseLegs(w)[i])
<1> DEFINE c == cmd[w]
           t == c.target
           k == EntryKey(c.key)
           held == Remaining(Visible(w), t)
           known == KnownKey(w, k)
           amount == IF c.amount # All THEN Quantize(c.amount)
                     ELSE IF known THEN -EntryWithKey(w, k).amount ELSE held
           l == ReleaseOf(t, amount, k, today)
<1>1. stage[w] = "locking" /\ rows[w] = <<>> /\ ledger \in Seq(Entry)
  BY DEF Plan, HoldsKept, TypeOK
<1>2. Visible(w) = ledger
  <2>1. ledger \o <<>> = ledger
    BY <1>1
  <2>2. QED
    BY <1>1, <2>1 DEF Visible
<1>3. t \in 1..Len(ledger) /\ k \in LedgerKey /\ c.amount \in Int
  BY <1>1, TargetType, KeyTypes
<1>4. ReleaseLegs(w) = IF ~known /\ held = 0 THEN <<>> ELSE <<l>>
  BY DEF ReleaseLegs
<1>5. ReleaseAllowed(w)
  BY DEF Plan, PlanAllowed, Releasing, Consuming
<1>6. ReleasedType(c.op) \in {"reservation", "commitment"}
  BY DEF ReleasedType
<1>7. ledger[t].type \in {"reservation", "commitment"}
  BY <1>5, <1>6 DEF ReleaseAllowed
<1>8. l.key = k /\ l.project = ledger[t].project
  BY ReleaseFields
<1>9. l.project \in locked[w]
  BY <1>8, TargetLocked
<1>10. ASSUME ~known PROVE LegFits(ledger, l)
  <2>1. /\ ~IsReversed(ledger, t)
        /\ c.amount # All => Quantize(c.amount) > 0
        /\ held = 0 \/ c.amount = All \/ Quantize(c.amount) <= held
    BY <1>2, <1>5, <1>10 DEF ReleaseAllowed
  <2>2. held \in Multiples /\ held \in Int
    <3>1. Len(ledger) \in Nat /\ \A j \in 1..Len(ledger) : ledger[j].amount \in Multiples
      BY <1>1 DEF HoldsKept
    <3>2. held \in Multiples
      BY <1>2, <1>3, <3>1, RemainingMultiple
    <3>3. QED
      BY <3>2 DEF Multiples
  <2>3. Quantize(c.amount) \in Multiples
    BY <1>3, QuantizedIsMultiple
  <2>4. held # 0
    <3>1. SUFFICES ASSUME held = 0 PROVE FALSE
      OBVIOUS
    <3>2. ReleaseLegs(w) = <<>>
      BY <1>4, <1>10, <3>1
    <3>3. QED
      BY <3>2
  <2>5. amount \in Multiples /\ amount <= held
    BY <1>10, <2>1, <2>2, <2>3, <2>4
  <2>6. today \in Date
    BY DEF TypeOK
  <2> HIDE DEF amount, k, t
  <2>7. QED
    BY <1>2, <1>3, <1>7, <2>1, <2>5, <2>6, ReleaseLegFits
<1>11. known => HasKey(ledger, k) \/ HasKey(rows[w], k)
  BY KnownIs
<1> HIDE DEF l, known, k
<1>12. ReleaseLegs(w) = <<l>> /\ i = 1
  BY <1>4
<1>13. ReleaseLegs(w)[i] = l
  BY <1>12
<1>14. QED
  BY <1>1, <1>8, <1>9, <1>10, <1>11, <1>12, <1>13 DEF LegKept

LEMMA ConsumePlanned ==
    ASSUME TypeOK, HoldsKept, NEW w \in Worker, Plan(w), cmd[w].op \in Consuming,
           NEW i \in 1..Len(ConsumeLegs(w)), Acting(ConsumeLegs(w)[i])
    PROVE  LegKept(ledger, rows[w], locked[w], i, ConsumeLegs(w)[i])
<1> DEFINE c == cmd[w]
           t == c.target
           known == KnownKey(w, EntryKey(c.key))
           amount == IF known THEN c.amount ELSE Quantize(c.amount)
           held == IF t = 0 THEN 0 ELSE Remaining(ledger, t)
           released == IF amount <= held THEN amount ELSE held
           l == ReleaseOf(t, released, ReleaseKey(c.key), c.date)
           e == PostingOf(w, amount)
<1>1. stage[w] = "locking" /\ rows[w] = <<>> /\ ledger \in Seq(Entry)
  BY DEF Plan, HoldsKept, TypeOK
<1>2. Visible(w) = ledger
  <2>1. ledger \o <<>> = ledger
    BY <1>1
  <2>2. QED
    BY <1>1, <2>1 DEF Visible
<1>3. /\ t \in 0..Len(ledger) /\ ReleaseKey(c.key) \in LedgerKey /\ c.amount \in Int
      /\ c.date \in Date
  BY <1>1, TargetType, KeyTypes
<1>4. ConsumeLegs(w) = IF known \/ t = 0 \/ released = 0 THEN <<e>> ELSE <<l, e>>
  BY <1>2 DEF ConsumeLegs, PostingOf
<1>5. ~Acting(e)
  BY PostingFields DEF Acting
<1>6. ~known /\ t # 0 /\ i = 1 /\ ConsumeLegs(w)[i] = l
  <2> HIDE DEF e, l, known, released, t
  <2>1. CASE ConsumeLegs(w) = <<e>>
    BY <1>5, <2>1
  <2>2. CASE ConsumeLegs(w) = <<l, e>> /\ ~known /\ t # 0
    <3>1. i = 1 \/ i = 2
      BY <2>2
    <3>2. CASE i = 2
      BY <1>5, <2>2, <3>2
    <3>3. CASE i = 1
      BY <2>2, <3>3
    <3>4. QED
      BY <3>1, <3>2, <3>3
  <2>3. QED
    BY <1>4, <2>1, <2>2
<1>7. /\ ledger[t].project = c.project /\ ledger[t].type = ConsumedType(c.op)
      /\ ~IsReversed(ledger, t)
  <2>1. ConsumeAllowed(w)
    BY DEF Plan, PlanAllowed, Consuming, Releasing
  <2>2. QED
    BY <1>2, <1>6, <2>1 DEF ConsumeAllowed
<1>8. ledger[t].type \in {"reservation", "commitment"}
  BY <1>7 DEF ConsumedType
<1>9. released \in Multiples /\ released <= Remaining(ledger, t)
  <2>1. Len(ledger) \in Nat /\ \A j \in 1..Len(ledger) : ledger[j].amount \in Multiples
    BY <1>1 DEF HoldsKept
  <2>2. held \in Multiples /\ held = Remaining(ledger, t)
    BY <1>3, <1>6, <2>1, RemainingMultiple
  <2>3. amount \in Multiples
    BY <1>3, <1>6, QuantizedIsMultiple
  <2> HIDE DEF amount, held
  <2>4. QED
    BY <2>2, <2>3 DEF Multiples
<1>10. LegFits(ledger, l)
  <2>1. t \in 1..Len(ledger)
    BY <1>3, <1>6
  <2> HIDE DEF released, t
  <2>2. QED
    BY <1>3, <1>7, <1>8, <1>9, <2>1, ReleaseLegFits
<1>11. l.project \in locked[w]
  <2>1. c.project \in Needs(w)
    BY DEF Needs, Consuming
  <2>2. l.project = c.project
    BY <1>7, ReleaseFields
  <2>3. QED
    BY <2>1, <2>2 DEF Plan
<1> HIDE DEF l
<1>12. QED
  BY <1>1, <1>6, <1>10, <1>11 DEF LegKept

LEMMA ReversalPlanned ==
    ASSUME TypeOK, HoldsKept, NEW w \in Worker, Plan(w), cmd[w].op = "reverse_entry"
    PROVE  LegKept(ledger, rows[w], locked[w], 1, ReversalOf(w))
<1> DEFINE c == cmd[w]
           l == ReversalOf(w)
<1>1. stage[w] = "locking" /\ rows[w] = <<>> /\ ledger \in Seq(Entry)
  BY DEF Plan, HoldsKept, TypeOK
<1>2. Visible(w) = ledger
  <2>1. ledger \o <<>> = ledger
    BY <1>1
  <2>2. QED
    BY <1>1, <2>1 DEF Visible
<1>3. c.target # 0
  BY <1>1, TargetType
<1>4. l.key = EntryKey(c.key) /\ l.project = ledger[c.target].project
  BY ReversalFields
<1>5. l.project \in locked[w]
  BY <1>4, TargetLocked
<1>6. ReverseAllowed(w)
  BY DEF Plan, PlanAllowed, Consuming, Releasing
<1>7. CASE KnownKey(w, EntryKey(c.key))
  <2>1. HasKey(ledger, l.key) \/ HasKey(rows[w], l.key)
    BY <1>4, <1>7, KnownIs
  <2> HIDE DEF l
  <2>2. QED
    BY <1>1, <1>5, <2>1 DEF LegKept, l
<1>8. CASE ~KnownKey(w, EntryKey(c.key))
  <2>1. /\ ledger[c.target].type # "reversal" /\ ~IsReversed(ledger, c.target)
        /\ ledger[c.target].type \in {"reservation", "commitment"} =>
             Remaining(ledger, c.target) >= ledger[c.target].amount
    BY <1>2, <1>6, <1>8 DEF ReverseAllowed
  <2>2. LegFits(ledger, l)
    BY <1>1, <1>3, <2>1, ReversalLegFits
  <2> HIDE DEF l
  <2>3. QED
    BY <1>1, <1>5, <2>2 DEF LegKept, l
<1>9. QED
  BY <1>7, <1>8

LEMMA LegsPlanned ==
    ASSUME TypeOK, HoldsKept, NEW w \in Worker, Plan(w), NEW i \in 1..Len(PlannedLegs(w))
    PROVE  LegKept(ledger, rows[w], locked[w], i, PlannedLegs(w)[i])
<1> DEFINE l == PlannedLegs(w)[i]
<1>1. stage[w] # "idle" /\ PlannedLegs(w) \in Seq(Entry)
  BY PlannedLegsType DEF Plan
<1>2. l \in Entry /\ PlannedAs(w, i, l)
  BY <1>1, PlannedKinds
<1>3. CASE ~Acting(l)
  <2> HIDE DEF l
  <2>1. LegFits(ledger, l)
    BY <1>2, <1>3, PlainLegFits DEF PlannedAs
  <2>2. QED
    BY <1>3, <2>1 DEF LegKept, l
<1>4. CASE Acting(l)
  <2>1. ~Moving(w)
    BY <1>2, <1>4 DEF PlannedAs
  <2>2. CASE cmd[w].op \in Releasing
    BY <1>1, <2>2, PlannedForms, ReleasePlanned
  <2>3. CASE cmd[w].op \in Consuming
    BY <1>1, <1>4, <2>3, PlannedForms, ConsumePlanned
  <2>4. CASE cmd[w].op = "reverse_entry"
    <3>1. PlannedLegs(w) = <<ReversalOf(w)>>
      BY <1>1, <2>4, PlannedForms
    <3>2. i = 1 /\ l = ReversalOf(w)
      BY <3>1
    <3>3. QED
      BY <2>4, <3>2, ReversalPlanned
  <2>5. ASSUME NEW t, NEW p, NEW a, NEW k, NEW d, PlannedLegs(w) = <<Typed(t, p, a, k, d)>>
        PROVE  FALSE
    <3> DEFINE e == Typed(t, p, a, k, d)
    <3>1. ~Acting(e)
      BY TypedFields DEF Acting
    <3>2. PlannedLegs(w) = <<e>>
      BY <2>5
    <3> HIDE DEF e
    <3>3. l = e
      BY <3>2
    <3>4. QED
      BY <1>4, <3>1, <3>3
  <2>6. QED
    BY <1>1, <2>1, <2>2, <2>3, <2>4, <2>5, PlannedForms
<1>5. QED
  BY <1>3, <1>4

LEMMA HasKeyAppend ==
    ASSUME NEW s \in Seq(Entry), NEW e \in Entry, NEW k, HasKey(s, k)
    PROVE  HasKey(Append(s, e), k)
<1>1. PICK i \in 1..Len(s) : s[i].key = k
  BY DEF HasKey
<1>2. i \in 1..Len(Append(s, e)) /\ Append(s, e)[i] = s[i]
  BY AppendElements
<1>3. QED
  BY <1>1, <1>2 DEF HasKey

LEMMA HasKeyConcat ==
    ASSUME NEW s \in Seq(Entry), NEW t \in Seq(Entry), NEW k, HasKey(s, k)
    PROVE  HasKey(s \o t, k)
<1>1. PICK i \in 1..Len(s) : s[i].key = k
  BY DEF HasKey
<1>2. i \in 1..Len(s \o t) /\ (s \o t)[i] = s[i]
  BY ConcatElements
<1>3. QED
  BY <1>1, <1>2 DEF HasKey

\* The legs left after the first: none acts on an entry any more.
LEMMA TailKept ==
    ASSUME TypeOK, HoldsKept, NEW w \in Worker, legs[w] # <<>>,
           NEW i \in 1..Len(Tail(legs[w])), NEW t, NEW lk,
           \A k : HasKey(rows[w], k) => HasKey(t, k)
    PROVE  LegKept(ledger, t, lk, i, Tail(legs[w])[i])
<1>1. legs[w] \in Seq(Entry)
  BY DEF TypeOK
<1>2. i \in 1..(Len(legs[w]) - 1) /\ Len(legs[w]) \in Nat /\ Tail(legs[w])[i] = legs[w][i + 1]
  BY <1>1, TailElements
<1>3. i + 1 \in 1..Len(legs[w]) /\ i + 1 # 1
  BY <1>2
<1>4. LegKept(ledger, rows[w], locked[w], i + 1, legs[w][i + 1])
  BY <1>3 DEF HoldsKept
<1>5. QED
  BY <1>2, <1>3, <1>4 DEF LegKept

LEMMA HoldsReplay ==
    ASSUME TypeOK, HoldsKept, NEW w \in Worker, Replay(w)
    PROVE  HoldsKept'
<1> DEFINE q == Head(legs[w]).project
<1>1. /\ UNCHANGED <<ledger, rows, stage>> /\ stage[w] = "posting" /\ legs[w] # <<>>
      /\ \A v \in Worker : legs'[v] = IF v = w THEN Tail(legs[w]) ELSE legs[v]
  BY ReplayEffect
<1>2. /\ locked' = [locked EXCEPT ![w] = @ \cup {q}]
      /\ view' = [view EXCEPT ![w][q] = RowSeen(w, q)]
  BY DEF Replay, TakeRow
<1> HIDE DEF q
<1>3. \A v \in Worker : locked'[v] = IF v = w THEN locked[w] \cup {q} ELSE locked[v]
  BY <1>2 DEF TypeOK
<1>4. \A v \in Worker : \A p \in Project : v # w \/ p # q => view'[v][p] = view[v][p]
  BY <1>2 DEF TypeOK
<1>5. ASSUME NEW v \in Worker, NEW i \in 1..Len(legs'[v])
      PROVE  LegKept(ledger, rows[v], locked'[v], i, legs'[v][i])
  <2>1. CASE v = w
    <3>1. legs'[v] = Tail(legs[w])
      BY <1>1, <2>1
    <3>2. QED
      BY <1>1, <1>5, <2>1, <3>1, TailKept
  <2>2. CASE v # w
    BY <1>1, <1>3, <1>5, <2>2 DEF HoldsKept
  <2>3. QED
    BY <2>1, <2>2
<1>6. \A v \in Worker : \A p \in Project \ locked'[v] : view'[v][p] = ZeroRow
  BY <1>3, <1>4 DEF HoldsKept
<1>7. \A v \in Worker : stage[v] # "posting" => rows[v] = <<>> /\ legs'[v] = <<>>
  BY <1>1 DEF HoldsKept
<1>8. QED
  BY <1>1, <1>5, <1>6, <1>7 DEF HoldsKept

LEMMA HoldsPost ==
    ASSUME TypeOK, HoldsKept, NEW w \in Worker, Post(w)
    PROVE  HoldsKept'
<1> DEFINE leg == Head(legs[w])
           q == leg.project
           e == Inserted(leg)
<1>1. /\ UNCHANGED <<ledger, stage>> /\ stage[w] = "posting" /\ legs[w] # <<>>
      /\ leg = legs[w][1] /\ leg \in Entry /\ 1 \in 1..Len(legs[w]) /\ rows[w] \in Seq(Entry)
      /\ \A v \in Worker : legs'[v] = IF v = w THEN Tail(legs[w]) ELSE legs[v]
      /\ \A v \in Worker : rows'[v] = IF v = w THEN Append(rows[w], e) ELSE rows[v]
      /\ ~KnownKey(w, leg.key) /\ SignOK(leg.type, Quantize(leg.amount))
  BY PostEffect
<1>2. /\ locked' = [locked EXCEPT ![w] = @ \cup {q}]
      /\ \E r : view' = [view EXCEPT ![w][q] = r]
  BY DEF Post, TakeRow
<1>3. /\ e \in Entry /\ e.amount = Quantize(leg.amount)
      /\ e.releases = leg.releases /\ e.reverses = leg.reverses
  BY <1>1, InsertedFields
<1>4. e.amount \in Multiples
  <2>1. leg.amount \in Int
    BY <1>1, EntryFields
  <2>2. QED
    BY <1>3, <2>1, QuantizedIsMultiple
<1>5. LegKept(ledger, rows[w], locked[w], 1, leg)
  BY <1>1 DEF HoldsKept
<1>6. Fits(ledger, e)
  BY <1>1, <1>5, KnownIs DEF LegKept, LegFits
<1>7. Acting(e) => rows[w] = <<>>
  BY <1>3, <1>5 DEF LegKept, Acting
<1> HIDE DEF q, e, leg
<1>8. RowsKept(ledger, Append(rows[w], e))
  <2>1. RowsKept(ledger, rows[w])
    BY DEF HoldsKept
  <2>2. ASSUME NEW i \in 1..Len(Append(rows[w], e))
        PROVE  LET x == Append(rows[w], e)[i] IN
               Fits(ledger, x) /\ (Acting(x) => i = 1) /\ x.amount \in Multiples
    <3>1. CASE i \in 1..Len(rows[w])
      <4>1. Append(rows[w], e)[i] = rows[w][i]
        BY <1>1, <1>3, <3>1, AppendElements
      <4>2. QED
        BY <2>1, <3>1, <4>1 DEF RowsKept, RowsFit
    <3>2. CASE i = Len(rows[w]) + 1
      <4>1. Append(rows[w], e)[i] = e
        BY <1>1, <1>3, <3>2, AppendElements
      <4>2. rows[w] = <<>> => i = 1
        BY <3>2
      <4>3. QED
        BY <1>4, <1>6, <1>7, <4>1, <4>2
    <3>3. QED
      BY <1>1, <1>3, <2>2, <3>1, <3>2, AppendElements
  <2>3. QED
    BY <2>2 DEF RowsKept, RowsFit
<1>9. \A v \in Worker : locked'[v] = IF v = w THEN locked[w] \cup {q} ELSE locked[v]
  BY <1>2 DEF TypeOK
<1>10. \A v \in Worker : \A p \in Project : v # w \/ p # q => view'[v][p] = view[v][p]
  BY <1>2 DEF TypeOK
<1>11. ASSUME NEW v \in Worker, NEW i \in 1..Len(legs'[v])
       PROVE  LegKept(ledger, rows'[v], locked'[v], i, legs'[v][i])
  <2>1. CASE v = w
    <3>1. legs'[v] = Tail(legs[w]) /\ rows'[v] = Append(rows[w], e)
      BY <1>1, <2>1
    <3>2. \A k : HasKey(rows[w], k) => HasKey(Append(rows[w], e), k)
      BY <1>1, <1>3, HasKeyAppend
    <3>3. QED
      BY <1>1, <1>11, <2>1, <3>1, <3>2, TailKept
  <2>2. CASE v # w
    BY <1>1, <1>9, <1>11, <2>2 DEF HoldsKept
  <2>3. QED
    BY <2>1, <2>2
<1>12. \A v \in Worker : \A p \in Project \ locked'[v] : view'[v][p] = ZeroRow
  BY <1>9, <1>10 DEF HoldsKept
<1>13. \A v \in Worker : stage[v] # "posting" => rows'[v] = <<>> /\ legs'[v] = <<>>
  BY <1>1 DEF HoldsKept
<1>14. \A v \in Worker : RowsKept(ledger, rows'[v])
  BY <1>1, <1>8 DEF HoldsKept
<1>15. QED
  BY <1>1, <1>11, <1>12, <1>13, <1>14 DEF HoldsKept

\* What another transaction commits leaves alone what w checked: it holds none of
\* the rows w holds.
LEMMA HoldsElsewhere ==
    ASSUME TypeOK, BooksAgree, HoldsKept, NEW v \in Worker, NEW w \in Worker, v # w
    PROVE  /\ RowsKept(ledger \o rows[v], rows[w])
           /\ \A i \in 1..Len(legs[w]) :
                LegKept(ledger \o rows[v], rows[w], locked[w], i, legs[w][i])
<1> DEFINE u == ledger \o rows[v]
<1>1. /\ ledger \in Seq(Entry) /\ rows[v] \in Seq(Entry) /\ rows[w] \in Seq(Entry)
      /\ legs[w] \in Seq(Entry)
  BY DEF TypeOK
<1>2. BookOK(ledger) /\ BookOK(u)
  BY <1>1, EntriesAre, BookConcat DEF HoldsKept, RowsKept
<1>3. LineageOK(ledger) /\ LineageOK(u)
  BY <1>2 DEF BookOK
<1> HIDE DEF u
<1>4. ASSUME NEW e \in Entry, Fits(ledger, e), e.project \in locked[w] PROVE Fits(u, e)
  <2>1. \A i \in 1..Len(rows[v]) : rows[v][i].project # e.project
    BY <1>4 DEF BooksAgree
  <2>2. QED
    BY <1>1, <1>3, <1>4, <2>1, EntriesAre, FitsForeign DEF u
<1>5. RowsKept(u, rows[w])
  <2>1. RowsKept(ledger, rows[w])
    BY DEF HoldsKept
  <2>2. \A i \in 1..Len(rows[w]) : rows[w][i] \in Entry /\ rows[w][i].project \in locked[w]
    BY <1>1 DEF BooksAgree
  <2>3. QED
    BY <1>4, <2>1, <2>2 DEF RowsKept, RowsFit
<1>6. ASSUME NEW i \in 1..Len(legs[w]) PROVE LegKept(u, rows[w], locked[w], i, legs[w][i])
  <2>1. PICK l \in Entry : l = legs[w][i]
    BY <1>1
  <2>2. LegKept(ledger, rows[w], locked[w], i, l)
    BY <2>1 DEF HoldsKept
  <2>3. HasKey(ledger, l.key) => HasKey(u, l.key)
    BY <1>1, HasKeyConcat DEF u
  <2>4. /\ Inserted(l) \in Entry /\ Inserted(l).project = l.project
        /\ Inserted(l).releases = l.releases /\ Inserted(l).reverses = l.reverses
    BY InsertedFields
  <2>5. Fits(ledger, Inserted(l)) => Fits(u, Inserted(l))
    <3>1. CASE Acting(l)
      <4>1. l.project \in locked[w]
        BY <2>2, <3>1 DEF LegKept
      <4>2. QED
        BY <1>4, <2>4, <4>1
    <3>2. CASE ~Acting(l)
      <4>1. ~Acting(Inserted(l))
        BY <2>4, <3>2 DEF Acting
      <4>2. QED
        BY <4>1, PlainFits
    <3>3. QED
      BY <3>1, <3>2
  <2>6. LegKept(u, rows[w], locked[w], i, l)
    BY <2>2, <2>3, <2>5 DEF LegKept, LegFits
  <2>7. QED
    BY <2>1, <2>6
<1>7. QED
  BY <1>5, <1>6 DEF u

LEMMA HoldsEnd ==
    ASSUME TypeOK, BooksAgree, HoldsKept, NEW w \in Worker, Commit(w) \/ Abort(w)
    PROVE  HoldsKept'
<1>1. /\ \A v \in Worker : rows'[v] = IF v = w THEN <<>> ELSE rows[v]
      /\ \A v \in Worker : legs'[v] = IF v = w THEN <<>> ELSE legs[v]
      /\ \A v \in Worker : stage'[v] = IF v = w THEN "idle" ELSE stage[v]
      /\ ledger \in Seq(Entry) /\ rows[w] \in Seq(Entry)
      /\ ledger' = ledger \o rows[w] \/ ledger' = ledger
  BY EndEffect
<1>2. /\ \A v \in Worker : v # w => locked'[v] = locked[v] /\ view'[v] = view[v]
      /\ \A p \in Project : view'[w][p] = ZeroRow
  BY DEF Commit, Abort, EndTransaction, TypeOK
<1>3. BookOK(ledger')
  <2>1. BookOK(ledger) /\ RowsKept(ledger, rows[w])
    BY DEF HoldsKept
  <2>2. BookOK(ledger \o rows[w])
    BY <1>1, <2>1, EntriesAre, BookConcat DEF RowsKept
  <2>3. QED
    BY <1>1, <2>1, <2>2
<1>4. ASSUME NEW i \in 1..Len(ledger') PROVE ledger'[i].amount \in Multiples
  <2>1. \/ i \in 1..Len(ledger) /\ ledger'[i] = ledger[i]
        \/ i - Len(ledger) \in 1..Len(rows[w]) /\ ledger'[i] = rows[w][i - Len(ledger)]
    BY <1>1, ConcatElements
  <2>2. QED
    BY <2>1 DEF HoldsKept, RowsKept
<1>5. ASSUME NEW v \in Worker, v # w
      PROVE  /\ RowsKept(ledger', rows[v])
             /\ \A i \in 1..Len(legs[v]) : LegKept(ledger', rows[v], locked[v], i, legs[v][i])
  <2>1. CASE ledger' = ledger
    BY <2>1 DEF HoldsKept
  <2>2. CASE ledger' = ledger \o rows[w]
    BY <1>5, <2>2, HoldsElsewhere
  <2>3. QED
    BY <1>1, <2>1, <2>2
<1>6. RowsKept(ledger', <<>>)
  BY DEF RowsKept, RowsFit
<1>7. ASSUME NEW v \in Worker
      PROVE  /\ stage'[v] # "posting" => rows'[v] = <<>> /\ legs'[v] = <<>>
             /\ RowsKept(ledger', rows'[v])
             /\ \A i \in 1..Len(legs'[v]) : LegKept(ledger', rows'[v], locked'[v], i, legs'[v][i])
             /\ \A p \in Project \ locked'[v] : view'[v][p] = ZeroRow
  <2>1. CASE v = w
    BY <1>1, <1>2, <1>6, <2>1
  <2>2. CASE v # w
    <3>1. /\ rows'[v] = rows[v] /\ legs'[v] = legs[v] /\ stage'[v] = stage[v]
          /\ locked'[v] = locked[v] /\ view'[v] = view[v]
      BY <1>1, <1>2, <2>2
    <3>2. QED
      BY <1>5, <2>2, <3>1 DEF HoldsKept
  <2>3. QED
    BY <2>1, <2>2
<1>8. QED
  BY <1>3, <1>4, <1>7 DEF HoldsKept

LEMMA HoldsStep == TypeOK /\ BooksAgree /\ HoldsKept /\ [Next]_vars => HoldsKept'
<1> SUFFICES ASSUME TypeOK, BooksAgree, HoldsKept, [Next]_vars PROVE HoldsKept'
  OBVIOUS
<1>1. ASSUME NEW w \in Worker, Receive(w) PROVE HoldsKept'
  <2>1. /\ UNCHANGED <<ledger, rows, legs, locked, view>> /\ stage[w] = "idle"
        /\ \A v \in Worker : v # w => stage'[v] = stage[v]
    BY <1>1 DEF Receive, Begin, TypeOK, bookVars
  <2>2. QED
    BY <2>1 DEF HoldsKept
<1>2. ASSUME NEW w \in Worker, Lock(w) PROVE HoldsKept'
  <2>1. UNCHANGED <<ledger, rows, legs, stage>> /\ stage[w] = "locking"
    BY <1>2 DEF Lock, bookVars
  <2>2. PICK q : /\ locked' = [locked EXCEPT ![w] = @ \cup {q}]
                 /\ view' = [view EXCEPT ![w][q] = balance[q]]
    BY <1>2 DEF Lock, TakeRow
  <2>3. \A v \in Worker : locked'[v] = IF v = w THEN locked[w] \cup {q} ELSE locked[v]
    BY <2>2 DEF TypeOK
  <2>4. \A v \in Worker : \A p \in Project : v # w \/ p # q => view'[v][p] = view[v][p]
    BY <2>2 DEF TypeOK
  <2>5. \A v \in Worker : \A p \in Project \ locked'[v] : view'[v][p] = ZeroRow
    BY <2>3, <2>4 DEF HoldsKept
  <2>6. legs[w] = <<>>
    BY <2>1 DEF HoldsKept
  <2>7. \A v \in Worker : \A i \in 1..Len(legs[v]) :
            LegKept(ledger, rows[v], locked'[v], i, legs[v][i])
    BY <2>3, <2>6 DEF HoldsKept
  <2>8. QED
    BY <2>1, <2>5, <2>7 DEF HoldsKept
<1>3. ASSUME NEW w \in Worker, Plan(w) PROVE HoldsKept'
  <2>1. /\ \A v \in Worker : legs'[v] = IF v = w THEN PlannedLegs(w) ELSE legs[v]
        /\ \A v \in Worker : stage'[v] = IF v = w THEN "posting" ELSE stage[v]
        /\ UNCHANGED <<ledger, rows, locked, view>>
    BY <1>3, PlanEffect
  <2>2. \A i \in 1..Len(PlannedLegs(w)) :
            LegKept(ledger, rows[w], locked[w], i, PlannedLegs(w)[i])
    BY <1>3, LegsPlanned
  <2>3. QED
    BY <2>1, <2>2 DEF HoldsKept
<1>4. ASSUME UNCHANGED <<ledger, rows, legs, locked, view, stage>> PROVE HoldsKept'
  BY <1>4 DEF HoldsKept
<1>5. ASSUME \/ \E d \in Date : ClosePeriod(d) \/ ReopenPeriod(d)
             \/ NextDay
             \/ \E m \in FundingMode : SetFundingMode(m)
             \/ \E b \in OverdraftValues : SetOverdraft(b)
             \/ \E p \in Project, to \in Status, o \in BOOLEAN : Transition(p, to, o)
      PROVE  UNCHANGED <<ledger, rows, legs, locked, view, stage>>
  BY <1>5 DEF ClosePeriod, ReopenPeriod, NextDay, SetFundingMode, SetOverdraft, Transition,
              bookVars, txVars
<1>6. CASE UNCHANGED vars
  BY <1>4, <1>6 DEF vars
<1>7. QED
  BY <1>1, <1>2, <1>3, <1>4, <1>5, <1>6, HoldsReplay, HoldsPost, HoldsEnd DEF Next

\* A project's reserved and committed buckets are what remains of its
\* reservations and commitments, and none is released below zero or above its
\* amount, whatever releases, conversions and reversals interleave.
THEOREM HoldsAreBacked == Spec => []HoldsBacked
<1>1. TypeOK /\ BooksAgree /\ HoldsKept => HoldsBacked
  <2> SUFFICES ASSUME TypeOK, BooksAgree, HoldsKept PROVE HoldsBacked
    OBVIOUS
  <2>1. BookOK(ledger) /\ ledger \in Seq(Entry) /\ NoDrift
    BY DEF HoldsKept, TypeOK, BooksAgree
  <2>2. /\ BucketForType["reservation"] = "reserved" /\ BucketForType["commitment"] = "committed"
        /\ {"reservation", "commitment"} \subseteq HoldTypes
        /\ {"reserved", "committed"} \subseteq Bucket
    BY DEF BucketForType, HoldTypes, Bucket
  <2>3. \A p, type : HeldUnder(p, type) = HeldSum(ledger, p, type)
    BY DEF HeldUnder, HeldSum, HeldPart
  <2>4. ASSUME NEW p \in Project
        PROVE  /\ balance[p]["reserved"] = HeldUnder(p, "reservation")
               /\ balance[p]["committed"] = HeldUnder(p, "commitment")
    BY <2>1, <2>2, <2>3 DEF NoDrift, BookOK, BucketsOK
  <2>5. ASSUME NEW i \in 1..Len(ledger), ledger[i].type \in {"reservation", "commitment"}
        PROVE  Remaining(ledger, i) \in 0..ledger[i].amount
    BY <2>1, <2>2, <2>5, EntriesAre, RemainingBounds
  <2>6. QED
    BY <2>4, <2>5 DEF HoldsBacked
<1>2. QED
  BY TypeInit, TypeStep, BooksInit, BooksStep, HoldsInit, HoldsStep, <1>1, PTL DEF Spec

\* No interleaving of postings makes the schema's CHECKs or the one-reversal index
\* refuse one: no bucket is spent below zero, committed or in a transaction, and
\* no entry is reversed twice.
THEOREM ConstraintsUnneeded == Spec => []ConstraintsNeverFire
<1>1. TypeOK /\ BooksAgree /\ HoldsKept => ConstraintsNeverFire
  <2> SUFFICES ASSUME TypeOK, BooksAgree, HoldsKept PROVE ConstraintsNeverFire
    OBVIOUS
  <2>1. BookOK(ledger) /\ ledger \in Seq(Entry) /\ NoDrift
    BY DEF HoldsKept, TypeOK, BooksAgree
  <2>2. ASSUME NEW b \in {"reserved", "committed", "actual"}
        PROVE  b \in Bucket /\ \E type \in HoldTypes : BucketForType[type] = b
    BY DEF BucketForType, HoldTypes, Bucket
  <2>3. ASSUME NEW p \in Project, NEW b \in {"reserved", "committed", "actual"}
        PROVE  balance[p][b] >= 0
    <3>1. PICK type \in HoldTypes : BucketForType[type] = b
      BY <2>2
    <3>2. LedgerSum(ledger, p, BucketForType[type]) \in Nat
      BY <2>1, EntriesAre, BucketsNat
    <3>3. balance[p][b] = LedgerSum(ledger, p, b)
      BY <2>1, <2>2 DEF NoDrift
    <3>4. QED
      BY <3>1, <3>2, <3>3
  <2>4. ASSUME NEW p \in Project, NEW b \in {"reserved", "committed", "actual"}, NEW w \in Worker
        PROVE  view[w][p][b] >= 0
    <3>1. CASE p \notin locked[w]
      BY <2>2, <3>1 DEF HoldsKept, ZeroRow
    <3>2. CASE p \in locked[w]
      <4>1. rows[w] \in Seq(Entry) /\ ledger \o rows[w] \in Seq(Entry) /\ BookOK(ledger \o rows[w])
        BY <2>1, EntriesAre, BookConcat, ConcatElements DEF HoldsKept, RowsKept, TypeOK
      <4>2. LedgerSum(ledger \o rows[w], p, b) \in Nat
        BY <2>2, <4>1, EntriesAre, BucketsNat
      <4>3. LedgerSum(ledger \o rows[w], p, b) = LedgerSum(ledger, p, b) + LedgerSum(rows[w], p, b)
        BY <2>1, <4>1, EntryAmounts, LedgerSumConcat
      <4>4. view[w][p][b] = LedgerSum(ledger, p, b) + LedgerSum(rows[w], p, b)
        BY <2>1, <2>2, <3>2 DEF BooksAgree, NoDrift
      <4>5. QED
        BY <4>2, <4>3, <4>4
    <3>3. QED
      BY <3>1, <3>2
  <2>5. \A i, j \in 1..Len(ledger) :
           ledger[i].reverses # 0 /\ ledger[i].reverses = ledger[j].reverses => i = j
    BY <2>1 DEF BookOK, ReversedOnce
  <2>6. QED
    BY <2>3, <2>4, <2>5 DEF ConstraintsNeverFire
<1>2. QED
  BY TypeInit, TypeStep, BooksInit, BooksStep, HoldsInit, HoldsStep, <1>1, PTL DEF Spec
=============================================================================
