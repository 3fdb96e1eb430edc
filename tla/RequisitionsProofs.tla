------------------------- MODULE RequisitionsProofs -------------------------
(***************************************************************************)
(* Requisitions and their money for any requisitions, projects, funds and  *)
(* transactions: what each requisition holds, what its sub-project owns,   *)
(* when its approval runs and what that approved.                          *)
(*                                                                         *)
(* The invariant speaks of one requisition at a time.  The rounds of a     *)
(* requisition number its reservations, so the key of a new round is new   *)
(* and every posting of a step is made, none replayed; a step on one       *)
(* requisition leaves alone what the invariant says of the others.  That   *)
(* a closed project stays without hold or money under way is an invariant  *)
(* of its own on top of this one (IdleInv).                                *)
(***************************************************************************)
EXTENDS Requisitions, FiniteSetTheorems, WellFoundedInduction, TLAPS

-----------------------------------------------------------------------------
(* Types.                                                                    *)

Code == {"first", "second"}
Early == {"none", "draft", "approval_pending"}
Status == Early \cup {"sourcing_in_progress"} \cup Ended
Reason == {"resubmit", "approved", "returned_to_draft"} \cup Ended
HoldKey == Req \X Nat \X {"main", "sub"}
ReleaseKey == {"release"} \X Req \X Nat \X Reason
MoveKey == {"fund", "amend", "unfund"} \X Req \X Nat
Place == Project \cup {Nothing}

Row == [status : Status, project : Place, estimate : Nat, text : 0..1, code : Code,
        version : Nat, entry : HoldKey \cup {Nothing}, round : Nat]
ContentRow == [estimate : Nat, text : 0..1, code : Code, project : Place]
MaterialRow == [estimate : Nat, code : Code, project : Place]
Amendment == [status : {"none", "draft", "pending"}, content : ContentRow \cup {Nothing},
              base : Nat]
Hold == [project : Place, amount : Nat, left : Nat]
Rest == [project : Place, left : Nat]
Money == [allocated : [Project -> Int], held : UNION {[S -> Hold] : S \in SUBSET HoldKey},
          keys : SUBSET (ReleaseKey \cup MoveKey), ok : BOOLEAN]
Tx == [op : Commands \cup {"none"}, r : Req \cup {Nothing}, stage : {"idle", "read", "clear"},
       row : Row \cup {Nothing}, held : Rest \cup {Nothing}, amendment : Amendment \cup {Nothing}]

Instance == {"none", "running", "approved", "rejected", "returned", "withdrawn"}
ProjectStatus == {"none", "active", "deferred", "abandoned", "closed", "overridden"}

TypeOK ==
    /\ req \in [Req -> Row]
    /\ applied \in [Req -> ContentRow \cup {Nothing}]
    /\ amendment \in [Req -> Amendment]
    /\ \A r \in Req : amendment[r].status # "none" => amendment[r].content \in ContentRow
    /\ instance \in [Req -> Instance]
    /\ approved \in [Req -> MaterialRow \cup {Nothing}]
    /\ money \in Money
    /\ project \in [Project -> ProjectStatus]
    /\ usable \subseteq Code
    /\ tx \in [Worker -> Tx]

LEMMA Places ==
    ASSUME NEW r \in Req
    PROVE  /\ Sub(r) \in Project /\ Own(r) \in Project
           /\ Sub(r) \notin Main /\ Own(r) \notin Main /\ Sub(r) # Own(r)
           /\ Sub(r) # Nothing /\ Own(r) # Nothing
           /\ \A q \in Req : Sub(q) # Own(r) /\ (Sub(q) = Sub(r) => q = r)
           /\ Main \subseteq Project
  BY RequisitionsAssumption DEF Sub, Own, Project, Generated

LEMMA HoldTypes ==
    ASSUME NEW m \in Money
    PROVE  /\ m.allocated \in [Project -> Int] /\ m.ok \in BOOLEAN
           /\ m.keys \subseteq ReleaseKey \cup MoveKey
           /\ DOMAIN m.held \subseteq HoldKey
           /\ m.held \in [DOMAIN m.held -> Hold]
           /\ \A k \in DOMAIN m.held : m.held[k].project \in Place /\ m.held[k].left \in Nat
  BY DEF Money, Hold

-----------------------------------------------------------------------------
(* What the operations on the ledger do, entry by entry.                     *)

\* n is m with what is left of the hold e released.
Releases(m, n, e) ==
    /\ n.ok = m.ok /\ n.allocated = m.allocated
    /\ DOMAIN n.held = DOMAIN m.held
    /\ \A k \in DOMAIN m.held :
         /\ n.held[k].project = m.held[k].project
         /\ n.held[k].left = IF k = e THEN 0 ELSE m.held[k].left

LEMMA ReleaseIs ==
    ASSUME NEW m \in Money, NEW r \in Req, NEW row \in Row, NEW x \in Reason,
           row.entry # Nothing => row.entry \in DOMAIN m.held,
           row.entry # Nothing /\ m.held[row.entry].left # 0 =>
             <<"release", r, row.round, x>> \notin m.keys
    PROVE  /\ ReleaseLive(m, r, row, x) \in Money
           /\ Releases(m, ReleaseLive(m, r, row, x), row.entry)
           /\ \/ ReleaseLive(m, r, row, x).keys = m.keys
              \/ ReleaseLive(m, r, row, x).keys = m.keys \cup {<<"release", r, row.round, x>>}
<1> DEFINE key == <<"release", r, row.round, x>>
           e == row.entry
           n == [m EXCEPT !.held[e].left = 0, !.keys = @ \cup {key}]
<1>1. key \in ReleaseKey
  BY DEF ReleaseKey, Row
<1>2. CASE e = Nothing \/ m.held[e].left = 0 \/ key \in m.keys
  <2>1. ReleaseLive(m, r, row, x) = m
    BY <1>2 DEF ReleaseLive
  <2>2. e = Nothing => e \notin DOMAIN m.held
    BY RequisitionsAssumption, HoldTypes DEF HoldKey
  <2>3. QED
    BY <1>2, <2>1, <2>2 DEF Releases
<1>3. CASE ~(e = Nothing \/ m.held[e].left = 0 \/ key \in m.keys)
  <2>1. ReleaseLive(m, r, row, x) = n /\ e \in DOMAIN m.held
    BY <1>3 DEF ReleaseLive
  <2>2. PICK g : g = [m.held[e] EXCEPT !.left = 0]
    OBVIOUS
  <2>3. g \in Hold /\ g.left = 0 /\ g.project = m.held[e].project
    BY <2>1, <2>2, HoldTypes DEF Hold
  <2>4. PICK h : h = [m.held EXCEPT ![e] = g]
    OBVIOUS
  <2>5. /\ h \in [DOMAIN m.held -> Hold] /\ DOMAIN h = DOMAIN m.held
        /\ \A k \in DOMAIN m.held : h[k] = IF k = e THEN g ELSE m.held[k]
    BY <2>3, <2>4, HoldTypes
  <2>6. n = [m EXCEPT !.held = h, !.keys = @ \cup {key}]
    BY <2>2, <2>4
  <2> HIDE DEF n
  <2>7. n.ok = m.ok /\ n.allocated = m.allocated /\ n.keys = m.keys \cup {key} /\ n.held = h
    BY <2>6 DEF Money
  <2>8. n \in Money
    <3>1. h \in UNION {[S -> Hold] : S \in SUBSET HoldKey}
      <4>1. DOMAIN m.held \in SUBSET HoldKey
        BY HoldTypes
      <4>2. QED
        BY <2>5, <4>1
    <3>2. m.keys \cup {key} \in SUBSET (ReleaseKey \cup MoveKey)
      BY <1>1, HoldTypes
    <3>3. QED
      BY <2>6, <3>1, <3>2 DEF Money
  <2>9. Releases(m, n, e)
    BY <2>3, <2>5, <2>7 DEF Releases
  <2>10. QED
    BY <2>1, <2>7, <2>8, <2>9
<1>4. QED
  BY <1>2, <1>3

\* n is m with a hold on p of an amount under a new key.
Holds(m, n, key, p, amount) ==
    /\ n.allocated = m.allocated /\ n.keys = m.keys
    /\ DOMAIN n.held = DOMAIN m.held \cup {key}
    /\ \A k \in DOMAIN m.held : n.held[k] = m.held[k]
    /\ n.held[key].project = p /\ n.held[key].left = amount

LEMMA ReserveIs ==
    ASSUME NEW m \in Money, NEW ps, NEW key \in HoldKey, key \notin DOMAIN m.held,
           NEW p \in Place, NEW amount \in Nat, NEW n, n = Reserve(m, ps, key, p, amount)
    PROVE  n \in Money /\ Holds(m, n, key, p, amount)
<1> DEFINE ok == m.ok /\ ps[p] = "active" /\ Available(m, p) >= amount
           h == [k \in DOMAIN m.held \cup {key} |->
                   IF k = key THEN [project |-> p, amount |-> amount, left |-> amount]
                   ELSE m.held[k]]
<1>1. n = [m EXCEPT !.ok = ok, !.held = h]
  BY DEF Reserve
<1>2. [project |-> p, amount |-> amount, left |-> amount] \in Hold
  BY DEF Hold
<1>3. h \in [DOMAIN m.held \cup {key} -> Hold] /\ DOMAIN m.held \cup {key} \in SUBSET HoldKey
  BY <1>2, HoldTypes
<1>4. ok \in BOOLEAN
  OBVIOUS
<1> HIDE DEF ok
<1>5. n.allocated = m.allocated /\ n.keys = m.keys /\ n.held = h /\ n.ok = ok
  BY <1>1 DEF Money
<1>6. Holds(m, n, key, p, amount)
  BY <1>5 DEF Holds
<1>7. n \in Money
  <2>1. h \in UNION {[S -> Hold] : S \in SUBSET HoldKey}
    BY <1>3
  <2> HIDE DEF h
  <2>2. QED
    BY <1>1, <1>4, <2>1 DEF Money
<1>8. QED
  BY <1>6, <1>7

\* n is m with an amount moved between two projects.
Moves(m, n, from, to, amount) ==
    /\ n.held = m.held
    /\ n.allocated[to] = m.allocated[to] + amount
    /\ from \in Project => n.allocated[from] = m.allocated[from] - amount
    /\ \A p \in Project \ {from, to} : n.allocated[p] = m.allocated[p]

LEMMA MoveIs ==
    ASSUME NEW m \in Money, NEW ps, NEW key \in MoveKey, key \notin m.keys,
           NEW from, NEW to \in Project, from # to, NEW amount \in Int
    PROVE  /\ MoveFunds(m, ps, key, from, to, amount) \in Money
           /\ Moves(m, MoveFunds(m, ps, key, from, to, amount), from, to, amount)
           /\ MoveFunds(m, ps, key, from, to, amount).keys = m.keys \cup {key}
           /\ MoveFunds(m, ps, key, from, to, amount).ok => m.ok
<1> DEFINE ok == m.ok /\ Available(m, from) >= amount /\ ps[to] = "active"
           a == [m.allocated EXCEPT ![from] = @ - amount, ![to] = @ + amount]
           n == [m EXCEPT !.ok = ok, !.allocated[from] = @ - amount, !.allocated[to] = @ + amount,
                          !.keys = @ \cup {key}]
<1>1. MoveFunds(m, ps, key, from, to, amount) = n
  BY DEF MoveFunds
<1>2. a \in [Project -> Int]
  BY HoldTypes
<1>3. ok \in BOOLEAN
  OBVIOUS
<1> HIDE DEF ok
<1>4. n.allocated = a /\ n.keys = m.keys \cup {key} /\ n.held = m.held /\ n.ok = ok
  BY DEF Money
<1>5. /\ a[to] = m.allocated[to] + amount
      /\ from \in Project => a[from] = m.allocated[from] - amount
      /\ \A p \in Project \ {from, to} : a[p] = m.allocated[p]
  BY HoldTypes
<1> HIDE DEF a
<1>6. n \in Money
  BY <1>2, <1>3, <1>4 DEF Money
<1> HIDE DEF n
<1>7. Moves(m, n, from, to, amount)
  BY <1>4, <1>5 DEF Moves
<1>8. QED
  BY <1>1, <1>4, <1>6, <1>7 DEF ok

-----------------------------------------------------------------------------
(* What a requisition holds.  Its reservations are numbered by its rounds,   *)
(* so a round's key is new when the round is; every one but the one it       *)
(* points to is empty, and a release is recorded only for an empty one.      *)

\* The reservations of r: at most the one it points to has something left.
HoldsOK(r, row, m) ==
    /\ row.entry # Nothing => row.entry \in DOMAIN m.held /\ row.entry[1] = r
    /\ \A k \in DOMAIN m.held :
         k[1] = r => k[2] <= row.round /\ (k # row.entry => m.held[k].left = 0)

\* The releases of r, other than the one its approval makes, leave nothing.
ReleasesOK(r, row, m) ==
    \A n \in Nat, x \in Reason : <<"release", r, n, x>> \in m.keys =>
        /\ n <= row.round
        /\ n = row.round /\ x # "approved" => row.entry = Nothing \/ m.held[row.entry].left = 0

AmendsUpTo(r, m, i) == \A j \in Nat : <<"amend", r, j>> \in m.keys => j <= i

Numbered(r, row, m) == HoldsOK(r, row, m) /\ ReleasesOK(r, row, m) /\ AmendsUpTo(r, m, row.round)

\* Nothing was posted for the approval that r does not have yet.
Unfunded(r, m) ==
    /\ \A k \in DOMAIN m.held : k[1] = r => k[3] = "main" /\ r \notin Standalone
    /\ \A n \in Nat : /\ <<"fund", r, n>> \notin m.keys /\ <<"unfund", r, n>> \notin m.keys
                      /\ <<"release", r, n, "approved">> \notin m.keys
    /\ m.allocated[Sub(r)] = 0

\* An approved requisition's money was not given back.
NeverUnfunded(r, m) == \A n \in Nat : <<"unfund", r, n>> \notin m.keys

\* What is reserved and funded, by the status of r.
StatusOK(r, row, m) ==
    /\ row.status \in Early => Unfunded(r, m)
    /\ row.status = "approval_pending" /\ r \notin Standalone =>
         /\ row.entry # Nothing
         /\ m.held[row.entry].project = row.project /\ m.held[row.entry].left = row.estimate
    /\ row.status = "sourcing_in_progress" =>
         /\ row.entry # Nothing
         /\ m.held[row.entry].project \in {Sub(r), Own(r)}
         /\ m.held[row.entry].left = row.estimate
         /\ m.allocated[Sub(r)] = IF m.held[row.entry].project = Sub(r) THEN row.estimate ELSE 0
         /\ NeverUnfunded(r, m)
    /\ row.status \in Ended =>
         /\ row.entry # Nothing => m.held[row.entry].left = 0
         /\ m.allocated[Sub(r)] = 0

MoneyOK(r, row, m) == Numbered(r, row, m) /\ StatusOK(r, row, m)

\* m and n do not differ in what concerns q.
SameFor(q, m, n) ==
    /\ n.allocated[Sub(q)] = m.allocated[Sub(q)]
    /\ \A k \in HoldKey : k[1] = q =>
         /\ k \in DOMAIN n.held <=> k \in DOMAIN m.held
         /\ k \in DOMAIN m.held =>
              n.held[k].left = m.held[k].left /\ n.held[k].project = m.held[k].project
    /\ \A k \in ReleaseKey \cup MoveKey : k[2] = q => (k \in n.keys <=> k \in m.keys)

LEMMA ReleaseKeyIs ==
    ASSUME NEW r \in Req, NEW n \in Nat, NEW x \in Reason
    PROVE  /\ <<"release", r, n, x>> \in ReleaseKey /\ <<"release", r, n, x>>[2] = r
           /\ <<"release", r, n, x>> \notin MoveKey
  BY DEF ReleaseKey, MoveKey

LEMMA MoveKeyIs ==
    ASSUME NEW r \in Req, NEW n \in Nat, NEW x \in {"fund", "amend", "unfund"}
    PROVE  <<x, r, n>> \in MoveKey /\ <<x, r, n>>[2] = r /\ <<x, r, n>> \notin ReleaseKey
  BY DEF ReleaseKey, MoveKey

LEMMA SameAsBefore ==
    ASSUME NEW a, NEW b, NEW c, NEW q, SameFor(q, a, b), SameFor(q, b, c)
    PROVE  SameFor(q, a, c)
  BY DEF SameFor

\* What r holds does not depend on what concerns others.
LEMMA MoneyFramed ==
    ASSUME NEW q \in Req, NEW row \in Row, NEW m \in Money, NEW n \in Money,
           MoneyOK(q, row, m), SameFor(q, m, n)
    PROVE  MoneyOK(q, row, n)
<1>1. /\ DOMAIN m.held \subseteq HoldKey /\ DOMAIN n.held \subseteq HoldKey
  BY HoldTypes
<1>2. row.entry # Nothing => row.entry \in HoldKey
  BY DEF Row
<1>3. \A k \in DOMAIN n.held : k[1] = q => k \in DOMAIN m.held /\ n.held[k].left = m.held[k].left
                                           /\ n.held[k].project = m.held[k].project
  BY <1>1 DEF SameFor
<1>4. row.entry # Nothing => /\ row.entry \in DOMAIN m.held /\ row.entry \in DOMAIN n.held
                             /\ row.entry[1] = q
                             /\ n.held[row.entry].left = m.held[row.entry].left
                             /\ n.held[row.entry].project = m.held[row.entry].project
  BY <1>2 DEF SameFor, MoneyOK, Numbered, HoldsOK
<1>5. /\ \A i \in Nat, x \in Reason :
           <<"release", q, i, x>> \in n.keys <=> <<"release", q, i, x>> \in m.keys
      /\ \A i \in Nat, x \in {"fund", "amend", "unfund"} :
           <<x, q, i>> \in n.keys <=> <<x, q, i>> \in m.keys
  BY ReleaseKeyIs, MoveKeyIs DEF SameFor
<1>6. n.allocated[Sub(q)] = m.allocated[Sub(q)]
  BY DEF SameFor
<1>7. Numbered(q, row, n)
  <2>1. \A k \in DOMAIN n.held :
          k[1] = q => k[2] <= row.round /\ (k # row.entry => n.held[k].left = 0)
    BY <1>3 DEF MoneyOK, Numbered, HoldsOK
  <2>2. \A i \in Nat, x \in Reason : <<"release", q, i, x>> \in n.keys =>
          /\ i <= row.round
          /\ i = row.round /\ x # "approved" => row.entry = Nothing \/ n.held[row.entry].left = 0
    BY <1>4, <1>5 DEF MoneyOK, Numbered, ReleasesOK
  <2>3. \A i \in Nat : <<"amend", q, i>> \in n.keys => i <= row.round
    BY <1>5 DEF MoneyOK, Numbered, AmendsUpTo
  <2>4. QED
    BY <1>4, <2>1, <2>2, <2>3 DEF Numbered, HoldsOK, ReleasesOK, AmendsUpTo
<1>8. StatusOK(q, row, n)
  <2>1. Unfunded(q, m) => Unfunded(q, n)
    <3>1. ASSUME Unfunded(q, m)
          PROVE  \A k \in DOMAIN n.held : k[1] = q => k[3] = "main" /\ q \notin Standalone
      BY <1>3, <3>1 DEF Unfunded
    <3>2. ASSUME Unfunded(q, m), NEW i \in Nat
          PROVE  /\ <<"fund", q, i>> \notin n.keys /\ <<"unfund", q, i>> \notin n.keys
                 /\ <<"release", q, i, "approved">> \notin n.keys
      BY <1>5, <3>2 DEF Unfunded, Reason
    <3>3. QED
      BY <1>6, <3>1, <3>2 DEF Unfunded
  <2>2. NeverUnfunded(q, m) => NeverUnfunded(q, n)
    BY <1>5 DEF NeverUnfunded
  <2>3. StatusOK(q, row, m)
    BY DEF MoneyOK
  <2>4. QED
    BY <1>4, <1>6, <2>1, <2>2, <2>3 DEF StatusOK
<1>9. QED
  BY <1>7, <1>8 DEF MoneyOK

\* The three operations concern the requisition of their key alone.
LEMMA ReleaseFrame ==
    ASSUME NEW m \in Money, NEW n \in Money, NEW r \in Req, NEW e, Releases(m, n, e),
           e # Nothing => e \in HoldKey /\ e[1] = r, NEW i \in Nat, NEW x \in Reason,
           n.keys = m.keys \/ n.keys = m.keys \cup {<<"release", r, i, x>>},
           NEW q \in Req, q # r
    PROVE  SameFor(q, m, n)
<1>1. \A k \in HoldKey : k[1] = q => k # e
  BY RequisitionsAssumption DEF HoldKey
<1>2. <<"release", r, i, x>>[2] = r
  BY ReleaseKeyIs
<1>3. n.allocated = m.allocated /\ DOMAIN n.held = DOMAIN m.held
  BY DEF Releases
<1>4. QED
  BY <1>1, <1>2, <1>3 DEF SameFor, Releases

LEMMA HoldFrame ==
    ASSUME NEW m \in Money, NEW n \in Money, NEW key \in HoldKey, NEW p, NEW a,
           Holds(m, n, key, p, a), NEW q \in Req, q # key[1]
    PROVE  SameFor(q, m, n)
  BY DEF SameFor, Holds

LEMMA MoveFrame ==
    ASSUME NEW m \in Money, NEW n \in Money, NEW from, NEW to, NEW a, Moves(m, n, from, to, a),
           NEW r \in Req, NEW i \in Nat, NEW x \in {"fund", "amend", "unfund"},
           n.keys = m.keys \cup {<<x, r, i>>},
           NEW q \in Req, q # r, Sub(q) \notin {from, to}
    PROVE  SameFor(q, m, n)
<1>1. <<x, r, i>>[2] = r /\ Sub(q) \in Project
  BY MoveKeyIs, Places
<1>2. QED
  BY <1>1 DEF SameFor, Moves

-----------------------------------------------------------------------------
(* What the commands do to it.                                               *)

\* Nothing is left of what r holds.
Emptied(r, m, rounds) ==
    \A k \in DOMAIN m.held : k[1] = r => k[2] <= rounds /\ m.held[k].left = 0

\* Its round was not released for this reason.
FreshRelease(r, row, m, x) ==
    row.entry # Nothing /\ m.held[row.entry].left # 0 =>
        <<"release", r, row.round, x>> \notin m.keys

LEMMA ReleaseIsFresh ==
    ASSUME NEW m, NEW r \in Req, NEW row \in Row, MoneyOK(r, row, m), NEW x \in Reason,
           x = "approved" => row.status \in Early
    PROVE  FreshRelease(r, row, m, x)
<1>1. row.round \in Nat
  BY DEF Row
<1>2. CASE x = "approved"
  BY <1>1, <1>2 DEF MoneyOK, StatusOK, Unfunded, FreshRelease
<1>3. CASE x # "approved"
  BY <1>1, <1>3 DEF MoneyOK, Numbered, ReleasesOK, FreshRelease
<1>4. QED
  BY <1>2, <1>3

\* A release for r.
LEMMA Released ==
    ASSUME NEW m \in Money, NEW r \in Req, NEW row \in Row, HoldsOK(r, row, m), NEW x \in Reason,
           FreshRelease(r, row, m, x), NEW n, n = ReleaseLive(m, r, row, x)
    PROVE  /\ n \in Money /\ Releases(m, n, row.entry) /\ Emptied(r, n, row.round)
           /\ n.keys = m.keys \/ n.keys = m.keys \cup {<<"release", r, row.round, x>>}
           /\ \A q \in Req \ {r} : SameFor(q, m, n)
<1>1. row.round \in Nat /\ (row.entry # Nothing => row.entry \in HoldKey)
  BY DEF Row
<1>2. row.entry # Nothing => row.entry \in DOMAIN m.held /\ row.entry[1] = r
  BY DEF HoldsOK
<1>3. row.entry # Nothing /\ m.held[row.entry].left # 0 =>
        <<"release", r, row.round, x>> \notin m.keys
  BY DEF FreshRelease
<1>4. /\ n \in Money /\ Releases(m, n, row.entry)
      /\ n.keys = m.keys \/ n.keys = m.keys \cup {<<"release", r, row.round, x>>}
  BY <1>2, <1>3, ReleaseIs
<1>5. Emptied(r, n, row.round)
  BY <1>4 DEF Emptied, Releases, HoldsOK
<1>6. ASSUME NEW q \in Req \ {r} PROVE SameFor(q, m, n)
  BY <1>1, <1>2, <1>4, ReleaseFrame
<1>7. QED
  BY <1>4, <1>5, <1>6

\* A row of the same reservation and round, after a release that did not approve.
LEMMA NumberedReleased ==
    ASSUME NEW m \in Money, NEW r \in Req, NEW row \in Row, MoneyOK(r, row, m), NEW x \in Reason,
           NEW n \in Money, Releases(m, n, row.entry),
           n.keys = m.keys \/ n.keys = m.keys \cup {<<"release", r, row.round, x>>},
           NEW done \in Row, done.entry = row.entry, done.round = row.round
    PROVE  Numbered(r, done, n)
<1>1. row.entry # Nothing => row.entry \in DOMAIN m.held /\ row.entry[1] = r
  BY DEF MoneyOK, Numbered, HoldsOK, ReleasesOK, AmendsUpTo
<1>2. row.entry # Nothing => n.held[row.entry].left = 0 /\ row.entry \in DOMAIN n.held
  BY <1>1 DEF Releases
<1>3. \A k \in DOMAIN n.held :
        k[1] = r => k[2] <= row.round /\ (k # row.entry => n.held[k].left = 0)
  BY DEF Releases, MoneyOK, Numbered, HoldsOK
<1>4. \A i \in Nat, y \in Reason : <<"release", r, i, y>> \in n.keys => i <= row.round
  <2>1. row.round \in Nat
    BY DEF Row
  <2>2. \A i \in Nat, y \in Reason : <<"release", r, i, y>> \in m.keys => i <= row.round
    BY DEF MoneyOK, Numbered, HoldsOK, ReleasesOK, AmendsUpTo
  <2>3. \A i \in Nat, y \in Reason :
          <<"release", r, i, y>> = <<"release", r, row.round, x>> => i = row.round
    OBVIOUS
  <2>4. QED
    BY <2>1, <2>2, <2>3
<1>5. \A i \in Nat : <<"amend", r, i>> \in n.keys => i <= row.round
  <2>1. \A i \in Nat : <<"amend", r, i>> # <<"release", r, row.round, x>>
    OBVIOUS
  <2>2. QED
    BY <2>1 DEF MoneyOK, Numbered, AmendsUpTo
<1>6. QED
  BY <1>1, <1>2, <1>3, <1>4, <1>5 DEF Numbered, HoldsOK, ReleasesOK, AmendsUpTo

\* A release leaves what was never funded so.
LEMMA UnfundedReleased ==
    ASSUME NEW m \in Money, NEW r \in Req, NEW x \in Reason, x # "approved", NEW i \in Nat,
           NEW e, NEW n \in Money, Releases(m, n, e), Unfunded(r, m),
           n.keys = m.keys \/ n.keys = m.keys \cup {<<"release", r, i, x>>}
    PROVE  Unfunded(r, n)
<1>1. \A j \in Nat : /\ <<"fund", r, j>> # <<"release", r, i, x>>
                     /\ <<"unfund", r, j>> # <<"release", r, i, x>>
                     /\ <<"release", r, j, "approved">> # <<"release", r, i, x>>
  OBVIOUS
<1>2. \A j \in Nat : /\ <<"fund", r, j>> \notin n.keys /\ <<"unfund", r, j>> \notin n.keys
                     /\ <<"release", r, j, "approved">> \notin n.keys
  BY <1>1 DEF Unfunded
<1>3. QED
  BY <1>2 DEF Unfunded, Releases

\* A requisition that was not approved ends, or goes back to draft, without its hold.
LEMMA MoneyReleased ==
    ASSUME NEW m \in Money, NEW r \in Req, NEW row \in Row, MoneyOK(r, row, m),
           row.status \in Early, NEW x \in Reason, x # "approved",
           NEW n, n = ReleaseLive(m, r, row, x), NEW done \in Row,
           done.entry = row.entry, done.round = row.round, done.status \in Ended \cup {"draft"}
    PROVE  n \in Money /\ MoneyOK(r, done, n) /\ \A q \in Req \ {r} : SameFor(q, m, n)
<1>1. FreshRelease(r, row, m, x) /\ HoldsOK(r, row, m)
  BY ReleaseIsFresh DEF MoneyOK, Numbered
<1>2. /\ n \in Money /\ Releases(m, n, row.entry) /\ Emptied(r, n, row.round)
      /\ n.keys = m.keys \/ n.keys = m.keys \cup {<<"release", r, row.round, x>>}
      /\ \A q \in Req \ {r} : SameFor(q, m, n)
  BY <1>1, Released
<1>3. Numbered(r, done, n)
  BY <1>2, NumberedReleased
<1>4. Unfunded(r, m) /\ row.round \in Nat
  BY DEF MoneyOK, StatusOK, Row
<1>5. Unfunded(r, n)
  BY <1>2, <1>4, UnfundedReleased
<1>6. done.entry # Nothing => n.held[done.entry].left = 0
  BY <1>2, <1>3 DEF Emptied, Numbered, HoldsOK
<1>7. n.allocated[Sub(r)] = 0
  BY <1>5 DEF Unfunded
<1>8. /\ done.status \notin {"approval_pending", "sourcing_in_progress"}
      /\ "draft" \in Early /\ "draft" \notin Ended
  BY DEF Ended, Early
<1>9. StatusOK(r, done, n)
  BY <1>5, <1>6, <1>7, <1>8 DEF StatusOK
<1>10. QED
  BY <1>2, <1>3, <1>9 DEF MoneyOK

\* A row with the same reservation and round, of an early status that holds nothing more.
LEMMA MoneyKept ==
    ASSUME NEW m \in Money, NEW r \in Req, NEW row \in Row, MoneyOK(r, row, m),
           row.status \in Early, NEW done \in Row,
           done.entry = row.entry, done.round = row.round, done.status \in {"none", "draft"}
    PROVE  MoneyOK(r, done, m)
<1>1. Numbered(r, done, m)
  BY DEF MoneyOK, Numbered, HoldsOK, ReleasesOK, AmendsUpTo
<1>2. done.status \notin Ended /\ done.status \notin {"approval_pending", "sourcing_in_progress"}
  BY DEF Ended
<1>3. StatusOK(r, done, m)
  BY <1>2 DEF MoneyOK, StatusOK
<1>4. QED
  BY <1>1, <1>3 DEF MoneyOK

\* The next round's reservation.
LEMMA NextKeyNew ==
    ASSUME NEW m \in Money, NEW r \in Req, NEW row \in Row, HoldsOK(r, row, m),
           NEW x \in {"main", "sub"}, NEW k, k = <<r, row.round + 1, x>>
    PROVE  /\ k \in HoldKey /\ k \notin DOMAIN m.held /\ k # Nothing
           /\ k[1] = r /\ k[2] = row.round + 1 /\ k[3] = x
<1>1. row.round \in Nat /\ row.round + 1 \in Nat
  BY DEF Row
<1>2. k[1] = r /\ k[2] = row.round + 1 /\ k[3] = x
  OBVIOUS
<1>3. k \in HoldKey /\ k # Nothing
  BY <1>1, RequisitionsAssumption DEF HoldKey
<1>4. k \notin DOMAIN m.held
  <2>1. ~(row.round + 1 <= row.round)
    BY <1>1
  <2>2. QED
    BY <1>2, <2>1 DEF HoldsOK
<1>5. QED
  BY <1>2, <1>3, <1>4

\* The releases of r are of rounds up to i, and those of round i, other than the one its
\* approval made, leave nothing of an amount a to release.
ReleasesUpTo(r, m, i, a) ==
    \A j \in Nat, x \in Reason :
        <<"release", r, j, x>> \in m.keys => j <= i /\ (j = i /\ x # "approved" => a = 0)

\* A new hold, when nothing is left of the others.
LEMMA NumberedHeld ==
    ASSUME NEW m \in Money, NEW n \in Money, NEW r \in Req, NEW key \in HoldKey, key[1] = r,
           NEW p, NEW a \in Nat, Holds(m, n, key, p, a), NEW done \in Row, done.entry = key,
           key[2] <= done.round, Emptied(r, m, done.round),
           ReleasesUpTo(r, m, done.round, a), AmendsUpTo(r, m, done.round)
    PROVE  Numbered(r, done, n)
<1>1. /\ key \in DOMAIN n.held /\ n.held[key].left = a /\ n.keys = m.keys
      /\ DOMAIN n.held = DOMAIN m.held \cup {key}
      /\ \A k \in DOMAIN m.held : n.held[k] = m.held[k]
  BY DEF Holds
<1>2. \A k \in DOMAIN n.held : k[1] = r => k[2] <= done.round /\ (k # key => n.held[k].left = 0)
  BY <1>1 DEF Emptied
<1>3. QED
  BY <1>1, <1>2 DEF Numbered, HoldsOK, ReleasesOK, ReleasesUpTo, AmendsUpTo

\* After a release, the next round is still to be used.
LEMMA ReleasedUpTo ==
    ASSUME NEW m \in Money, NEW r \in Req, NEW row \in Row, ReleasesOK(r, row, m),
           NEW n, NEW x \in Reason, NEW a,
           n.keys = m.keys \/ n.keys = m.keys \cup {<<"release", r, row.round, x>>}
    PROVE  /\ ReleasesUpTo(r, n, row.round + 1, a)
           /\ \A i : AmendsUpTo(r, m, i) => AmendsUpTo(r, n, i)
           /\ x = "approved" /\ row.entry # Nothing =>
                ReleasesUpTo(r, n, row.round, m.held[row.entry].left)
<1>1. row.round \in Nat
  BY DEF Row
<1>2. ASSUME NEW j \in Nat, NEW y \in Reason, <<"release", r, j, y>> \in n.keys
      PROVE  /\ j <= row.round
             /\ <<"release", r, j, y>> \in m.keys \/ (j = row.round /\ y = x)
  <2>1. <<"release", r, j, y>> = <<"release", r, row.round, x>> => j = row.round /\ y = x
    OBVIOUS
  <2>2. <<"release", r, j, y>> \in m.keys => j <= row.round
    BY DEF ReleasesOK
  <2>3. QED
    BY <1>1, <1>2, <2>1, <2>2
<1>3. ReleasesUpTo(r, n, row.round + 1, a)
  <2>1. \A j \in Nat : j <= row.round => j <= row.round + 1 /\ j # row.round + 1
    BY <1>1
  <2>2. QED
    BY <1>2, <2>1 DEF ReleasesUpTo
<1>4. ASSUME NEW i, AmendsUpTo(r, m, i) PROVE AmendsUpTo(r, n, i)
  <2>1. \A j \in Nat : <<"amend", r, j>> # <<"release", r, row.round, x>>
    OBVIOUS
  <2>2. QED
    BY <1>4, <2>1 DEF AmendsUpTo
<1>5. ASSUME x = "approved", row.entry # Nothing
      PROVE  ReleasesUpTo(r, n, row.round, m.held[row.entry].left)
  BY <1>2, <1>5 DEF ReleasesUpTo, ReleasesOK
<1>6. QED
  BY <1>3, <1>4, <1>5

\* n is u with the reservation of a new round.
NewRound(r, i, u, n, key, p, a) ==
    /\ key # Nothing /\ key \in HoldKey /\ key[1] = r /\ key[3] = "main"
    /\ DOMAIN n.held = DOMAIN u.held \cup {key}
    /\ n.held[key].project = p /\ n.held[key].left = a
    /\ n.allocated = u.allocated
    /\ n.keys = u.keys \/ n.keys = u.keys \cup {<<"release", r, i, "resubmit">>}
    /\ \A q \in Req \ {r} : SameFor(q, u, n)

\* What is left is released, and another amount reserved under the next round.
LEMMA Rereserved ==
    ASSUME NEW u \in Money, NEW r \in Req, NEW row \in Row, HoldsOK(r, row, u),
           ReleasesOK(r, row, u), AmendsUpTo(r, u, row.round + 1), NEW ps,
           NEW key, key = <<r, row.round + 1, "main">>, NEW p \in Place, NEW a \in Nat,
           NEW n, n = Reserve(ReleaseLive(u, r, row, "resubmit"), ps, key, p, a),
           NEW done \in Row, done.entry = key, done.round = row.round + 1
    PROVE  /\ n \in Money /\ Numbered(r, done, n)
           /\ NewRound(r, row.round, u, n, key, p, a)
<1>1. PICK l : l = ReleaseLive(u, r, row, "resubmit")
  OBVIOUS
<1>2. "resubmit" \in Reason /\ "resubmit" # "approved" /\ row.round \in Nat
  BY DEF Reason, Row
<1>3. FreshRelease(r, row, u, "resubmit")
  BY <1>2 DEF FreshRelease, ReleasesOK
<1>4. /\ l \in Money /\ Releases(u, l, row.entry) /\ Emptied(r, l, row.round)
      /\ l.keys = u.keys \/ l.keys = u.keys \cup {<<"release", r, row.round, "resubmit">>}
      /\ \A q \in Req \ {r} : SameFor(q, u, l)
  BY <1>1, <1>2, <1>3, Released
<1>5. /\ key \in HoldKey /\ key \notin DOMAIN u.held /\ key # Nothing /\ key[1] = r
      /\ key[2] = row.round + 1 /\ key[3] = "main"
  BY NextKeyNew
<1>6. key \notin DOMAIN l.held
  BY <1>4, <1>5 DEF Releases
<1>7. n \in Money /\ Holds(l, n, key, p, a)
  BY <1>1, <1>4, <1>5, <1>6, ReserveIs
<1>8. Numbered(r, done, n)
  <2>1. Emptied(r, l, done.round)
    BY <1>2, <1>4, HoldTypes DEF Emptied, HoldKey
  <2>2. ReleasesUpTo(r, l, done.round, a) /\ AmendsUpTo(r, l, done.round)
    <3>1. ReleasesUpTo(r, l, row.round + 1, a) /\ AmendsUpTo(r, l, row.round + 1)
      BY <1>2, <1>4, ReleasedUpTo
    <3>2. QED
      BY <3>1
  <2>3. key[2] <= done.round
    BY <1>2, <1>5
  <2>4. QED
    BY <1>4, <1>5, <1>7, <2>1, <2>2, <2>3, NumberedHeld
<1>9. ASSUME NEW q \in Req \ {r} PROVE SameFor(q, u, n)
  <2>1. SameFor(q, l, n)
    BY <1>4, <1>5, <1>7, HoldFrame
  <2>2. QED
    BY <1>4, <2>1, SameAsBefore
<1>10. /\ DOMAIN n.held = DOMAIN u.held \cup {key}
       /\ n.held[key].project = p /\ n.held[key].left = a
       /\ n.allocated = u.allocated /\ n.keys = l.keys
  BY <1>4, <1>7 DEF Holds, Releases
<1>11. QED
  BY <1>4, <1>5, <1>7, <1>8, <1>9, <1>10 DEF NewRound

\* A key of the next round leaves what was never funded so.
LEMMA UnfundedRereserved ==
    ASSUME NEW m \in Money, NEW r \in Req \ Standalone, NEW i \in Nat, NEW key, key[3] = "main",
           NEW n \in Money, Unfunded(r, m), DOMAIN n.held = DOMAIN m.held \cup {key},
           n.allocated = m.allocated,
           n.keys = m.keys \/ n.keys = m.keys \cup {<<"release", r, i, "resubmit">>}
    PROVE  Unfunded(r, n)
<1>1. \A j \in Nat : /\ <<"fund", r, j>> # <<"release", r, i, "resubmit">>
                     /\ <<"unfund", r, j>> # <<"release", r, i, "resubmit">>
                     /\ <<"release", r, j, "approved">> # <<"release", r, i, "resubmit">>
  OBVIOUS
<1>2. \A j \in Nat : /\ <<"fund", r, j>> \notin n.keys /\ <<"unfund", r, j>> \notin n.keys
                     /\ <<"release", r, j, "approved">> \notin n.keys
  BY <1>1 DEF Unfunded
<1>3. QED
  BY <1>2 DEF Unfunded

\* submit, when the hold it kept does not fit: a new round with a hold of its own.
LEMMA MoneySubmitted ==
    ASSUME NEW m \in Money, NEW r \in Req \ Standalone, NEW row \in Row, MoneyOK(r, row, m),
           row.status \in Early, NEW ps, NEW key, key = <<r, row.round + 1, "main">>,
           NEW n, n = Reserve(ReleaseLive(m, r, row, "resubmit"), ps, key, row.project,
                              row.estimate),
           NEW done \in Row, done.entry = key, done.round = row.round + 1,
           done.status = "approval_pending", done.project = row.project,
           done.estimate = row.estimate
    PROVE  n \in Money /\ MoneyOK(r, done, n) /\ \A q \in Req \ {r} : SameFor(q, m, n)
<1>1. row.round \in Nat /\ row.project \in Place /\ row.estimate \in Nat
  BY DEF Row
<1>2. HoldsOK(r, row, m) /\ ReleasesOK(r, row, m) /\ AmendsUpTo(r, m, row.round) /\ Unfunded(r, m)
  BY DEF MoneyOK, Numbered, StatusOK
<1>3. AmendsUpTo(r, m, row.round + 1)
  <2>1. \A j \in Nat : j <= row.round => j <= row.round + 1
    BY <1>1
  <2>2. QED
    BY <1>2, <2>1 DEF AmendsUpTo
<1>4. r \in Req /\ n \in Money /\ Numbered(r, done, n)
      /\ NewRound(r, row.round, m, n, key, row.project, row.estimate)
  BY <1>1, <1>2, <1>3, Rereserved
<1>5. Unfunded(r, n)
  BY <1>1, <1>2, <1>4, UnfundedRereserved DEF NewRound
<1>6. StatusOK(r, done, n)
  <2>1. "approval_pending" \notin Ended
    BY DEF Ended
  <2>2. QED
    BY <1>4, <1>5, <2>1 DEF StatusOK, NewRound
<1>7. QED
  BY <1>4, <1>6 DEF MoneyOK, NewRound

\* A move leaves what is held, and the releases, as they were.
LEMMA NumberedMoved ==
    ASSUME NEW m \in Money, NEW n \in Money, NEW from, NEW to, NEW a, Moves(m, n, from, to, a),
           NEW r \in Req, NEW row \in Row, HoldsOK(r, row, m), ReleasesOK(r, row, m),
           NEW i \in Nat, NEW j \in Nat, AmendsUpTo(r, m, j), NEW x \in {"fund", "amend", "unfund"},
           x = "amend" => i <= j, NEW key, key = <<x, r, i>>, n.keys = m.keys \cup {key}
    PROVE  HoldsOK(r, row, n) /\ ReleasesOK(r, row, n) /\ AmendsUpTo(r, n, j)
<1>1. n.held = m.held
  BY DEF Moves
<1>2. \A k \in Nat, y \in Reason : <<"release", r, k, y>> # <<x, r, i>>
  OBVIOUS
<1>3. \A k \in Nat : <<"amend", r, k>> = <<x, r, i>> => k <= j
  OBVIOUS
<1>4. HoldsOK(r, row, n)
  BY <1>1 DEF HoldsOK
<1>5. ReleasesOK(r, row, n)
  BY <1>1, <1>2 DEF ReleasesOK
<1>6. AmendsUpTo(r, n, j)
  BY <1>3 DEF AmendsUpTo
<1>7. QED
  BY <1>4, <1>5, <1>6

LEMMA UnfundedNotByAmending ==
    ASSUME NEW m, NEW n, NEW r, NEW key, key[1] # "unfund", NeverUnfunded(r, m),
           n.keys = m.keys \/ n.keys = m.keys \cup {key}
    PROVE  NeverUnfunded(r, n)
  BY DEF NeverUnfunded

\* n is m with an amount moved for r alone.
MovesFor(r, m, n, from, to, a, key) ==
    /\ Moves(m, n, from, to, a) /\ n.keys = m.keys \cup {key}
    /\ \A q \in Req \ {r} : SameFor(q, m, n)

\* Money that moves for r between a project that was there before and one made for r concerns
\* no other requisition.
LEMMA MovedForOne ==
    ASSUME NEW m \in Money, NEW r \in Req, NEW ps, NEW i \in Nat,
           NEW x \in {"fund", "amend", "unfund"},
           NEW key, key = <<x, r, i>>, key \notin m.keys,
           NEW from \in Main \cup {Own(r), Sub(r)}, NEW to \in Main \cup {Own(r), Sub(r)},
           from # to, NEW a \in Int, NEW n, n = MoveFunds(m, ps, key, from, to, a)
    PROVE  n \in Money /\ MovesFor(r, m, n, from, to, a, key) /\ (n.ok => m.ok)
<1>1. key \in MoveKey
  BY MoveKeyIs
<1>2. to \in Project
  BY Places
<1>3. /\ n \in Money /\ Moves(m, n, from, to, a) /\ n.keys = m.keys \cup {key} /\ (n.ok => m.ok)
  BY <1>1, <1>2, MoveIs
<1>4. n.keys = m.keys \cup {<<x, r, i>>}
  BY <1>3
<1>5. ASSUME NEW q \in Req \ {r} PROVE SameFor(q, m, n)
  <2>1. Sub(q) \notin {from, to}
    BY Places
  <2>2. QED
    BY <1>3, <1>4, <2>1, MoveFrame
<1>6. QED
  BY <1>3, <1>5 DEF MovesFor

\* What the requisition points to, read as the record the commands use.
LEMMA HeldIs ==
    ASSUME NEW m, NEW row, row.entry # Nothing
    PROVE  /\ Held(m, row).project = m.held[row.entry].project
           /\ Held(m, row).left = m.held[row.entry].left
  BY DEF Held

\* _amendment_outcome: the new total is held, and the sub-project owns exactly that.
LEMMA MoneyRefunded ==
    ASSUME money \in Money, NEW r \in Req, NEW row \in Row, MoneyOK(r, row, money),
           row.status = "sourcing_in_progress", row.project \in Main \cup {Own(r)},
           NEW total \in Nat, NEW n, n = Refunded(r, row, total),
           NEW done \in Row, done.entry = NextKey(r, row), done.round = row.round + 1,
           done.status = "sourcing_in_progress", done.estimate = total
    PROVE  /\ n \in Money /\ MoneyOK(r, done, n)
           /\ n.held[done.entry].project = money.held[row.entry].project
           /\ \A q \in Req \ {r} : SameFor(q, money, n)
<1> DEFINE p == money.held[row.entry].project
           left == money.held[row.entry].left
           delta == total - left
           key == <<r, row.round + 1, "main">>
           mk == <<"amend", r, row.round + 1>>
           up == IF p # row.project /\ delta > 0
                 THEN MoveFunds(money, project, mk, row.project, p, delta) ELSE money
           m == Reserve(ReleaseLive(up, r, row, "resubmit"), project, key, p, total)
           down == MoveFunds(m, project, mk, p, row.project, -delta)
<1>1. /\ row.round \in Nat /\ row.round + 1 \in Nat /\ row.entry # Nothing
      /\ p \in {Sub(r), Own(r)} /\ left = row.estimate /\ row.estimate \in Nat /\ delta \in Int
      /\ money.allocated[Sub(r)] = IF p = Sub(r) THEN row.estimate ELSE 0
      /\ NeverUnfunded(r, money)
  BY DEF Row, MoneyOK, StatusOK
<1>2. n = IF p # row.project /\ delta < 0 THEN down ELSE m
  BY <1>1, HeldIs DEF Refunded, NextKey
<1>3. HoldsOK(r, row, money) /\ ReleasesOK(r, row, money) /\ AmendsUpTo(r, money, row.round)
  BY DEF MoneyOK, Numbered
<1>4. AmendsUpTo(r, money, row.round + 1) /\ mk \notin money.keys
  <2>1. /\ \A j \in Nat : j <= row.round => j <= row.round + 1
        /\ ~(row.round + 1 <= row.round)
    BY <1>1
  <2>2. QED
    BY <1>1, <1>3, <2>1 DEF AmendsUpTo
<1>5. done.entry = key /\ p \in Place /\ p \in Main \cup {Own(r), Sub(r)}
      /\ row.project \in Main \cup {Own(r), Sub(r)} /\ row.project # Sub(r)
  BY <1>1, Places DEF NextKey, Place
<1>6. mk = <<"amend", r, row.round + 1>> /\ mk[1] # "unfund" /\ row.round + 1 <= row.round + 1
  BY <1>1
<1> HIDE DEF p, left, delta, mk
<1>7. /\ up \in Money /\ HoldsOK(r, row, up) /\ ReleasesOK(r, row, up)
      /\ AmendsUpTo(r, up, row.round + 1)
      /\ NeverUnfunded(r, up)
      /\ up.allocated[Sub(r)] = IF p = Sub(r)
                                THEN IF delta > 0 THEN row.estimate + delta ELSE row.estimate
                                ELSE 0
      /\ delta <= 0 => up = money
      /\ \A q \in Req \ {r} : SameFor(q, money, up)
  <2>1. CASE p # row.project /\ delta > 0
    <3>1. up = MoveFunds(money, project, mk, row.project, p, delta)
      BY <2>1
    <3> HIDE DEF up
    <3>2. up \in Money /\ MovesFor(r, money, up, row.project, p, delta, mk)
      BY <1>1, <1>4, <1>5, <2>1, <3>1, <1>6, MovedForOne
    <3>3. HoldsOK(r, row, up) /\ ReleasesOK(r, row, up) /\ AmendsUpTo(r, up, row.round + 1)
      BY <1>1, <1>6, <1>3, <1>4, <3>2, NumberedMoved DEF MovesFor
    <3>4. NeverUnfunded(r, up)
      BY <1>1, <1>6, <3>2, UnfundedNotByAmending DEF MovesFor
    <3>5. up.allocated[Sub(r)] = IF p = Sub(r) THEN row.estimate + delta ELSE 0
      BY <1>1, <1>5, <2>1, <3>2, Places DEF Moves, MovesFor
    <3>6. delta > 0 /\ ~(delta <= 0)
      BY <1>1, <2>1
    <3>7. QED
      BY <3>2, <3>3, <3>4, <3>5, <3>6 DEF MovesFor
  <2>2. CASE ~(p # row.project /\ delta > 0)
    <3>1. up = money
      BY <2>2
    <3> HIDE DEF up
    <3>2. \A q \in Req \ {r} : SameFor(q, money, up)
      BY <3>1 DEF SameFor
    <3>3. p = Sub(r) => ~(delta > 0)
      BY <1>5, <2>2
    <3>4. QED
      BY <1>1, <1>3, <1>4, <3>1, <3>2, <3>3
  <2>3. QED
    BY <2>1, <2>2
<1> HIDE DEF up
<1>8. m \in Money /\ Numbered(r, done, m) /\ NewRound(r, row.round, up, m, key, p, total)
  BY <1>5, <1>7, Rereserved
<1> HIDE DEF m
<1>9. /\ NeverUnfunded(r, m) /\ \A q \in Req \ {r} : SameFor(q, money, m)
  <2>1. NeverUnfunded(r, m)
    <3>1. PICK k : k = <<"release", r, row.round, "resubmit">>
      OBVIOUS
    <3>2. k[1] # "unfund" /\ (m.keys = up.keys \/ m.keys = up.keys \cup {k})
      BY <1>8, <3>1 DEF NewRound
    <3>3. QED
      BY <1>7, <3>2, UnfundedNotByAmending
  <2>2. ASSUME NEW q \in Req \ {r} PROVE SameFor(q, money, m)
    BY <1>7, <1>8, <2>2, SameAsBefore DEF NewRound
  <2>3. QED
    BY <2>1, <2>2
<1>10. CASE p # row.project /\ delta < 0
  <2>1. n = down
    BY <1>2, <1>10
  <2>2. mk \notin m.keys
    <3>1. up = money /\ mk # <<"release", r, row.round, "resubmit">>
      BY <1>1, <1>7, <1>10 DEF mk
    <3>2. QED
      BY <1>4, <1>8, <3>1 DEF NewRound
  <2>3. -delta \in Int
    BY <1>1
  <2>4. n \in Money /\ MovesFor(r, m, n, p, row.project, -delta, mk)
    BY <1>1, <1>5, <1>8, <1>10, <2>1, <2>2, <2>3, <1>6, MovedForOne
  <2>5. HoldsOK(r, done, m) /\ ReleasesOK(r, done, m) /\ AmendsUpTo(r, m, row.round + 1)
    BY <1>8 DEF Numbered
  <2>6. Numbered(r, done, n)
    <3>1. HoldsOK(r, done, n) /\ ReleasesOK(r, done, n) /\ AmendsUpTo(r, n, row.round + 1)
      BY <1>1, <1>6, <1>8, <2>4, <2>5, NumberedMoved DEF MovesFor
    <3>2. QED
      BY <3>1 DEF Numbered
  <2>7. NeverUnfunded(r, n)
    BY <1>9, <1>6, <2>4, UnfundedNotByAmending DEF MovesFor
  <2>8. n.allocated[Sub(r)] = IF p = Sub(r) THEN total ELSE 0
    <3>1. m.allocated[Sub(r)] = IF p = Sub(r) THEN row.estimate ELSE 0
      BY <1>1, <1>7, <1>8, <1>10 DEF NewRound
    <3>2. Sub(r) \in Project
      BY Places
    <3>3. n.allocated[Sub(r)] = IF p = Sub(r) THEN row.estimate - (-delta) ELSE 0
      BY <1>5, <2>4, <3>1, <3>2 DEF Moves, MovesFor
    <3>4. row.estimate - (-delta) = total
      BY <1>1 DEF delta
    <3>5. QED
      BY <3>3, <3>4
  <2>9. n.held[key].project = p /\ n.held[key].left = total /\ key # Nothing
    BY <1>8, <2>4 DEF NewRound, Moves, MovesFor
  <2>10. StatusOK(r, done, n)
    <3>1. "sourcing_in_progress" \notin Ended \cup Early
      BY DEF Ended, Early
    <3>2. QED
      BY <1>1, <1>5, <2>7, <2>8, <2>9, <3>1 DEF StatusOK
  <2>11. ASSUME NEW q \in Req \ {r} PROVE SameFor(q, money, n)
    BY <1>9, <2>4, SameAsBefore DEF MovesFor
  <2>12. QED
    BY <1>5, <2>4, <2>6, <2>9, <2>10, <2>11 DEF MoneyOK, p
<1>11. CASE ~(p # row.project /\ delta < 0)
  <2>1. n = m
    BY <1>2, <1>11
  <2>2. m.allocated[Sub(r)] = IF p = Sub(r) THEN total ELSE 0
    <3>1. p = Sub(r) => ~(delta < 0)
      BY <1>5, <1>11
    <3>2. row.estimate + delta = total /\ (~(delta < 0) /\ ~(delta > 0) => row.estimate = total)
      BY <1>1 DEF delta
    <3>3. QED
      BY <1>7, <1>8, <3>1, <3>2 DEF NewRound
  <2>3. m.held[key].project = p /\ m.held[key].left = total /\ key # Nothing
    BY <1>8 DEF NewRound
  <2>4. StatusOK(r, done, m)
    <3>1. "sourcing_in_progress" \notin Ended \cup Early
      BY DEF Ended, Early
    <3>2. QED
      BY <1>1, <1>5, <1>9, <2>2, <2>3, <3>1 DEF StatusOK
  <2>5. QED
    BY <1>5, <1>8, <1>9, <2>1, <2>3, <2>4 DEF MoneyOK, p
<1>12. QED
  BY <1>10, <1>11

\* _fund_sub_project: nothing is left on the main project, and the sub-project owns and holds
\* the estimate.
LEMMA MoneyFunded ==
    ASSUME NEW m \in Money, NEW r \in Req, NEW row \in Row, HoldsOK(r, row, m), Unfunded(r, m),
           ReleasesUpTo(r, m, row.round, row.estimate), AmendsUpTo(r, m, row.round),
           row.project \in Main, NEW ps, NEW n, n = FundSub(m, ps, r, row),
           NEW done \in Row, done.entry = <<r, row.round, "sub">>, done.round = row.round,
           done.status = "sourcing_in_progress", done.estimate = row.estimate
    PROVE  /\ n \in Money /\ MoneyOK(r, done, n) /\ n.held[done.entry].project = Sub(r)
           /\ \A q \in Req \ {r} : SameFor(q, m, n)
<1>1. /\ row.round \in Nat /\ row.estimate \in Nat /\ row.estimate \in Int /\ "approved" \in Reason
      /\ row.project \in Main \cup {Own(r), Sub(r)} /\ row.project # Sub(r)
      /\ Sub(r) \in Main \cup {Own(r), Sub(r)} /\ Sub(r) \in Place
  BY Places DEF Row, Reason, Place
<1>2. PICK l : l = ReleaseLive(m, r, row, "approved")
  OBVIOUS
<1>3. PICK rk : rk = <<"release", r, row.round, "approved">>
  OBVIOUS
<1>4. PICK fk : fk = <<"fund", r, row.round>>
  OBVIOUS
<1>5. PICK key : key = <<r, row.round, "sub">>
  OBVIOUS
<1>6. PICK u : u = MoveFunds(l, ps, fk, row.project, Sub(r), row.estimate)
  OBVIOUS
<1>7. n = Reserve(u, ps, key, Sub(r), row.estimate)
  BY <1>2, <1>4, <1>5, <1>6 DEF FundSub
<1>8. /\ l \in Money /\ Releases(m, l, row.entry) /\ Emptied(r, l, row.round)
      /\ l.keys = m.keys \/ l.keys = m.keys \cup {rk}
      /\ \A q \in Req \ {r} : SameFor(q, m, l)
  <2>1. FreshRelease(r, row, m, "approved")
    BY <1>1 DEF FreshRelease, Unfunded
  <2>2. QED
    BY <1>1, <1>2, <1>3, <2>1, Released
<1>9. /\ fk \notin l.keys /\ fk # rk /\ rk[1] # "unfund" /\ fk[1] # "unfund"
      /\ fk \notin m.keys
  BY <1>1, <1>3, <1>4, <1>8 DEF Unfunded
<1>10. u \in Money /\ MovesFor(r, l, u, row.project, Sub(r), row.estimate, fk)
  BY <1>1, <1>4, <1>6, <1>8, <1>9, MovedForOne
<1>11. /\ key \in HoldKey /\ key # Nothing /\ key[1] = r /\ key[2] = row.round /\ key[3] = "sub"
  <2>1. key[1] = r /\ key[2] = row.round /\ key[3] = "sub"
    BY <1>5
  <2>2. key \in HoldKey /\ key # Nothing
    BY <1>1, <1>5, RequisitionsAssumption DEF HoldKey
  <2>3. QED
    BY <2>1, <2>2
<1>12. key \notin DOMAIN u.held
  BY <1>8, <1>10, <1>11 DEF Unfunded, Releases, MovesFor, Moves
<1>13. n \in Money /\ Holds(u, n, key, Sub(r), row.estimate)
  <2>1. PICK p, a : p = Sub(r) /\ a = row.estimate
    OBVIOUS
  <2>2. n = Reserve(u, ps, key, p, a) /\ p \in Place /\ a \in Nat
    BY <1>1, <1>7, <2>1
  <2>3. n \in Money /\ Holds(u, n, key, p, a)
    BY <1>10, <1>11, <1>12, <2>2, ReserveIs
  <2>4. QED
    BY <2>1, <2>3
<1>14. Numbered(r, done, n)
  <2>1. Emptied(r, u, done.round)
    BY <1>8, <1>10 DEF Emptied, MovesFor, Moves
  <2>2. ReleasesUpTo(r, u, done.round, row.estimate)
    <3>1. ASSUME NEW j \in Nat, NEW x \in Reason, <<"release", r, j, x>> \in u.keys
          PROVE  <<"release", r, j, x>> \in m.keys \/ (j = row.round /\ x = "approved")
      <4>1. <<"release", r, j, x>> # fk
        BY <1>4
      <4>2. <<"release", r, j, x>> = rk => j = row.round /\ x = "approved"
        BY <1>3
      <4>3. QED
        BY <1>8, <1>10, <3>1, <4>1, <4>2 DEF MovesFor
    <3>2. row.round <= row.round
      BY <1>1
    <3>3. QED
      BY <3>1, <3>2 DEF ReleasesUpTo
  <2>3. AmendsUpTo(r, u, done.round)
    <3>1. \A j \in Nat : <<"amend", r, j>> # fk /\ <<"amend", r, j>> # rk
      BY <1>3, <1>4
    <3>2. QED
      BY <1>8, <1>10, <3>1 DEF AmendsUpTo, MovesFor
  <2>4. key[2] <= done.round
    BY <1>1, <1>11
  <2>5. QED
    BY <1>1, <1>5, <1>10, <1>11, <1>13, <2>1, <2>2, <2>3, <2>4, NumberedHeld
<1>15. NeverUnfunded(r, n)
  <2>1. NeverUnfunded(r, m)
    BY DEF NeverUnfunded, Unfunded
  <2>2. NeverUnfunded(r, l)
    BY <1>8, <1>9, <2>1, UnfundedNotByAmending
  <2>3. NeverUnfunded(r, u)
    BY <1>9, <1>10, <2>2, UnfundedNotByAmending DEF MovesFor
  <2>4. QED
    BY <1>13, <2>3 DEF Holds, NeverUnfunded
<1>16. n.allocated[Sub(r)] = row.estimate
  <2>1. m.allocated[Sub(r)] = 0 /\ l.allocated = m.allocated
    BY <1>8 DEF Unfunded, Releases
  <2>2. u.allocated[Sub(r)] = 0 + row.estimate
    BY <1>10, <2>1 DEF MovesFor, Moves
  <2>3. QED
    BY <1>1, <1>13, <2>2 DEF Holds
<1>17. n.held[key].project = Sub(r) /\ n.held[key].left = row.estimate
  BY <1>13 DEF Holds
<1>18. StatusOK(r, done, n)
  <2>1. "sourcing_in_progress" \notin Ended \cup Early
    BY DEF Ended, Early
  <2>2. QED
    BY <1>5, <1>11, <1>15, <1>16, <1>17, <2>1 DEF StatusOK
<1>19. ASSUME NEW q \in Req \ {r} PROVE SameFor(q, m, n)
  <2>1. SameFor(q, l, u)
    BY <1>10 DEF MovesFor
  <2>2. SameFor(q, u, n)
    BY <1>10, <1>11, <1>13, HoldFrame
  <2>3. QED
    BY <1>8, <2>1, <2>2, SameAsBefore
<1>20. QED
  BY <1>5, <1>13, <1>14, <1>17, <1>18, <1>19 DEF MoneyOK

\* A Project Request holds nothing before its approval.
LEMMA StandaloneHoldsNothing ==
    ASSUME NEW m \in Money, NEW r \in Standalone, NEW row \in Row, HoldsOK(r, row, m),
           Unfunded(r, m)
    PROVE  /\ row.entry = Nothing
           /\ \A k \in DOMAIN m.held : k[1] # r
  BY DEF HoldsOK, Unfunded

\* The next round of a requisition was not released.
LEMMA NextRoundFresh ==
    ASSUME NEW m, NEW r, NEW row \in Row, Numbered(r, row, m), NEW a
    PROVE  ReleasesUpTo(r, m, row.round + 1, a) /\ AmendsUpTo(r, m, row.round + 1)
<1>1. row.round \in Nat
  BY DEF Row
<1>2. \A j \in Nat : j <= row.round => j <= row.round + 1 /\ j # row.round + 1
  BY <1>1
<1>3. QED
  BY <1>2 DEF Numbered, ReleasesOK, AmendsUpTo, ReleasesUpTo

\* u is m with a budget granted to project p.
Grants(m, u, p) ==
    /\ u.held = m.held /\ u.keys = m.keys
    /\ \A x \in Project \ {p} : u.allocated[x] = m.allocated[x]

LEMMA GrantIs ==
    ASSUME NEW m \in Money, NEW p \in Project, NEW b \in Nat,
           NEW u, u = [m EXCEPT !.allocated[p] = @ + b]
    PROVE  u \in Money /\ Grants(m, u, p)
<1>1. PICK a : a = [m.allocated EXCEPT ![p] = @ + b]
  OBVIOUS
<1>2. u = [m EXCEPT !.allocated = a]
  BY <1>1
<1>3. /\ a \in [Project -> Int] /\ \A x \in Project \ {p} : a[x] = m.allocated[x]
  BY <1>1, HoldTypes
<1>4. u.held = m.held /\ u.keys = m.keys /\ u.allocated = a /\ u \in Money
  BY <1>2, <1>3 DEF Money
<1>5. QED
  BY <1>3, <1>4 DEF Grants

OwnHold(u, ps, r, row) == Reserve(u, ps, NextKey(r, row), Own(r), row.estimate)

\* A Project Request gets a project, a budget and a hold on it.
LEMMA MoneyNew ==
    ASSUME NEW m \in Money, NEW r \in Req, r \in Standalone, NEW row \in Row, MoneyOK(r, row, m),
           row.status \in Early, NEW ps, NEW u \in Money, Grants(m, u, Own(r)),
           NEW key, key = <<r, row.round + 1, "main">>,
           NEW n, n = OwnHold(u, ps, r, row),
           NEW done \in Row, done.entry = key, done.round = row.round + 1,
           done.status = "sourcing_in_progress", done.estimate = row.estimate
    PROVE  /\ n \in Money /\ MoneyOK(r, done, n) /\ n.held[done.entry].project = Own(r)
           /\ \A q \in Req \ {r} : SameFor(q, m, n)
<1>1. /\ row.round \in Nat /\ row.estimate \in Nat /\ Own(r) \in Project /\ Own(r) \in Place
      /\ Sub(r) # Own(r) /\ \A q \in Req : Sub(q) # Own(r) /\ Sub(q) \in Project
  BY Places DEF Row, Place
<1>2. Numbered(r, row, m) /\ HoldsOK(r, row, m) /\ Unfunded(r, m)
  BY DEF MoneyOK, Numbered, StatusOK
<1>3. row.entry = Nothing /\ \A k \in DOMAIN m.held : k[1] # r
  BY <1>2, StandaloneHoldsNothing
<1>4. u.held = m.held /\ u.keys = m.keys
      /\ \A p \in Project \ {Own(r)} : u.allocated[p] = m.allocated[p]
  BY DEF Grants
<1>5. /\ key \in HoldKey /\ key \notin DOMAIN u.held /\ key # Nothing /\ key[1] = r
      /\ key[2] = row.round + 1
  BY <1>2, <1>4, NextKeyNew
<1>6. n \in Money /\ Holds(u, n, key, Own(r), row.estimate)
  <2>1. PICK p, b : p = Own(r) /\ b = row.estimate
    OBVIOUS
  <2>2. n = Reserve(u, ps, key, p, b) /\ p \in Place /\ b \in Nat
    BY <1>1, <2>1 DEF OwnHold, NextKey
  <2>3. n \in Money /\ Holds(u, n, key, p, b)
    BY <1>4, <1>5, <2>2, ReserveIs
  <2>4. QED
    BY <2>1, <2>3
<1>7. Numbered(r, done, n)
  <2>1. Emptied(r, u, done.round)
    BY <1>3, <1>4 DEF Emptied
  <2>2. ReleasesUpTo(r, m, row.round + 1, row.estimate) /\ AmendsUpTo(r, m, row.round + 1)
    BY <1>2, NextRoundFresh
  <2>3. ReleasesUpTo(r, u, done.round, row.estimate) /\ AmendsUpTo(r, u, done.round)
    BY <1>4, <2>2 DEF ReleasesUpTo, AmendsUpTo
  <2>4. key[2] <= done.round
    BY <1>1, <1>5
  <2>5. QED
    BY <1>1, <1>4, <1>5, <1>6, <2>1, <2>3, <2>4, NumberedHeld
<1>8. n.allocated[Sub(r)] = 0 /\ NeverUnfunded(r, n)
  <2>1. m.allocated[Sub(r)] = 0 /\ NeverUnfunded(r, m)
    BY <1>2 DEF Unfunded, NeverUnfunded
  <2>2. QED
    BY <1>1, <1>4, <1>6, <2>1 DEF Holds, NeverUnfunded
<1>9. n.held[key].project = Own(r) /\ n.held[key].left = row.estimate
  BY <1>6 DEF Holds
<1>10. StatusOK(r, done, n)
  <2>1. "sourcing_in_progress" \notin Ended \cup Early
    BY DEF Ended, Early
  <2>2. QED
    BY <1>1, <1>5, <1>8, <1>9, <2>1 DEF StatusOK
<1>11. ASSUME NEW q \in Req \ {r} PROVE SameFor(q, m, n)
  <2>1. SameFor(q, m, u)
    BY <1>1, <1>4 DEF SameFor
  <2>2. SameFor(q, u, n)
    BY <1>4, <1>5, <1>6, HoldFrame
  <2>3. QED
    BY <2>1, <2>2, SameAsBefore
<1>12. QED
  BY <1>6, <1>7, <1>9, <1>10, <1>11 DEF MoneyOK

\* What is reserved on a project is a matter of the reservations alone.
LEMMA ReservedIs ==
    ASSUME NEW m, NEW n, n.held = m.held, NEW p
    PROVE  Reserved(n, p) = Reserved(m, p)
<1> DEFINE Total(h) == MapThenSumSet(LAMBDA k: IF h[k].project = p THEN h[k].left ELSE 0, DOMAIN h)
<1>1. Reserved(n, p) = Total(n.held) /\ Reserved(m, p) = Total(m.held)
  BY DEF Reserved
<1> HIDE DEF Total
<1>2. QED
  BY <1>1

\* stop_approved: nothing is left of the hold, and the sub-project owns nothing.
LEMMA MoneyStopped ==
    ASSUME NEW m \in Money, NEW r \in Req, NEW row \in Row, MoneyOK(r, row, m),
           row.status = "sourcing_in_progress", row.project \in Main \cup {Own(r)},
           NEW x \in Reason, x # "approved",
           NEW l, l = ReleaseLive(m, r, row, x),
           NEW p, p = m.held[row.entry].project,
           NEW n, n = IF p = Sub(r) /\ Available(l, Sub(r)) > 0
                      THEN MoveFunds(l, project, <<"unfund", r, row.round>>, Sub(r), row.project,
                                     Available(l, Sub(r)))
                      ELSE l,
           Reserved(n, Sub(r)) = 0,
           NEW done \in Row, done.entry = row.entry, done.round = row.round, done.status \in Ended
    PROVE  n \in Money /\ MoneyOK(r, done, n) /\ \A q \in Req \ {r} : SameFor(q, m, n)
<1>1. /\ row.round \in Nat /\ row.estimate \in Nat /\ row.entry # Nothing
      /\ row.project \in Main \cup {Own(r), Sub(r)} /\ row.project # Sub(r)
      /\ Sub(r) \in Main \cup {Own(r), Sub(r)} /\ Sub(r) \in Project
      /\ m.allocated[Sub(r)] = IF p = Sub(r) THEN row.estimate ELSE 0
      /\ NeverUnfunded(r, m)
  BY Places DEF Row, MoneyOK, StatusOK
<1>2. PICK rk : rk = <<"release", r, row.round, x>>
  OBVIOUS
<1>3. PICK mk : mk = <<"unfund", r, row.round>>
  OBVIOUS
<1>4. HoldsOK(r, row, m) /\ FreshRelease(r, row, m, x)
  <2>1. row.status \notin Early => (x = "approved" => row.status \in Early)
    OBVIOUS
  <2>2. QED
    BY ReleaseIsFresh DEF MoneyOK, Numbered
<1>5. /\ l \in Money /\ Releases(m, l, row.entry) /\ Emptied(r, l, row.round)
      /\ l.keys = m.keys \/ l.keys = m.keys \cup {rk}
      /\ \A q \in Req \ {r} : SameFor(q, m, l)
  BY <1>2, <1>4, Released
<1>6. Numbered(r, done, l)
  BY <1>2, <1>5, NumberedReleased
<1>7. l.allocated = m.allocated
  BY <1>5 DEF Releases
<1>8. "sourcing_in_progress" \notin Ended /\ "approval_pending" \notin Ended
      /\ Early \cap Ended = {}
  BY DEF Ended, Early
<1>9. CASE p = Sub(r) /\ Available(l, Sub(r)) > 0
  <2>1. PICK a : a = Available(l, Sub(r))
    OBVIOUS
  <2>2. n = MoveFunds(l, project, mk, Sub(r), row.project, a)
    BY <1>3, <1>9, <2>1
  <2>3. mk \notin l.keys
    <3>1. mk # rk
      BY <1>2, <1>3
    <3>2. mk \notin m.keys
      BY <1>1, <1>3 DEF NeverUnfunded
    <3>3. QED
      BY <1>5, <3>1, <3>2
  <2>4. n.held = l.held
    BY <2>2, <2>3, <1>5 DEF MoveFunds, Money
  <2>5. Reserved(l, Sub(r)) = 0
    BY <2>4, ReservedIs
  <2>6. a = l.allocated[Sub(r)] /\ a \in Int
    <3>1. l.allocated[Sub(r)] \in Int
      BY <1>1, <1>5, HoldTypes
    <3>2. QED
      BY <2>1, <2>5, <3>1 DEF Available
  <2>7. n \in Money /\ MovesFor(r, l, n, Sub(r), row.project, a, mk)
    BY <1>1, <1>3, <1>5, <2>2, <2>3, <2>6, MovedForOne
  <2>8. n.allocated[Sub(r)] = 0
    BY <1>1, <2>6, <2>7 DEF MovesFor, Moves
  <2>9. Numbered(r, done, n)
    <3>1. HoldsOK(r, done, l) /\ ReleasesOK(r, done, l) /\ AmendsUpTo(r, l, row.round)
      BY <1>6 DEF Numbered
    <3>2. HoldsOK(r, done, n) /\ ReleasesOK(r, done, n) /\ AmendsUpTo(r, n, row.round)
      BY <1>1, <1>3, <1>5, <2>7, <3>1, NumberedMoved DEF MovesFor
    <3>3. QED
      BY <3>2 DEF Numbered
  <2>10. n.held[done.entry].left = 0
    BY <1>1, <1>4, <1>5, <2>4 DEF Emptied, HoldsOK, Releases
  <2>11. StatusOK(r, done, n)
    BY <1>8, <2>8, <2>10 DEF StatusOK
  <2>12. ASSUME NEW q \in Req \ {r} PROVE SameFor(q, m, n)
    BY <1>5, <2>7, SameAsBefore DEF MovesFor
  <2>13. QED
    BY <2>7, <2>9, <2>11, <2>12 DEF MoneyOK
<1>10. CASE ~(p = Sub(r) /\ Available(l, Sub(r)) > 0)
  <2>1. n = l
    BY <1>10
  <2>2. l.allocated[Sub(r)] = 0
    <3>1. CASE p = Sub(r)
      <4>1. Available(l, Sub(r)) = row.estimate - 0 /\ ~(Available(l, Sub(r)) > 0)
        BY <1>1, <1>7, <1>10, <2>1, <3>1 DEF Available
      <4>2. QED
        BY <1>1, <1>7, <3>1, <4>1
    <3>2. CASE p # Sub(r)
      BY <1>1, <1>7, <3>2
    <3>3. QED
      BY <3>1, <3>2
  <2>3. l.held[done.entry].left = 0
    BY <1>1, <1>4, <1>5 DEF Emptied, HoldsOK, Releases
  <2>4. StatusOK(r, done, l)
    BY <1>8, <2>2, <2>3 DEF StatusOK
  <2>5. QED
    BY <1>5, <1>6, <2>1, <2>4 DEF MoneyOK
<1>11. QED
  BY <1>9, <1>10

-----------------------------------------------------------------------------
(* The invariant: what each requisition holds, where, and who waits for its  *)
(* approval; and what a transaction has read.                                *)

\* Where a requisition and its money are; sub is the status of its sub-project.
PlaceOK(r, row, m, sub) ==
    /\ row.status \in Early =>
         /\ sub = "none"
         /\ r \in Standalone => row.project = Nothing
         /\ r \notin Standalone /\ row.status # "none" => row.project \in Main
    /\ row.status = "sourcing_in_progress" =>
         /\ row.project \in Main \cup {Own(r)}
         /\ sub # "none" <=> m.held[row.entry].project = Sub(r)

\* Its amendment a, its approval's status i and the digest s that was approved.
AwaitOK(r, row, a, i, s) ==
    /\ i = "running" <=> row.status = "approval_pending" \/ a.status = "pending"
    /\ row.status \in Early => a.status = "none"
    /\ row.status = "sourcing_in_progress" =>
         /\ a.status # "none" => a.content.project = row.project
         /\ s.estimate = row.estimate
         /\ r \notin Standalone => s.project = row.project

RowOK(r, row, m, sub, a, i, s) ==
    /\ MoneyOK(r, row, m) /\ PlaceOK(r, row, m, sub) /\ AwaitOK(r, row, a, i, s)
    /\ row.status = "none" => row.version = 0

\* A status is a version: the row that was read has the status of the row of the same version.
ReadOK(t, rows) ==
    t.op # "none" =>
        /\ t.r \in Req /\ t.row \in Row
        /\ t.row.version <= rows[t.r].version
        /\ t.row.version = rows[t.r].version => t.row.status = rows[t.r].status
        /\ t.op = "approval_pending" => t.row.status = "draft"

Inv ==
    /\ TypeOK
    /\ \A r \in Req :
         RowOK(r, req[r], money, project[Sub(r)], amendment[r], instance[r], approved[r])
    /\ \A w \in Worker : ReadOK(tx[w], req)

\* What a requisition holds and waits for does not depend on what concerns others.
LEMMA RowFramed ==
    ASSUME NEW q \in Req, NEW row \in Row, NEW m \in Money, NEW n \in Money, SameFor(q, m, n),
           NEW sub, NEW a, NEW i, NEW s, RowOK(q, row, m, sub, a, i, s)
    PROVE  RowOK(q, row, n, sub, a, i, s)
<1>1. /\ MoneyOK(q, row, m) /\ PlaceOK(q, row, m, sub) /\ AwaitOK(q, row, a, i, s)
      /\ row.status = "none" => row.version = 0
  BY DEF RowOK
<1>2. MoneyOK(q, row, n)
  BY <1>1, MoneyFramed
<1>3. row.status = "sourcing_in_progress" => n.held[row.entry].project = m.held[row.entry].project
  <2>1. row.entry # Nothing =>
          row.entry \in HoldKey /\ row.entry \in DOMAIN m.held /\ row.entry[1] = q
    BY <1>1 DEF MoneyOK, Numbered, HoldsOK, Row
  <2>2. row.status = "sourcing_in_progress" => row.entry # Nothing
    BY <1>1 DEF MoneyOK, StatusOK
  <2>3. QED
    BY <2>1, <2>2 DEF SameFor
<1>4. PlaceOK(q, row, n, sub)
  BY <1>1, <1>3 DEF PlaceOK
<1>5. QED
  BY <1>1, <1>2, <1>4 DEF RowOK

\* A step that writes r's row, last snapshot, amendment, approval and digest.
Writes(r, row, ap, a, i, s) ==
    /\ req' = [req EXCEPT ![r] = row]
    /\ applied' = [applied EXCEPT ![r] = ap]
    /\ amendment' = [amendment EXCEPT ![r] = a]
    /\ instance' = [instance EXCEPT ![r] = i]
    /\ approved' = [approved EXCEPT ![r] = s]

\* The values it writes are of their types.
Typed(row, ap, a, i, s) ==
    /\ row \in Row /\ ap \in ContentRow \cup {Nothing} /\ a \in Amendment
    /\ a.status # "none" => a.content \in ContentRow
    /\ i \in Instance /\ s \in MaterialRow \cup {Nothing}

\* The money and the projects that change are r's.
Others(r) ==
    /\ money' \in Money /\ project' \in [Project -> ProjectStatus]
    /\ \A q \in Req \ {r} : SameFor(q, money, money') /\ project'[Sub(q)] = project[Sub(q)]

\* The row that replaces old is the same version only with the same status.
Versioned(old, row) ==
    old.version <= row.version /\ (old.version = row.version => old.status = row.status)

\* The approval in force and what q asks for stay as they are.
Stays(q) == Approved(q) /\ req'[q] = req[q] /\ approved'[q] = approved[q]

\* A step of the running amendment of q replaces its expired code.
Replaces(q) ==
    /\ Approved(q) /\ amendment[q].status = "pending" /\ amendment'[q].status = "pending"
    /\ req[q].code \notin usable /\ approved'[q] = approved[q]

\* What a step makes of the cover of q.
CoverStep(q) == Approved(q)' => Covered(q)' \/ Stays(q) \/ Replaces(q)
Covers == \A q \in Req : CoverStep(q)

\* A transaction goes on or ends.
TxKept == tx' \in [Worker -> Tx] /\ \A w \in Worker : tx'[w] \in {tx[w], Idle}

LEMMA OneStep ==
    ASSUME Inv, NEW r \in Req, NEW row, NEW ap, NEW a, NEW i, NEW s, Writes(r, row, ap, a, i, s),
           Typed(row, ap, a, i, s), Others(r), Versioned(req[r], row), TxKept,
           usable' \subseteq Code,
           RowOK(r, row, money', project'[Sub(r)], a, i, s)
    PROVE  Inv'
<1>1. TypeOK'
  <2>1. req' \in [Req -> Row]
    BY DEF Inv, TypeOK, Writes, Typed
  <2>2. applied' \in [Req -> ContentRow \cup {Nothing}]
    BY DEF Inv, TypeOK, Writes, Typed
  <2>3. amendment' \in [Req -> Amendment]
    BY DEF Inv, TypeOK, Writes, Typed
  <2>4. \A q \in Req : amendment'[q].status # "none" => amendment'[q].content \in ContentRow
    BY DEF Inv, TypeOK, Writes, Typed
  <2>5. instance' \in [Req -> Instance]
    BY DEF Inv, TypeOK, Writes, Typed
  <2>6. approved' \in [Req -> MaterialRow \cup {Nothing}]
    BY DEF Inv, TypeOK, Writes, Typed
  <2>7. QED
    BY <2>1, <2>2, <2>3, <2>4, <2>5, <2>6 DEF TypeOK, Others, TxKept
<1>2. /\ req'[r] = row /\ amendment'[r] = a /\ instance'[r] = i /\ approved'[r] = s
      /\ \A q \in Req \ {r} : /\ req'[q] = req[q] /\ amendment'[q] = amendment[q]
                              /\ instance'[q] = instance[q] /\ approved'[q] = approved[q]
  BY DEF Inv, TypeOK, Writes
<1>3. ASSUME NEW q \in Req
      PROVE  RowOK(q, req'[q], money', project'[Sub(q)], amendment'[q], instance'[q], approved'[q])
  <2>1. CASE q = r
    BY <1>2, <2>1
  <2>2. CASE q # r
    <3>1. /\ req'[q] = req[q] /\ amendment'[q] = amendment[q] /\ instance'[q] = instance[q]
          /\ approved'[q] = approved[q] /\ project'[Sub(q)] = project[Sub(q)]
          /\ SameFor(q, money, money') /\ money \in Money /\ money' \in Money /\ req[q] \in Row
      BY <1>2, <2>2 DEF Others, Inv, TypeOK
    <3>2. RowOK(q, req[q], money, project[Sub(q)], amendment[q], instance[q], approved[q])
      BY DEF Inv
    <3>3. RowOK(q, req[q], money', project[Sub(q)], amendment[q], instance[q], approved[q])
      BY <3>1, <3>2, RowFramed
    <3>4. QED
      BY <3>1, <3>3
  <2>3. QED
    BY <2>1, <2>2
<1>4. ASSUME NEW w \in Worker PROVE ReadOK(tx'[w], req')
  <2>1. CASE tx'[w] = Idle
    BY <2>1 DEF ReadOK, Idle
  <2>2. CASE tx'[w] = tx[w] /\ tx[w].op # "none"
    <3>1. PICK t : t = tx[w]
      OBVIOUS
    <3>2. ReadOK(t, req) /\ t.op # "none"
      BY <2>2, <3>1 DEF Inv
    <3>3. /\ t.r \in Req /\ t.row \in Row /\ t.row.version \in Nat
          /\ req[t.r].version \in Nat /\ req'[t.r].version \in Nat
      BY <1>1, <3>2 DEF ReadOK, Inv, TypeOK, Row
    <3>4. Versioned(req[t.r], req'[t.r])
      BY <1>2, <3>3 DEF Versioned
    <3>5. ReadOK(t, req')
      BY <3>2, <3>3, <3>4 DEF ReadOK, Versioned
    <3>6. QED
      BY <2>2, <3>1, <3>5
  <2>3. CASE tx'[w] = tx[w] /\ tx[w].op = "none"
    BY <2>3 DEF ReadOK
  <2>4. QED
    BY <2>1, <2>2, <2>3 DEF TxKept
<1>5. QED
  BY <1>1, <1>3, <1>4 DEF Inv

LEMMA Unwritten ==
    ASSUME Inv, NEW r \in Req
    PROVE  /\ req = [req EXCEPT ![r] = req[r]] /\ applied = [applied EXCEPT ![r] = applied[r]]
           /\ amendment = [amendment EXCEPT ![r] = amendment[r]]
           /\ instance = [instance EXCEPT ![r] = instance[r]]
           /\ approved = [approved EXCEPT ![r] = approved[r]]
  BY DEF Inv, TypeOK

\* A step that writes one row and its approval changes no other cover.
LEMMA CoverOne ==
    ASSUME Inv, NEW r \in Req, NEW row, req' = [req EXCEPT ![r] = row], NEW s,
           approved' = [approved EXCEPT ![r] = s],
           row.status = "sourcing_in_progress" /\ r \notin Standalone =>
             s = Material(Content(row)) \/ Stays(r) \/ Replaces(r)
    PROVE  Covers
<1>1. /\ req'[r] = row /\ approved'[r] = s
      /\ \A q \in Req \ {r} : req'[q] = req[q] /\ approved'[q] = approved[q]
  BY DEF Inv, TypeOK
<1>2. ASSUME NEW q \in Req PROVE CoverStep(q)
  <2>1. CASE q = r
    BY <1>1, <2>1 DEF CoverStep, Approved, Covered
  <2>2. CASE q # r
    BY <1>1, <2>2 DEF CoverStep, Approved, Stays
  <2>3. QED
    BY <2>1, <2>2
<1>3. QED
  BY <1>2 DEF Covers

LEMMA MoneyStands ==
    ASSUME Inv, NEW r \in Req, money' = money, project' = project
    PROVE  Others(r)
<1>1. money \in Money /\ project \in [Project -> ProjectStatus]
  BY DEF Inv, TypeOK
<1>2. \A q \in Req : SameFor(q, money, money)
  BY DEF SameFor
<1>3. QED
  BY <1>1, <1>2 DEF Others

LEMMA TxEnds ==
    ASSUME Inv, NEW w \in Worker, Ends(w)
    PROVE  TxKept
<1>1. Idle \in Tx /\ tx \in [Worker -> Tx]
  BY DEF Idle, Tx, Inv, TypeOK
<1>2. QED
  BY <1>1 DEF Ends, TxKept

LEMMA TxStands ==
    ASSUME Inv, tx' = tx
    PROVE  TxKept
  BY DEF Inv, TypeOK, TxKept

\* What the invariant says of a requisition.
LEMMA RowIs ==
    ASSUME Inv, NEW r \in Req
    PROVE  /\ Typed(req[r], applied[r], amendment[r], instance[r], approved[r])
           /\ RowOK(r, req[r], money, project[Sub(r)], amendment[r], instance[r], approved[r])
           /\ MoneyOK(r, req[r], money)
           /\ PlaceOK(r, req[r], money, project[Sub(r)])
           /\ AwaitOK(r, req[r], amendment[r], instance[r], approved[r])
           /\ req[r] \in Row /\ money \in Money /\ usable \subseteq Code
           /\ project \in [Project -> ProjectStatus]
  BY DEF Inv, TypeOK, Typed, RowOK

-----------------------------------------------------------------------------
(* Every step keeps the invariant.                                           *)

\* Drafting.
LEMMA Drafted ==
    ASSUME Inv, NEW r \in Req, req[r].status \in {"none", "draft"}, NEW done \in Row,
           done.entry = req[r].entry, done.round = req[r].round, done.status = "draft",
           req[r].version + 1 = done.version,
           r \in Standalone => done.project = Nothing, r \notin Standalone => done.project \in Main,
           req' = [req EXCEPT ![r] = done],
           UNCHANGED <<applied, amendment, instance, approved, money, project, usable, tx>>
    PROVE  Inv'
<1>1. PICK row, ap, a, i, s : /\ row = req[r] /\ ap = applied[r] /\ a = amendment[r]
                              /\ i = instance[r] /\ s = approved[r]
  OBVIOUS
<1>2. /\ Typed(row, ap, a, i, s) /\ MoneyOK(r, row, money) /\ row \in Row /\ money \in Money
      /\ PlaceOK(r, row, money, project[Sub(r)]) /\ AwaitOK(r, row, a, i, s)
      /\ usable \subseteq Code
  BY <1>1, RowIs
<1>3. row.status \in Early /\ row.status # "approval_pending"
      /\ done.status \in Early /\ done.status \in {"none", "draft"}
  BY <1>1 DEF Early
<1>4. Writes(r, done, ap, a, i, s)
  BY <1>1, Unwritten DEF Writes
<1>5. Typed(done, ap, a, i, s)
  BY <1>2 DEF Typed
<1>6. MoneyOK(r, done, money)
  BY <1>1, <1>2, <1>3, MoneyKept
<1>7. PlaceOK(r, done, money, project[Sub(r)])
  BY <1>2, <1>3 DEF PlaceOK
<1>8. AwaitOK(r, done, a, i, s)
  BY <1>2, <1>3 DEF AwaitOK
<1>9. RowOK(r, done, money', project'[Sub(r)], a, i, s)
  BY <1>6, <1>7, <1>8 DEF RowOK
<1>10. Versioned(req[r], done)
  BY <1>1, <1>2 DEF Versioned, Row
<1>11. Others(r) /\ TxKept
  BY MoneyStands, TxStands
<1>12. QED
  BY <1>2, <1>4, <1>5, <1>9, <1>10, <1>11, OneStep

LEMMA CreateStep ==
    ASSUME Inv, NEW r \in Req, NEW p \in Main \cup {Nothing}, Create(r, p)
    PROVE  Inv'
<1>1. PICK done : done = [req[r] EXCEPT !.status = "draft", !.version = 1, !.project = p]
  OBVIOUS
<1>2. /\ req[r] \in Row /\ p \in Place /\ req[r].status = "none" /\ req[r].version = 0
      /\ "draft" \in Status
  BY RowIs, RequisitionsAssumption DEF Create, Place, Project, RowOK, Status, Early
<1>3. /\ done \in Row /\ done.entry = req[r].entry /\ done.round = req[r].round
      /\ done.status = "draft" /\ done.version = 1 /\ done.project = p
  BY <1>1, <1>2 DEF Row
<1>4. req' = [req EXCEPT ![r] = done]
  BY <1>1 DEF Create
<1>5. QED
  <2>1. /\ r \in Standalone => done.project = Nothing
        /\ r \notin Standalone => done.project \in Main
        /\ req[r].version + 1 = done.version
    BY <1>2, <1>3 DEF Create
  <2>2. UNCHANGED <<applied, amendment, instance, approved, money, project, usable, tx>>
    BY DEF Create
  <2>3. QED
    BY <1>2, <1>3, <1>4, <2>1, <2>2, Drafted

LEMMA UpdateHeaderStep ==
    ASSUME Inv, NEW r \in Req, NEW p \in Main \cup {Nothing}, NEW c \in usable, NEW t \in Texts,
           UpdateHeader(r, p, c, t)
    PROVE  Inv'
<1>1. PICK done : done = [req[r] EXCEPT !.project = p, !.code = c, !.text = t,
                                        !.version = req[r].version + 1]
  OBVIOUS
<1>2. /\ req[r] \in Row /\ p \in Place /\ t \in 0..1 /\ c \in Code /\ req[r].status = "draft"
      /\ req[r].version + 1 \in Nat
  BY RowIs, RequisitionsAssumption DEF UpdateHeader, Place, Project, Texts, Row
<1>3. /\ done \in Row /\ done.entry = req[r].entry /\ done.round = req[r].round
      /\ done.status = "draft" /\ done.version = req[r].version + 1 /\ done.project = p
  BY <1>1, <1>2 DEF Row
<1>4. req' = [req EXCEPT ![r] = done]
  BY <1>1 DEF UpdateHeader
<1>5. (r \in Standalone => p = Nothing) /\ (r \notin Standalone => p \in Main)
  BY <1>2, RowIs DEF UpdateHeader, PlaceOK, Early
<1>6. QED
  BY <1>2, <1>3, <1>4, <1>5, Drafted DEF UpdateHeader

LEMMA WriteLinesStep ==
    ASSUME Inv, NEW r \in Req, NEW e \in 0..MaxEstimate, WriteLines(r, e)
    PROVE  Inv'
<1>1. PICK done : done = [req[r] EXCEPT !.estimate = e, !.version = req[r].version + 1]
  OBVIOUS
<1>2. /\ req[r] \in Row /\ e \in Nat /\ req[r].status = "draft" /\ req[r].version + 1 \in Nat
  BY RowIs, RequisitionsAssumption DEF WriteLines, Row
<1>3. /\ done \in Row /\ done.entry = req[r].entry /\ done.round = req[r].round
      /\ done.status = "draft" /\ done.version = req[r].version + 1
      /\ done.project = req[r].project
  BY <1>1, <1>2 DEF Row
<1>4. req' = [req EXCEPT ![r] = done]
  BY <1>1 DEF WriteLines
<1>5. /\ r \in Standalone => done.project = Nothing
      /\ r \notin Standalone => done.project \in Main
  BY <1>2, <1>3, RowIs DEF PlaceOK, Early
<1>6. QED
  BY <1>2, <1>3, <1>4, <1>5, Drafted DEF WriteLines

\* Amendments that nobody decides on.
LEMMA AmendmentWritten ==
    ASSUME Inv, NEW r \in Req, NEW a \in Amendment, a.status # "none" => a.content \in ContentRow,
           AwaitOK(r, req[r], a, instance[r], approved[r]),
           amendment' = [amendment EXCEPT ![r] = a],
           UNCHANGED <<req, applied, instance, approved, money, project, usable, tx>>
    PROVE  Inv'
<1>1. PICK row, ap, i, s : /\ row = req[r] /\ ap = applied[r] /\ i = instance[r] /\ s = approved[r]
  OBVIOUS
<1>2. /\ Typed(row, ap, amendment[r], i, s) /\ row \in Row /\ usable \subseteq Code
      /\ RowOK(r, row, money, project[Sub(r)], amendment[r], i, s)
  BY <1>1, RowIs
<1>3. Writes(r, row, ap, a, i, s)
  BY <1>1, Unwritten DEF Writes
<1>4. Typed(row, ap, a, i, s)
  BY <1>2 DEF Typed
<1>5. RowOK(r, row, money', project'[Sub(r)], a, i, s)
  BY <1>1, <1>2 DEF RowOK
<1>6. Versioned(req[r], row)
  BY <1>1, <1>2 DEF Versioned, Row
<1>7. Others(r) /\ TxKept
  BY MoneyStands, TxStands
<1>8. QED
  BY <1>2, <1>3, <1>4, <1>5, <1>6, <1>7, OneStep

LEMMA ContentIs ==
    ASSUME NEW row \in Row
    PROVE  /\ Content(row) \in ContentRow /\ Content(row).project = row.project
           /\ Content(row).estimate = row.estimate /\ Content(row).code = row.code
           /\ Content(row).text = row.text
  BY DEF Row, Content, ContentRow

LEMMA OpenAmendmentStep ==
    ASSUME Inv, NEW r \in Req, OpenAmendment(r)
    PROVE  Inv'
<1>1. PICK a : a = [status |-> "draft", content |-> Content(req[r]), base |-> req[r].version]
  OBVIOUS
<1>2. /\ req[r] \in Row /\ req[r].status = "sourcing_in_progress" /\ amendment[r].status = "none"
      /\ AwaitOK(r, req[r], amendment[r], instance[r], approved[r]) /\ req[r].version \in Nat
  BY RowIs DEF OpenAmendment, Row
<1>3. /\ a \in Amendment /\ a.content \in ContentRow /\ a.status = "draft"
      /\ a.content.project = req[r].project
  BY <1>1, <1>2, ContentIs DEF Amendment
<1>4. AwaitOK(r, req[r], a, instance[r], approved[r])
  BY <1>2, <1>3 DEF AwaitOK, Early
<1>5. amendment' = [amendment EXCEPT ![r] = a]
  BY <1>1 DEF OpenAmendment
<1>6. QED
  BY <1>3, <1>4, <1>5, AmendmentWritten DEF OpenAmendment

LEMMA PutAmendmentStep ==
    ASSUME Inv, NEW r \in Req, NEW e \in 1..MaxEstimate, NEW t \in Texts, PutAmendment(r, e, t)
    PROVE  Inv'
<1>1. PICK c : c = [amendment[r].content EXCEPT !.estimate = e, !.text = t]
  OBVIOUS
<1>2. PICK a : a = [amendment[r] EXCEPT !.content = c]
  OBVIOUS
<1>3. /\ req[r] \in Row /\ req[r].status = "sourcing_in_progress" /\ amendment[r].status = "draft"
      /\ AwaitOK(r, req[r], amendment[r], instance[r], approved[r])
      /\ amendment[r] \in Amendment /\ amendment[r].content \in ContentRow
  BY RowIs DEF PutAmendment, Typed
<1>4. e \in Nat /\ t \in 0..1
  BY RequisitionsAssumption DEF Texts
<1>5. c \in ContentRow /\ c.project = amendment[r].content.project
  BY <1>1, <1>3, <1>4 DEF ContentRow
<1>6. a \in Amendment /\ a.content = c /\ a.status = "draft"
  BY <1>2, <1>3, <1>5 DEF Amendment
<1>7. AwaitOK(r, req[r], a, instance[r], approved[r])
  BY <1>3, <1>5, <1>6 DEF AwaitOK, Early
<1>8. amendment' = [amendment EXCEPT ![r] = a]
  BY <1>1, <1>2 DEF PutAmendment
<1>9. QED
  BY <1>5, <1>6, <1>7, <1>8, AmendmentWritten DEF PutAmendment

LEMMA NoAmendmentIs == NoAmendment \in Amendment /\ NoAmendment.status = "none"
  BY DEF NoAmendment, Amendment

LEMMA DeleteAmendmentStep ==
    ASSUME Inv, NEW r \in Req, DeleteAmendment(r)
    PROVE  Inv'
<1>1. /\ AwaitOK(r, req[r], amendment[r], instance[r], approved[r]) /\ amendment[r].status = "draft"
  BY RowIs DEF DeleteAmendment
<1>2. AwaitOK(r, req[r], NoAmendment, instance[r], approved[r])
  BY <1>1, NoAmendmentIs DEF AwaitOK
<1>3. QED
  BY <1>2, NoAmendmentIs, AmendmentWritten DEF DeleteAmendment

LEMMA SubstituteStep ==
    ASSUME Inv, NEW r \in Req, Substitute(r)
    PROVE  Inv' /\ Covers
<1>1. PICK code \in usable : /\ req' = [req EXCEPT ![r] = [req[r] EXCEPT !.code = code]]
                             /\ approved' = Restamp(r, [req[r] EXCEPT !.code = code])
  BY DEF Substitute
<1>2. PICK done : done = [req[r] EXCEPT !.code = code]
  OBVIOUS
<1>3. PICK s : s = IF r \in Standalone THEN approved[r] ELSE Material(Content(done))
  OBVIOUS
<1>4. PICK row, ap, i, a : /\ row = req[r] /\ ap = applied[r] /\ i = instance[r] /\ a = amendment[r]
  OBVIOUS
<1>5. /\ Typed(row, ap, a, i, approved[r]) /\ row \in Row /\ usable \subseteq Code
      /\ MoneyOK(r, row, money) /\ PlaceOK(r, row, money, project[Sub(r)])
      /\ AwaitOK(r, row, a, i, approved[r]) /\ row.status = "sourcing_in_progress"
      /\ money \in Money
  BY <1>4, RowIs DEF Substitute
<1>6. /\ done \in Row /\ done.status = row.status /\ done.project = row.project
      /\ done.estimate = row.estimate /\ done.version = row.version /\ done.entry = row.entry
      /\ done.round = row.round /\ done.text = row.text
  BY <1>2, <1>4, <1>5 DEF Row
<1>7. /\ Material(Content(done)) \in MaterialRow /\ Material(Content(done)).estimate = row.estimate
      /\ Material(Content(done)).project = row.project
  BY <1>6, ContentIs DEF Material, MaterialRow, ContentRow
<1>8. Writes(r, done, ap, a, i, s)
  <2>1. req' = [req EXCEPT ![r] = done] /\ approved' = Restamp(r, done)
    BY <1>1, <1>2
  <2>2. Restamp(r, done) = [approved EXCEPT ![r] = s]
    BY <1>3, Unwritten DEF Restamp
  <2>3. QED
    BY <1>4, <2>1, <2>2, Unwritten DEF Writes, Substitute
<1>9. Typed(done, ap, a, i, s)
  BY <1>3, <1>5, <1>6, <1>7 DEF Typed
<1>10. MoneyOK(r, done, money)
  BY <1>5, <1>6 DEF MoneyOK, Numbered, HoldsOK, ReleasesOK, AmendsUpTo, StatusOK
<1>11. PlaceOK(r, done, money, project[Sub(r)])
  BY <1>5, <1>6 DEF PlaceOK
<1>12. AwaitOK(r, done, a, i, s)
  BY <1>3, <1>5, <1>6, <1>7 DEF AwaitOK
<1>13. RowOK(r, done, money', project'[Sub(r)], a, i, s)
  BY <1>5, <1>6, <1>10, <1>11, <1>12 DEF RowOK, Substitute
<1>14. Versioned(req[r], done)
  BY <1>4, <1>5, <1>6 DEF Versioned, Row
<1>15. Others(r) /\ TxKept /\ usable' \subseteq Code
  BY <1>5, MoneyStands, TxStands DEF Substitute
<1>16. Inv'
  BY <1>8, <1>9, <1>13, <1>14, <1>15, OneStep
<1>17. Covers
  BY <1>3, <1>8, CoverOne DEF Writes
<1>18. QED
  BY <1>16, <1>17

\* A transaction begins, goes on or ends; nothing is stored.
LEMMA TxStep ==
    ASSUME Inv, NEW w \in Worker, NEW t \in Tx, ReadOK(t, req), tx' = [tx EXCEPT ![w] = t],
           UNCHANGED <<req, applied, amendment, instance, approved, money, project, usable>>
    PROVE  Inv'
<1>1. tx \in [Worker -> Tx]
  BY DEF Inv, TypeOK
<1>2. tx' \in [Worker -> Tx]
  BY <1>1
<1>3. TypeOK'
  BY <1>2 DEF Inv, TypeOK
<1>4. \A v \in Worker : ReadOK(tx'[v], req')
  BY <1>1 DEF Inv
<1>5. \A r \in Req :
        RowOK(r, req'[r], money', project'[Sub(r)], amendment'[r], instance'[r], approved'[r])
  BY DEF Inv
<1>6. QED
  BY <1>3, <1>4, <1>5 DEF Inv

LEMMA HeldType ==
    ASSUME NEW r \in Req, NEW row \in Row, NEW m \in Money, MoneyOK(r, row, m)
    PROVE  Held(m, row) \in Rest \cup {Nothing}
<1>1. row.entry # Nothing => row.entry \in DOMAIN m.held
  BY DEF MoneyOK, Numbered, HoldsOK
<1>2. QED
  BY <1>1, HoldTypes DEF Held, Rest

LEMMA BeginStep ==
    ASSUME Inv, NEW w \in Worker, NEW r \in Req, NEW op \in Commands, Begin(w, r, op)
    PROVE  Inv'
<1>1. PICK held : held = Held(money, req[r])
  OBVIOUS
<1>2. PICK t : t = [op |-> op, r |-> r, stage |-> "read", row |-> req[r], held |-> held,
                    amendment |-> amendment[r]]
  OBVIOUS
<1>3. /\ req[r] \in Row /\ amendment[r] \in Amendment /\ req[r].version \in Nat
      /\ held \in Rest \cup {Nothing}
  BY <1>1, RowIs, HeldType DEF Typed, Row
<1>4. /\ t \in Tx /\ t.op = op /\ t.r = r /\ t.row = req[r]
  BY <1>2, <1>3 DEF Tx
<1>5. op = "approval_pending" => req[r].status = "draft"
  BY DEF Begin, Begins
<1>6. ReadOK(t, req)
  BY <1>3, <1>4, <1>5 DEF ReadOK
<1>7. tx' = [tx EXCEPT ![w] = t]
  BY <1>1, <1>2 DEF Begin
<1>8. QED
  BY <1>4, <1>6, <1>7, TxStep DEF Begin

LEMMA RefuseStep ==
    ASSUME Inv, NEW w \in Worker, Refuse(w)
    PROVE  Inv'
<1>1. Idle \in Tx /\ ReadOK(Idle, req)
  BY DEF Idle, Tx, ReadOK
<1>2. QED
  BY <1>1, TxStep DEF Refuse

LEMMA StopClearStep ==
    ASSUME Inv, NEW w \in Worker, StopClear(w)
    PROVE  Inv'
<1>1. PICK t : t = [tx[w] EXCEPT !.stage = "clear"]
  OBVIOUS
<1>2. tx[w] \in Tx /\ ReadOK(tx[w], req)
  BY DEF Inv, TypeOK
<1>3. t \in Tx /\ t.op = tx[w].op /\ t.r = tx[w].r /\ t.row = tx[w].row
  BY <1>1, <1>2 DEF Tx
<1>4. ReadOK(t, req)
  BY <1>2, <1>3 DEF ReadOK
<1>5. tx' = [tx EXCEPT ![w] = t]
  BY <1>1 DEF StopClear
<1>6. QED
  BY <1>3, <1>4, <1>5, TxStep DEF StopClear

\* Codes and main projects.
LEMMA CodesStep ==
    ASSUME Inv, usable' \subseteq Code, project' \in [Project -> ProjectStatus],
           \A r \in Req : project'[Sub(r)] = project[Sub(r)],
           UNCHANGED <<req, applied, amendment, instance, approved, money, tx>>
    PROVE  Inv'
<1>1. TypeOK'
  BY DEF Inv, TypeOK
<1>2. \A r \in Req :
        RowOK(r, req'[r], money', project'[Sub(r)], amendment'[r], instance'[r], approved'[r])
  BY DEF Inv
<1>3. \A w \in Worker : ReadOK(tx'[w], req')
  BY DEF Inv
<1>4. QED
  BY <1>1, <1>2, <1>3 DEF Inv

LEMMA ChangeCodeStep ==
    ASSUME Inv, ChangeCode
    PROVE  Inv'
<1>1. usable' \subseteq Code /\ project \in [Project -> ProjectStatus] /\ project' = project
  BY DEF Inv, TypeOK, Code, ChangeCode
<1>2. QED
  BY <1>1, CodesStep DEF ChangeCode

LEMMA ProjectStep ==
    ASSUME Inv, NEW p \in Main, Defer(p) \/ Reactivate(p) \/ \E o \in BOOLEAN : Close(p, o)
    PROVE  Inv'
<1>1. PICK s \in ProjectStatus : project' = [project EXCEPT ![p] = s]
  BY DEF Defer, Reactivate, Close, ProjectStatus
<1>2. project \in [Project -> ProjectStatus] /\ usable' = usable /\ usable \subseteq Code
  BY DEF Inv, TypeOK, Defer, Reactivate, Close
<1>3. project' \in [Project -> ProjectStatus]
  BY <1>1, <1>2
<1>4. ASSUME NEW r \in Req PROVE project'[Sub(r)] = project[Sub(r)]
  BY <1>1, <1>2, Places
<1>5. UNCHANGED <<req, applied, amendment, instance, approved, money, tx>>
  BY DEF Defer, Reactivate, Close
<1>6. QED
  BY <1>2, <1>3, <1>4, <1>5, CodesStep

LEMMA MovedIs ==
    ASSUME NEW row \in Row, NEW to \in Status, NEW done, done = Moved(row, to)
    PROVE  /\ done \in Row /\ done.status = to /\ done.version = row.version + 1
           /\ done.project = row.project /\ done.estimate = row.estimate /\ done.code = row.code
           /\ done.text = row.text /\ done.entry = row.entry /\ done.round = row.round
           /\ row.version \in Nat
<1>1. row.version \in Nat /\ row.version + 1 \in Nat
  BY DEF Row
<1>2. QED
  BY <1>1 DEF Moved, Row

\* What a row is after writes that leave its project alone.
LEMMA SameProject ==
    ASSUME NEW row \in Row
    PROVE  /\ \A to : Moved(row, to).status = to /\ Moved(row, to).project = row.project
           /\ \A c : Amended(row, c).status = row.status /\ Amended(row, c).project = row.project
  BY DEF Row, Moved, Amended

\* The next version of a row.
LEMMA NextVersion ==
    ASSUME NEW old \in Row, NEW row \in Row, row.version = old.version + 1
    PROVE  Versioned(old, row) /\ row.version # 0
  BY DEF Versioned, Row

\* What a transaction that stored nothing yet read of its requisition.
LEMMA ReadIs ==
    ASSUME Inv, NEW w \in Worker, tx[w].op # "none"
    PROVE  /\ tx[w].r \in Req /\ tx[w].row \in Row
           /\ tx[w].row.version = req[tx[w].r].version => tx[w].row.status = req[tx[w].r].status
           /\ tx[w].op = "approval_pending" => tx[w].row.status = "draft"
  BY DEF Inv, ReadOK

\* submit: a hold that fits is kept.
LEMMA MoneyPending ==
    ASSUME NEW m \in Money, NEW r \in Req, NEW row \in Row, MoneyOK(r, row, m),
           row.status \in Early, NEW done \in Row,
           done.entry = row.entry, done.round = row.round, done.status = "approval_pending",
           r \notin Standalone => /\ row.entry # Nothing
                                  /\ m.held[row.entry].project = done.project
                                  /\ m.held[row.entry].left = done.estimate
    PROVE  MoneyOK(r, done, m)
<1>1. Numbered(r, done, m)
  BY DEF MoneyOK, Numbered, HoldsOK, ReleasesOK, AmendsUpTo
<1>2. "approval_pending" \notin Ended
  BY DEF Ended
<1>3. StatusOK(r, done, m)
  BY <1>2 DEF MoneyOK, StatusOK
<1>4. QED
  BY <1>1, <1>3 DEF MoneyOK

LEMMA SubmitStep ==
    ASSUME Inv, NEW w \in Worker, Submit(w)
    PROVE  Inv'
<1>1. PICK r, held : r = tx[w].r /\ held = tx[w].held
  OBVIOUS
<1>2. tx[w].op = "approval_pending"
  BY DEF Submit
<1>3. r \in Req /\ tx[w].row \in Row
      /\ (tx[w].row.version = req[r].version => tx[w].row.status = req[r].status)
      /\ tx[w].row.status = "draft"
  BY <1>1, <1>2, ReadIs
<1>4. PICK row, a, s : row = req[r] /\ a = amendment[r] /\ s = approved[r]
  OBVIOUS
<1>5. /\ row \in Row /\ money \in Money /\ MoneyOK(r, row, money) /\ usable \subseteq Code
      /\ PlaceOK(r, row, money, project[Sub(r)]) /\ AwaitOK(r, row, a, instance[r], s)
      /\ Typed(row, applied[r], a, instance[r], s)
  BY <1>3, <1>4, RowIs
<1>6. row.version = tx[w].row.version /\ Held(money, row) = held
  BY <1>1, <1>4 DEF Submit, Unchanged
<1>7. row.status = "draft" /\ row.status \in Early
  BY <1>3, <1>4, <1>6 DEF Early
<1>8. PICK key : key = <<r, row.round + 1, "main">>
  OBVIOUS
<1>9. PICK next : next = IF Reservation(row, held) THEN row
                         ELSE [row EXCEPT !.round = @ + 1, !.entry = key]
  OBVIOUS
<1>10. PICK done : done = Moved(next, "approval_pending")
  OBVIOUS
<1>11. /\ money' = IF Reservation(row, held) THEN money
                   ELSE Reserve(ReleaseLive(money, r, row, "resubmit"), project, key, row.project,
                                row.estimate)
       /\ req' = [req EXCEPT ![r] = done]
       /\ applied' = [applied EXCEPT ![r] = Content(row)]
       /\ instance' = [instance EXCEPT ![r] = "running"]
       /\ Ends(w)
       /\ UNCHANGED <<amendment, approved, project, usable>>
  BY <1>1, <1>4, <1>8, <1>9, <1>10 DEF Submit, NextKey
<1>12. "approval_pending" \in Status /\ "approval_pending" \in Early
  BY DEF Status, Early
<1>13. /\ next \in Row /\ next.project = row.project /\ next.estimate = row.estimate
       /\ next.version = row.version
       /\ Reservation(row, held) => next = row
       /\ ~Reservation(row, held) => next.round = row.round + 1 /\ next.entry = key
  <2>1. row.round \in Nat /\ row.round + 1 \in Nat
    BY <1>5 DEF Row
  <2>2. key \in HoldKey
    BY <1>3, <1>8, <2>1 DEF HoldKey
  <2>3. CASE Reservation(row, held)
    BY <1>5, <1>9, <2>3
  <2>4. CASE ~Reservation(row, held)
    BY <1>5, <1>9, <2>1, <2>2, <2>4 DEF Row
  <2>5. QED
    BY <2>3, <2>4
<1>14. /\ done \in Row /\ done.status = "approval_pending" /\ done.version = row.version + 1
       /\ done.project = row.project /\ done.estimate = row.estimate
       /\ done.entry = next.entry /\ done.round = next.round
  BY <1>10, <1>12, <1>13, MovedIs
<1>15. /\ money' \in Money /\ MoneyOK(r, done, money')
       /\ \A q \in Req \ {r} : SameFor(q, money, money')
  <2>1. r \notin Standalone => row.project \in Main /\ row.project # Nothing
    BY <1>5, <1>7, RequisitionsAssumption DEF PlaceOK
  <2>2. CASE Reservation(row, held)
    <3>1. money' = money /\ done.entry = row.entry /\ done.round = row.round
      BY <1>11, <1>13, <1>14, <2>2
    <3>2. ASSUME r \notin Standalone
          PROVE  /\ row.entry # Nothing /\ money.held[row.entry].project = row.project
                 /\ money.held[row.entry].left = row.estimate
      <4>1. held # Nothing /\ held.project = row.project /\ held.left = row.estimate
        BY <2>1, <2>2, <3>2 DEF Reservation
      <4>2. row.entry # Nothing
        BY <1>6, <4>1 DEF Held
      <4>3. QED
        BY <1>6, <4>1, <4>2, HeldIs
    <3>3. MoneyOK(r, done, money)
      BY <1>3, <1>5, <1>7, <1>14, <3>1, <3>2, MoneyPending
    <3>4. QED
      BY <1>5, <3>1, <3>3 DEF SameFor
  <2>3. CASE ~Reservation(row, held)
    <3>1. r \in Req \ Standalone
      <4>1. ASSUME r \in Standalone PROVE FALSE
        <5>1. row.entry = Nothing /\ row.project = Nothing
          <6>1. HoldsOK(r, row, money) /\ Unfunded(r, money)
            BY <1>5, <1>7 DEF MoneyOK, Numbered, StatusOK
          <6>2. QED
            BY <1>5, <1>7, <4>1, <6>1, StandaloneHoldsNothing DEF PlaceOK
        <5>2. QED
          BY <1>6, <2>3, <5>1 DEF Held, Reservation
      <4>2. QED
        BY <1>3, <4>1
    <3>2. PICK n : n = money'
      OBVIOUS
    <3>3. n = Reserve(ReleaseLive(money, r, row, "resubmit"), project, key, row.project,
                      row.estimate)
      BY <1>11, <2>3, <3>2
    <3>4. done.entry = key /\ done.round = row.round + 1
      BY <1>13, <1>14, <2>3
    <3>5. n \in Money /\ MoneyOK(r, done, n) /\ \A q \in Req \ {r} : SameFor(q, money, n)
      BY <1>5, <1>7, <1>8, <1>14, <3>1, <3>3, <3>4, MoneySubmitted
    <3>6. QED
      BY <3>2, <3>5
  <2>4. QED
    BY <2>2, <2>3
<1>16. Writes(r, done, Content(row), a, "running", s)
  BY <1>3, <1>4, <1>11, Unwritten DEF Writes
<1>17. Typed(done, Content(row), a, "running", s)
  BY <1>5, <1>14, ContentIs DEF Typed, Instance
<1>18. PlaceOK(r, done, money', project'[Sub(r)])
  BY <1>5, <1>7, <1>11, <1>12, <1>14 DEF PlaceOK
<1>19. AwaitOK(r, done, a, "running", s)
  BY <1>5, <1>7, <1>14 DEF AwaitOK
<1>20. RowOK(r, done, money', project'[Sub(r)], a, "running", s)
  BY <1>14, <1>15, <1>18, <1>19 DEF RowOK
<1>21. Others(r) /\ usable' \subseteq Code
  BY <1>3, <1>5, <1>11, <1>15, RowIs DEF Others
<1>22. TxKept /\ Versioned(req[r], done)
  BY <1>4, <1>5, <1>11, <1>14, TxEnds, NextVersion
<1>23. QED
  BY <1>3, <1>16, <1>17, <1>20, <1>21, <1>22, OneStep

\* The money of a requisition that is not approved: released, or kept by a draft.
LetGo(r, to) ==
    \/ to = "draft" /\ money' = money
    \/ \E x \in Reason \ {"approved"} : money' = ReleaseLive(money, r, req[r], x)

\* A requisition that is not approved ends or goes back to draft.
LEMMA EarlyEnds ==
    ASSUME Inv, NEW r \in Req, req[r].status \in Early \ {"none"}, NEW to \in Ended \cup {"draft"},
           NEW i \in Instance \ {"running"}, LetGo(r, to),
           req' = [req EXCEPT ![r] = Moved(req[r], to)],
           instance' = [instance EXCEPT ![r] = i],
           UNCHANGED <<applied, amendment, approved, project, usable>>, TxKept
    PROVE  Inv'
<1>1. PICK row, ap, a, s : row = req[r] /\ ap = applied[r] /\ a = amendment[r] /\ s = approved[r]
  OBVIOUS
<1>2. /\ row \in Row /\ money \in Money /\ MoneyOK(r, row, money) /\ usable \subseteq Code
      /\ PlaceOK(r, row, money, project[Sub(r)]) /\ AwaitOK(r, row, a, instance[r], s)
      /\ Typed(row, ap, a, instance[r], s) /\ project \in [Project -> ProjectStatus]
  BY <1>1, RowIs
<1>3. row.status \in Early /\ row.status # "none"
  BY <1>1
<1>4. PICK done : done = Moved(row, to)
  OBVIOUS
<1>5. to \in Status /\ to \notin {"none", "approval_pending", "sourcing_in_progress"}
      /\ (to \in Early => to = "draft")
  BY DEF Status, Ended, Early
<1>6. /\ done \in Row /\ done.status = to /\ done.version = row.version + 1
      /\ done.project = row.project /\ done.entry = row.entry /\ done.round = row.round
  BY <1>2, <1>4, <1>5, MovedIs
<1>7. /\ money' \in Money /\ MoneyOK(r, done, money')
      /\ \A q \in Req \ {r} : SameFor(q, money, money')
  <2>1. CASE to = "draft" /\ money' = money
    <3>1. MoneyOK(r, done, money)
      BY <1>2, <1>3, <1>6, <2>1, MoneyKept
    <3>2. QED
      BY <1>2, <2>1, <3>1 DEF SameFor
  <2>2. CASE \E x \in Reason \ {"approved"} : money' = ReleaseLive(money, r, req[r], x)
    <3>1. PICK x \in Reason \ {"approved"} : money' = ReleaseLive(money, r, row, x)
      BY <1>1, <2>2
    <3>2. PICK n : n = money'
      OBVIOUS
    <3>3. n \in Money /\ MoneyOK(r, done, n) /\ \A q \in Req \ {r} : SameFor(q, money, n)
      BY <1>2, <1>3, <1>6, <3>1, <3>2, MoneyReleased
    <3>4. QED
      BY <3>2, <3>3
  <2>3. QED
    BY <2>1, <2>2 DEF LetGo
<1>8. Writes(r, done, ap, a, i, s)
  BY <1>1, <1>4, Unwritten DEF Writes
<1>9. Typed(done, ap, a, i, s)
  BY <1>2, <1>6 DEF Typed
<1>10. PlaceOK(r, done, money', project'[Sub(r)])
  BY <1>2, <1>3, <1>5, <1>6 DEF PlaceOK
<1>11. AwaitOK(r, done, a, i, s)
  BY <1>2, <1>3, <1>5, <1>6 DEF AwaitOK
<1>12. RowOK(r, done, money', project'[Sub(r)], a, i, s)
  BY <1>5, <1>6, <1>7, <1>10, <1>11 DEF RowOK
<1>13. Others(r) /\ usable' \subseteq Code
  BY <1>2, <1>7 DEF Others
<1>14. Versioned(req[r], done)
  BY <1>1, <1>2, <1>6, NextVersion
<1>15. QED
  BY <1>8, <1>9, <1>12, <1>13, <1>14, OneStep

LEMMA WithdrawDraftStep ==
    ASSUME Inv, NEW w \in Worker, WithdrawDraft(w)
    PROVE  Inv'
<1>1. PICK r : r = tx[w].r
  OBVIOUS
<1>2. tx[w].op = "withdrawn" /\ tx[w].row.status = "draft" /\ req[r].version = tx[w].row.version
  BY <1>1 DEF WithdrawDraft, Unchanged
<1>3. r \in Req /\ req[r].status = "draft"
  BY <1>1, <1>2, ReadIs
<1>4. /\ money' = ReleaseLive(money, r, req[r], "withdrawn")
      /\ req' = [req EXCEPT ![r] = Moved(req[r], "withdrawn")]
      /\ Ends(w)
      /\ UNCHANGED <<applied, amendment, instance, approved, project, usable>>
  BY <1>1 DEF WithdrawDraft
<1>5. "withdrawn" \in Ended /\ "withdrawn" \in Reason \ {"approved"} /\ "draft" \in Early \ {"none"}
  BY DEF Ended, Reason, Early
<1>6. instance[r] \in Instance \ {"running"} /\ instance' = [instance EXCEPT ![r] = instance[r]]
  BY <1>3, <1>4, <1>5, RowIs, Unwritten DEF AwaitOK, Typed
<1>7. TxKept /\ LetGo(r, "withdrawn")
  BY <1>4, <1>5, TxEnds DEF LetGo
<1>8. QED
  BY <1>3, <1>4, <1>5, <1>6, <1>7, EarlyEnds

LEMMA NotApprovedStep ==
    ASSUME Inv, NEW r \in Req,
           NEW outcome \in {"returned", "rejected", "withdrawn"},
           NEW to \in {"draft", "rejected", "withdrawn", "cancelled"},
           outcome = "returned" => to = "draft", outcome = "withdrawn" => to # "draft",
           NotApproved(r, outcome, to), UNCHANGED usable, TxKept
    PROVE  Inv'
<1>1. PICK reason :
        reason = IF outcome = "rejected" /\ to = "draft" THEN "returned_to_draft" ELSE to
  OBVIOUS
<1>2. /\ req[r].status = "approval_pending"
      /\ money' = IF outcome = "returned" THEN money ELSE ReleaseLive(money, r, req[r], reason)
      /\ req' = [req EXCEPT ![r] = Moved(req[r], to)]
      /\ instance' = [instance EXCEPT ![r] = outcome]
      /\ UNCHANGED <<applied, amendment, approved, project>>
  BY <1>1 DEF NotApproved
<1>3. /\ req[r].status \in Early \ {"none"} /\ to \in Ended \cup {"draft"}
      /\ outcome \in Instance \ {"running"}
  BY <1>2 DEF Early, Ended, Instance
<1>4. LetGo(r, to)
  BY <1>1, <1>2 DEF Reason, Ended, LetGo
<1>5. QED
  BY <1>2, <1>3, <1>4, EarlyEnds

\* An amendment that is not approved is closed; the requisition stands.
LEMMA AmendmentClosedStep ==
    ASSUME Inv, NEW r \in Req, NEW outcome \in {"returned", "rejected", "withdrawn"},
           AmendmentClosed(r, outcome), UNCHANGED usable, TxKept
    PROVE  Inv'
<1>1. PICK row, ap, s : row = req[r] /\ ap = applied[r] /\ s = approved[r]
  OBVIOUS
<1>2. /\ row \in Row /\ MoneyOK(r, row, money) /\ usable \subseteq Code
      /\ PlaceOK(r, row, money, project[Sub(r)]) /\ AwaitOK(r, row, amendment[r], instance[r], s)
      /\ Typed(row, ap, amendment[r], instance[r], s)
  BY <1>1, RowIs
<1>3. row.status = "sourcing_in_progress" /\ row.status \notin Early /\ row.status # "none"
  BY <1>1 DEF AmendmentClosed, Early
<1>4. Writes(r, row, ap, NoAmendment, outcome, s)
  BY <1>1, Unwritten DEF Writes, AmendmentClosed
<1>5. Typed(row, ap, NoAmendment, outcome, s)
  BY <1>2, NoAmendmentIs DEF Typed, Instance
<1>6. AwaitOK(r, row, NoAmendment, outcome, s)
  BY <1>2, <1>3, NoAmendmentIs DEF AwaitOK
<1>7. RowOK(r, row, money', project'[Sub(r)], NoAmendment, outcome, s)
  BY <1>2, <1>3, <1>6 DEF RowOK, AmendmentClosed
<1>8. Versioned(req[r], row)
  BY <1>1, <1>2 DEF Versioned, Row
<1>9. Others(r) /\ usable' \subseteq Code
  BY <1>2, MoneyStands DEF AmendmentClosed
<1>10. QED
  BY <1>4, <1>5, <1>7, <1>8, <1>9, OneStep

LEMMA WithdrawRunningStep ==
    ASSUME Inv, NEW r \in Req, NEW to \in {"withdrawn", "cancelled"}, WithdrawRunning(r, to),
           UNCHANGED usable, TxKept
    PROVE  Inv'
<1>1. CASE NotApproved(r, "withdrawn", to)
  BY <1>1, NotApprovedStep
<1>2. CASE AmendmentClosed(r, "withdrawn")
  BY <1>2, AmendmentClosedStep
<1>3. QED
  BY <1>1, <1>2 DEF WithdrawRunning

LEMMA WithdrawStep ==
    ASSUME Inv, NEW w \in Worker, WithdrawPending(w) \/ WithdrawAmendment(w)
    PROVE  Inv'
<1>1. PICK r : r = tx[w].r
  OBVIOUS
<1>2. PICK to \in {"withdrawn", "cancelled"} : WithdrawRunning(r, to)
  BY <1>1 DEF WithdrawPending, WithdrawAmendment
<1>3. r \in Req
  BY <1>1, ReadIs DEF WithdrawPending, WithdrawAmendment
<1>4. UNCHANGED usable /\ TxKept
  BY TxEnds DEF WithdrawPending, WithdrawAmendment
<1>5. QED
  BY <1>2, <1>3, <1>4, WithdrawRunningStep

LEMMA DeclineStep ==
    ASSUME Inv, NEW w \in Worker, Decline(w)
    PROVE  Inv'
<1>1. PICK r : r = tx[w].r
  OBVIOUS
<1>2. r \in Req
  BY <1>1, ReadIs DEF Decline
<1>3. UNCHANGED usable /\ TxKept
  BY TxEnds DEF Decline
<1>4. CASE NotApproved(r, "returned", "draft")
  BY <1>2, <1>3, <1>4, NotApprovedStep
<1>5. ASSUME NEW to \in {"draft", "rejected"}, NotApproved(r, "rejected", to) PROVE Inv'
  BY <1>2, <1>3, <1>5, NotApprovedStep
<1>6. ASSUME NEW outcome \in {"returned", "rejected"}, AmendmentClosed(r, outcome) PROVE Inv'
  BY <1>2, <1>3, <1>6, AmendmentClosedStep
<1>7. QED
  BY <1>1, <1>4, <1>5, <1>6 DEF Decline

\* A row that differs in other fields holds the same.
LEMMA MoneySame ==
    ASSUME NEW m, NEW r, NEW row, MoneyOK(r, row, m), NEW done, done.status = row.status,
           done.project = row.project, done.estimate = row.estimate, done.entry = row.entry,
           done.round = row.round
    PROVE  MoneyOK(r, done, m)
  BY DEF MoneyOK, Numbered, HoldsOK, ReleasesOK, AmendsUpTo, StatusOK

\* done is row but for its code and version.
SameRow(row, done) ==
    /\ done.status = row.status /\ done.project = row.project /\ done.estimate = row.estimate
    /\ done.entry = row.entry /\ done.round = row.round /\ done.text = row.text

LEMMA CorrectedRow ==
    ASSUME NEW r, NEW code \in Code, NEW row \in Row, NEW done, done = Corrected(r, row, code)
    PROVE  done \in Row /\ SameRow(row, done) /\ done.version = row.version
  BY DEF Corrected, Row, SameRow

LEMMA CorrectedContent ==
    ASSUME NEW r, NEW code \in Code, NEW c \in ContentRow, NEW d, d = Corrected(r, c, code)
    PROVE  d \in ContentRow /\ d.project = c.project
  BY DEF Corrected, ContentRow

\* The project made for r: the sub-projects of others stay as they are.
ProjectOf(r, ps, sub) ==
    /\ ps \in [Project -> ProjectStatus] /\ ps[Sub(r)] = sub
    /\ \A q \in Req \ {r} : ps[Sub(q)] = project[Sub(q)]

LEMMA SubMade ==
    ASSUME project \in [Project -> ProjectStatus], NEW r \in Req,
           NEW ps, ps = [project EXCEPT ![Sub(r)] = "active"]
    PROVE  ProjectOf(r, ps, "active")
<1>1. Sub(r) \in Project /\ "active" \in ProjectStatus
  BY Places DEF ProjectStatus
<1>2. ASSUME NEW q \in Req \ {r} PROVE Sub(q) # Sub(r) /\ Sub(q) \in Project
  BY Places
<1>3. QED
  BY <1>1, <1>2 DEF ProjectOf

LEMMA OwnMade ==
    ASSUME project \in [Project -> ProjectStatus], NEW r \in Req,
           NEW ps, ps = [project EXCEPT ![Own(r)] = "active"]
    PROVE  ProjectOf(r, ps, project[Sub(r)])
<1>1. Own(r) \in Project /\ "active" \in ProjectStatus
  BY Places DEF ProjectStatus
<1>2. ASSUME NEW q \in Req PROVE Sub(q) # Own(r) /\ Sub(q) \in Project
  BY Places
<1>3. QED
  BY <1>1, <1>2 DEF ProjectOf

\* The approval of a pending requisition, whatever money it moves.
LEMMA ApprovedStep ==
    ASSUME Inv, NEW r \in Req, NEW row \in Row, SameRow(req[r], row),
           row.version = req[r].version, row.status = "approval_pending",
           NEW done \in Row, done.status = "sourcing_in_progress", done.estimate = row.estimate,
           done.code = row.code, done.version = row.version + 1,
           done.project \in Main \cup {Own(r)}, r \notin Standalone => done.project = row.project,
           money' \in Money, MoneyOK(r, done, money'),
           \A q \in Req \ {r} : SameFor(q, money, money'),
           NEW sub, ProjectOf(r, project', sub),
           sub # "none" <=> money'.held[done.entry].project = Sub(r),
           req' = [req EXCEPT ![r] = done],
           approved' = [approved EXCEPT ![r] = Material(Proposal(r, row))],
           instance' = [instance EXCEPT ![r] = "approved"], TxKept,
           UNCHANGED <<applied, amendment, usable>>
    PROVE  Inv' /\ Covers
<1>1. PICK ap, a, s : /\ ap = applied[r] /\ a = amendment[r] /\ s = Material(Proposal(r, row))
  OBVIOUS
<1>2. /\ req[r] \in Row /\ usable \subseteq Code /\ AwaitOK(r, req[r], a, instance[r], approved[r])
      /\ Typed(req[r], ap, a, instance[r], approved[r])
  BY <1>1, RowIs
<1>3. a.status = "none"
  BY <1>2 DEF AwaitOK, SameRow, Early
<1>4. s = Material(Content(row))
  BY <1>1, <1>3 DEF Proposal
<1>5. s \in MaterialRow /\ s.estimate = row.estimate /\ s.project = row.project
  BY <1>4, ContentIs DEF Material, MaterialRow, ContentRow
<1>6. r \notin Standalone => s = Material(Content(done))
  BY <1>4 DEF Material, Content
<1>7. Writes(r, done, ap, a, "approved", s)
  BY <1>1, Unwritten DEF Writes
<1>8. Typed(done, ap, a, "approved", s)
  BY <1>2, <1>5 DEF Typed, Instance
<1>9. done.status \notin Early
  BY DEF Early
<1>10. PlaceOK(r, done, money', project'[Sub(r)])
  BY <1>9 DEF PlaceOK, ProjectOf
<1>11. AwaitOK(r, done, a, "approved", s)
  BY <1>3, <1>5, <1>6, <1>9 DEF AwaitOK
<1>12. RowOK(r, done, money', project'[Sub(r)], a, "approved", s)
  BY <1>10, <1>11 DEF RowOK
<1>13. Others(r)
  BY DEF Others, ProjectOf
<1>14. Versioned(req[r], done)
  BY <1>2, NextVersion
<1>15. Inv'
  BY <1>2, <1>7, <1>8, <1>12, <1>13, <1>14, OneStep
<1>16. Covers
  BY <1>1, <1>6, CoverOne
<1>17. QED
  BY <1>15, <1>16

\* An approval that does not end the route writes its substitution.
LEMMA ApproveEarlierStep ==
    ASSUME Inv, NEW w \in Worker, ApproveEarlier(w)
    PROVE  Inv' /\ Covers
<1>1. PICK r, a : r = tx[w].r /\ a = amendment[r]
  OBVIOUS
<1>2. r \in Req
  BY <1>1, ReadIs DEF ApproveEarlier
<1>3. PICK code \in usable :
        /\ req' = [req EXCEPT ![r] = Corrected(r, req[r], code)]
        /\ amendment' = IF amendment[r].status = "pending"
                        THEN [amendment EXCEPT ![r].content = Corrected(r, @, code)]
                        ELSE amendment
        /\ instance[r] = "running"
        /\ Ends(w)
        /\ UNCHANGED <<applied, instance, approved, money, project, usable>>
  BY <1>1 DEF ApproveEarlier
<1>4. PICK row, done, ap, i, s, c, b :
        /\ row = req[r] /\ done = Corrected(r, row, code)
        /\ ap = applied[r] /\ i = instance[r] /\ s = approved[r]
        /\ c = Corrected(r, a.content, code)
        /\ b = IF a.status = "pending" THEN [a EXCEPT !.content = c] ELSE a
  OBVIOUS
<1>5. /\ Typed(row, ap, a, i, s) /\ row \in Row /\ usable \subseteq Code /\ money \in Money
      /\ MoneyOK(r, row, money) /\ PlaceOK(r, row, money, project[Sub(r)])
      /\ AwaitOK(r, row, a, i, s)
      /\ row.status = "none" => row.version = 0
  BY <1>1, <1>2, <1>4, RowIs DEF RowOK
<1>6. done \in Row /\ SameRow(row, done) /\ done.version = row.version
  BY <1>4, <1>5, CorrectedRow
<1>7. a.status = "pending" => c \in ContentRow /\ c.project = a.content.project
  BY <1>4, <1>5, CorrectedContent DEF Typed
<1>8. /\ b \in Amendment /\ b.status = a.status
      /\ b.status # "none" => b.content \in ContentRow
      /\ b.content.project = a.content.project
  BY <1>4, <1>5, <1>7 DEF Typed, Amendment
<1>9. amendment' = [amendment EXCEPT ![r] = b]
  BY <1>1, <1>2, <1>3, <1>4, Unwritten
<1>10. Writes(r, done, ap, b, i, s)
  BY <1>2, <1>3, <1>4, <1>9, Unwritten DEF Writes
<1>11. Typed(done, ap, b, i, s)
  BY <1>5, <1>6, <1>8 DEF Typed
<1>12. MoneyOK(r, done, money)
  BY <1>5, <1>6, MoneySame DEF SameRow
<1>13. PlaceOK(r, done, money, project[Sub(r)])
  BY <1>5, <1>6 DEF PlaceOK, SameRow
<1>14. AwaitOK(r, done, b, i, s)
  BY <1>5, <1>6, <1>8 DEF AwaitOK, SameRow
<1>15. RowOK(r, done, money', project'[Sub(r)], b, i, s)
  BY <1>3, <1>5, <1>6, <1>12, <1>13, <1>14 DEF RowOK, SameRow
<1>16. Versioned(req[r], done)
  BY <1>4, <1>5, <1>6 DEF Versioned, SameRow, Row
<1>17. Others(r) /\ usable' \subseteq Code
  BY <1>2, <1>3, <1>5, MoneyStands
<1>18. TxKept
  <2>1. Ends(w)
    BY <1>3
  <2>2. QED
    BY <2>1, TxEnds
<1>19. Inv'
  BY <1>2, <1>10, <1>11, <1>15, <1>16, <1>17, <1>18, OneStep
<1>20. Covers
  <2>1. /\ req' = [req EXCEPT ![r] = done] /\ approved' = [approved EXCEPT ![r] = s]
        /\ approved'[r] = approved[r] /\ req'[r] = done /\ amendment'[r] = b
    BY <1>2, <1>3, <1>10 DEF Writes, Inv, TypeOK
  <2>2. ASSUME done.status = "sourcing_in_progress", r \notin Standalone
        PROVE  Stays(r) \/ Replaces(r)
    <3>1. Approved(r)
      BY <1>4, <1>6, <2>2 DEF Approved, SameRow
    <3>2. CASE req[r].code \in usable
      BY <1>4, <2>1, <3>1, <3>2 DEF Stays, Corrected
    <3>3. CASE req[r].code \notin usable
      <4>1. i = "running"
        BY <1>3, <1>4
      <4>2. a.status = "pending"
        BY <1>5, <1>6, <2>2, <4>1 DEF AwaitOK, SameRow
      <4>3. QED
        BY <1>1, <1>8, <2>1, <3>1, <3>3, <4>2 DEF Replaces
    <3>4. QED
      BY <3>2, <3>3
  <2>3. QED
    BY <1>2, <2>1, <2>2, CoverOne
<1>21. QED
  BY <1>19, <1>20

LEMMA ApproveStep ==
    ASSUME Inv, NEW w \in Worker, Approve(w)
    PROVE  Inv' /\ Covers
<1>1. PICK r : r = tx[w].r
  OBVIOUS
<1>2. PICK code, row :
        /\ code \in usable /\ row = Corrected(r, req[r], code)
        /\ row.status = "approval_pending"
        /\ \/ ApproveFunded(r, row)
           \/ ApproveNew(r, row)
           \/ \E p \in Main : ApproveAssigned(r, row, p)
        /\ approved' = [approved EXCEPT ![r] = Material(Proposal(r, row))]
        /\ instance' = [instance EXCEPT ![r] = "approved"]
        /\ Ends(w)
        /\ UNCHANGED <<applied, amendment, usable>>
  BY <1>1 DEF Approve
<1>3. r \in Req
  BY <1>1, ReadIs DEF Approve
<1>4. /\ req[r] \in Row /\ money \in Money /\ MoneyOK(r, req[r], money) /\ usable \subseteq Code
      /\ PlaceOK(r, req[r], money, project[Sub(r)]) /\ project \in [Project -> ProjectStatus]
  BY <1>3, RowIs
<1>5. row \in Row /\ SameRow(req[r], row) /\ row.version = req[r].version
  BY <1>2, <1>4, CorrectedRow
<1>6. MoneyOK(r, row, money) /\ PlaceOK(r, row, money, project[Sub(r)])
  <2>1. MoneyOK(r, row, money)
    BY <1>4, <1>5, MoneySame DEF SameRow
  <2>2. QED
    BY <1>4, <1>5, <2>1 DEF PlaceOK, SameRow
<1>7. row.status \in Early /\ row.status # "none" /\ "sourcing_in_progress" \in Status
  BY <1>2 DEF Early, Status
<1>8. /\ Numbered(r, row, money) /\ HoldsOK(r, row, money) /\ ReleasesOK(r, row, money)
      /\ AmendsUpTo(r, money, row.round) /\ Unfunded(r, money) /\ project[Sub(r)] = "none"
  BY <1>6, <1>7 DEF MoneyOK, Numbered, StatusOK, PlaceOK
<1>9. TxKept
  BY <1>2, TxEnds
<1>10. row.round \in Nat /\ row.round + 1 \in Nat /\ row.estimate \in Nat
  BY <1>5 DEF Row
<1>11. CASE ApproveFunded(r, row)
  <2>1. PICK key, next, done, ps, n :
          /\ key = <<r, row.round, "sub">>
          /\ next = [row EXCEPT !.entry = key]
          /\ done = Moved(next, "sourcing_in_progress")
          /\ ps = [project EXCEPT ![Sub(r)] = "active"]
          /\ n = FundSub(money, ps, r, row)
    OBVIOUS
  <2>2. /\ done = Moved(next, "sourcing_in_progress") /\ n = FundSub(money, ps, r, row)
        /\ key = <<r, row.round, "sub">>
    BY <2>1
  <2>3. /\ r \notin Standalone
        /\ Held(money, row) = [project |-> row.project, left |-> row.estimate]
        /\ money' = n /\ project' = ps /\ req' = [req EXCEPT ![r] = done]
    BY <1>11, <2>1, <2>2 DEF ApproveFunded
  <2>4. key \in HoldKey
    BY <1>3, <1>10, <2>1 DEF HoldKey
  <2>5. /\ next \in Row /\ next.entry = key /\ next.estimate = row.estimate /\ next.code = row.code
        /\ next.project = row.project /\ next.round = row.round /\ next.version = row.version
    BY <1>5, <2>1, <2>4 DEF Row
  <2>6. /\ done \in Row /\ done.status = "sourcing_in_progress" /\ done.estimate = row.estimate
        /\ done.code = row.code /\ done.version = row.version + 1 /\ done.project = row.project
        /\ done.entry = key /\ done.round = row.round
    BY <1>7, <2>2, <2>5, MovedIs
  <2>7. row.project \in Main
    BY <1>6, <1>7, <2>3 DEF PlaceOK
  <2>8. ReleasesUpTo(r, money, row.round, row.estimate)
    <3>1. row.entry # Nothing /\ money.held[row.entry].left = row.estimate
      BY <1>2, <1>6, <2>3 DEF MoneyOK, StatusOK
    <3>2. QED
      BY <1>8, <3>1 DEF ReleasesOK, ReleasesUpTo
  <2>9. /\ n \in Money /\ MoneyOK(r, done, n) /\ n.held[done.entry].project = Sub(r)
        /\ \A q \in Req \ {r} : SameFor(q, money, n)
    BY <1>3, <1>4, <1>5, <1>8, <2>2, <2>6, <2>7, <2>8, MoneyFunded
  <2>10. ProjectOf(r, ps, "active")
    BY <1>3, <1>4, <2>1, SubMade
  <2>11. QED
    BY <1>2, <1>3, <1>5, <1>9, <2>3, <2>6, <2>7, <2>9, <2>10, ApprovedStep
<1>12. CASE ApproveNew(r, row)
  <2>1. PICK key, next, done, ps, u, n :
          /\ key = NextKey(r, row)
          /\ next = [row EXCEPT !.project = Own(r), !.round = @ + 1, !.entry = key]
          /\ done = Moved(next, "sourcing_in_progress")
          /\ ps = [project EXCEPT ![Own(r)] = "active"]
          /\ u = [money EXCEPT !.allocated[Own(r)] = @ + row.estimate]
          /\ n = Reserve(u, ps, NextKey(r, row), Own(r), row.estimate)
    OBVIOUS
  <2>2. /\ done = Moved(next, "sourcing_in_progress") /\ key = NextKey(r, row)
        /\ n = Reserve(u, ps, NextKey(r, row), Own(r), row.estimate)
    BY <2>1
  <2>3. /\ r \in Standalone /\ money' = n /\ project' = ps /\ req' = [req EXCEPT ![r] = done]
    BY <1>12, <2>1, <2>2 DEF ApproveNew
  <2>4. key \in HoldKey /\ Own(r) \in Place /\ Own(r) \in Project /\ Own(r) # Sub(r)
    BY <1>3, <1>10, <2>1, Places DEF HoldKey, NextKey, Place
  <2>5. /\ next \in Row /\ next.entry = key /\ next.estimate = row.estimate /\ next.code = row.code
        /\ next.project = Own(r) /\ next.round = row.round + 1 /\ next.version = row.version
    BY <1>5, <1>10, <2>1, <2>4 DEF Row
  <2>6. /\ done \in Row /\ done.status = "sourcing_in_progress" /\ done.estimate = row.estimate
        /\ done.code = row.code /\ done.version = row.version + 1 /\ done.project = Own(r)
        /\ done.entry = NextKey(r, row) /\ done.round = row.round + 1
    BY <1>7, <2>2, <2>5, MovedIs
  <2>7. u \in Money /\ Grants(money, u, Own(r))
    BY <1>4, <1>10, <2>1, <2>4, GrantIs
  <2>8. /\ n \in Money /\ MoneyOK(r, done, n) /\ n.held[done.entry].project = Own(r)
        /\ \A q \in Req \ {r} : SameFor(q, money, n)
    <3>1. r \in Standalone /\ r \in Req /\ money \in Money /\ row \in Row /\ MoneyOK(r, row, money)
          /\ row.status \in Early /\ n = OwnHold(u, ps, r, row)
          /\ key = <<r, row.round + 1, "main">> /\ done.entry = key
      BY <1>3, <1>4, <1>5, <1>6, <1>7, <2>2, <2>3, <2>6 DEF NextKey, OwnHold
    <3>2. QED
      BY <2>6, <2>7, <3>1, MoneyNew
  <2>9. ProjectOf(r, ps, "none")
    BY <1>3, <1>4, <1>8, <2>1, OwnMade
  <2>10. QED
    BY <1>2, <1>3, <1>5, <1>9, <2>3, <2>4, <2>6, <2>8, <2>9, ApprovedStep
<1>13. ASSUME NEW p \in Main, ApproveAssigned(r, row, p) PROVE Inv' /\ Covers
  <2>1. PICK assigned, key, next, done, ps, n :
          /\ assigned = [row EXCEPT !.project = p, !.round = @ + 1]
          /\ key = <<r, assigned.round, "sub">>
          /\ next = [assigned EXCEPT !.entry = key]
          /\ done = Moved(next, "sourcing_in_progress")
          /\ ps = [project EXCEPT ![Sub(r)] = "active"]
          /\ n = FundSub(money, ps, r, assigned)
    OBVIOUS
  <2>2. /\ done = Moved(next, "sourcing_in_progress") /\ n = FundSub(money, ps, r, assigned)
        /\ key = <<r, assigned.round, "sub">>
    BY <2>1
  <2>3. /\ r \in Standalone /\ money' = n /\ project' = ps /\ req' = [req EXCEPT ![r] = done]
    BY <1>13, <2>1, <2>2 DEF ApproveAssigned
  <2>4. /\ assigned \in Row /\ assigned.project = p /\ assigned.round = row.round + 1
        /\ assigned.entry = row.entry /\ assigned.estimate = row.estimate
        /\ assigned.code = row.code /\ assigned.version = row.version
    <3>1. p \in Place
      BY DEF Place, Project
    <3>2. QED
      BY <1>5, <1>10, <2>1, <3>1 DEF Row
  <2>5. key \in HoldKey
    BY <1>3, <1>10, <2>1, <2>4 DEF HoldKey
  <2>6. /\ next \in Row /\ next.entry = key /\ next.estimate = row.estimate /\ next.code = row.code
        /\ next.project = p /\ next.round = row.round + 1 /\ next.version = row.version
    BY <2>1, <2>4, <2>5 DEF Row
  <2>7. /\ done \in Row /\ done.status = "sourcing_in_progress" /\ done.estimate = row.estimate
        /\ done.code = row.code /\ done.version = row.version + 1 /\ done.project = p
        /\ done.entry = key /\ done.round = row.round + 1
    BY <1>7, <2>2, <2>6, MovedIs
  <2>8. row.entry = Nothing /\ \A k \in DOMAIN money.held : k[1] # r
    BY <1>4, <1>5, <1>8, <2>3, StandaloneHoldsNothing
  <2>9. HoldsOK(r, assigned, money)
    BY <2>4, <2>8 DEF HoldsOK
  <2>10. /\ ReleasesUpTo(r, money, assigned.round, assigned.estimate)
         /\ AmendsUpTo(r, money, assigned.round)
    <3>1. \A b : ReleasesUpTo(r, money, row.round + 1, b) /\ AmendsUpTo(r, money, row.round + 1)
      BY <1>5, <1>8, NextRoundFresh
    <3>2. QED
      BY <2>4, <3>1
  <2>11. /\ n \in Money /\ MoneyOK(r, done, n) /\ n.held[done.entry].project = Sub(r)
         /\ \A q \in Req \ {r} : SameFor(q, money, n)
    BY <1>3, <1>4, <1>8, <2>2, <2>4, <2>7, <2>9, <2>10, MoneyFunded
  <2>12. ProjectOf(r, ps, "active")
    BY <1>3, <1>4, <2>1, SubMade
  <2>13. QED
    BY <1>2, <1>3, <1>5, <1>9, <2>3, <2>7, <2>11, <2>12, ApprovedStep
<1>14. QED
  BY <1>2, <1>11, <1>12, <1>13

LEMMA AmendedIs ==
    ASSUME NEW row \in Row, NEW c \in ContentRow, NEW done, done = Amended(row, c)
    PROVE  /\ done \in Row /\ done.version = row.version + 1 /\ done.status = row.status
           /\ done.estimate = c.estimate /\ done.code = c.code
           /\ done.project = row.project /\ done.entry = row.entry /\ done.round = row.round
<1>1. row.version + 1 \in Nat
  BY DEF Row
<1>2. QED
  BY <1>1 DEF Amended, Row, ContentRow

\* What an amendment asks for is what its requisition asks for once it is applied.
LEMMA MaterialIs ==
    ASSUME NEW c \in ContentRow, NEW done \in Row, done.estimate = c.estimate, done.code = c.code,
           done.project = c.project
    PROVE  /\ Material(c) \in MaterialRow /\ Material(c).estimate = c.estimate
           /\ Material(c).project = c.project
           /\ Material(c) = Material(Content(done))
  BY DEF Material, Content, MaterialRow, ContentRow

\* An amendment is applied, whatever money it moves.
LEMMA AppliedStep ==
    ASSUME Inv, NEW r \in Req, req[r].status = "sourcing_in_progress", amendment[r].status # "none",
           NEW c \in ContentRow, c.project = req[r].project, NEW i \in Instance \ {"running"},
           NEW done \in Row, done.status = req[r].status, done.estimate = c.estimate,
           done.code = c.code, Versioned(req[r], done),
           done.project = req[r].project, money' \in Money, MoneyOK(r, done, money'),
           \A q \in Req \ {r} : SameFor(q, money, money'),
           money'.held[done.entry].project = money.held[req[r].entry].project,
           req' = [req EXCEPT ![r] = done],
           applied' = [applied EXCEPT ![r] = c],
           amendment' = [amendment EXCEPT ![r] = NoAmendment],
           approved' = [approved EXCEPT ![r] = Material(c)],
           instance' = [instance EXCEPT ![r] = i], TxKept, UNCHANGED <<project, usable>>
    PROVE  Inv' /\ Covers
<1>1. PICK s : s = Material(c)
  OBVIOUS
<1>2. /\ req[r] \in Row /\ usable \subseteq Code /\ PlaceOK(r, req[r], money, project[Sub(r)])
      /\ project \in [Project -> ProjectStatus]
  BY RowIs
<1>3. /\ s \in MaterialRow /\ s.estimate = done.estimate /\ s.project = done.project
      /\ s = Material(Content(done))
  BY <1>1, MaterialIs
<1>4. Writes(r, done, c, NoAmendment, i, s)
  BY <1>1 DEF Writes
<1>5. Typed(done, c, NoAmendment, i, s)
  BY <1>3, NoAmendmentIs DEF Typed
<1>6. done.status \notin Early
  BY DEF Early
<1>7. PlaceOK(r, done, money', project'[Sub(r)])
  BY <1>2, <1>6 DEF PlaceOK
<1>8. AwaitOK(r, done, NoAmendment, i, s)
  BY <1>3, <1>6, NoAmendmentIs DEF AwaitOK
<1>9. RowOK(r, done, money', project'[Sub(r)], NoAmendment, i, s)
  BY <1>7, <1>8 DEF RowOK
<1>10. Others(r)
  BY <1>2 DEF Others
<1>11. Inv'
  BY <1>2, <1>4, <1>5, <1>9, <1>10, OneStep
<1>12. Covers
  BY <1>1, <1>3, CoverOne
<1>13. QED
  BY <1>11, <1>12

\* The approval of an amendment, with the code that replaces an unusable one.
Approving(w, r, code) ==
    LET held    == Held(money, req[r])
        content == Corrected(r, amendment[r].content, code)
        row     == Corrected(r, req[r], code)
        same    == held.left = content.estimate
        m       == IF same THEN money ELSE Refunded(r, row, content.estimate)
        funded  == IF same THEN row ELSE [row EXCEPT !.round = @ + 1, !.entry = NextKey(r, row)]
    IN  /\ row.status = "sourcing_in_progress" /\ amendment[r].status = "pending"
        /\ money' = m
        /\ req' = [req EXCEPT ![r] = Amended(funded, content)]
        /\ applied' = [applied EXCEPT ![r] = content]
        /\ amendment' = [amendment EXCEPT ![r] = NoAmendment]
        /\ approved' = [approved EXCEPT ![r] = Material(content)]
        /\ instance' = [instance EXCEPT ![r] = "approved"]
        /\ Ends(w)
        /\ UNCHANGED <<project, usable>>

LEMMA ApproveAmendmentStep ==
    ASSUME Inv, NEW w \in Worker, ApproveAmendment(w)
    PROVE  Inv' /\ Covers
<1>1. PICK r : r = tx[w].r
  OBVIOUS
<1>2. r \in Req
  BY <1>1, ReadIs DEF ApproveAmendment
<1>3. PICK code \in usable : Approving(w, r, code)
  BY <1>1, Zenon DEF ApproveAmendment, Approving
<1>4. PICK held, c, row, n, funded, done :
        /\ held = Held(money, req[r])
        /\ c = Corrected(r, amendment[r].content, code)
        /\ row = Corrected(r, req[r], code)
        /\ n = IF held.left = c.estimate THEN money ELSE Refunded(r, row, c.estimate)
        /\ funded = IF held.left = c.estimate THEN row
                    ELSE [row EXCEPT !.round = @ + 1, !.entry = NextKey(r, row)]
        /\ done = Amended(funded, c)
  OBVIOUS
<1>5. /\ row.status = "sourcing_in_progress" /\ amendment[r].status = "pending"
      /\ money' = n
      /\ req' = [req EXCEPT ![r] = done]
      /\ applied' = [applied EXCEPT ![r] = c]
      /\ amendment' = [amendment EXCEPT ![r] = NoAmendment]
      /\ approved' = [approved EXCEPT ![r] = Material(c)]
      /\ instance' = [instance EXCEPT ![r] = "approved"]
      /\ Ends(w)
      /\ UNCHANGED <<project, usable>>
  BY <1>3, <1>4 DEF Approving
<1>6. /\ req[r] \in Row /\ money \in Money /\ MoneyOK(r, req[r], money) /\ usable \subseteq Code
      /\ PlaceOK(r, req[r], money, project[Sub(r)]) /\ amendment[r].content \in ContentRow
      /\ AwaitOK(r, req[r], amendment[r], instance[r], approved[r])
  BY <1>2, <1>4, <1>5, RowIs DEF Typed
<1>7. row \in Row /\ SameRow(req[r], row) /\ row.version = req[r].version
  BY <1>4, <1>5, <1>6, CorrectedRow
<1>8. req[r].status = "sourcing_in_progress"
  BY <1>4, <1>5, <1>7 DEF SameRow
<1>9. c \in ContentRow /\ c.project = req[r].project
  <2>1. c \in ContentRow /\ c.project = amendment[r].content.project
    BY <1>4, <1>5, <1>6, CorrectedContent
  <2>2. QED
    BY <1>4, <1>5, <1>6, <1>8, <2>1 DEF AwaitOK
<1>10. MoneyOK(r, row, money)
  BY <1>6, <1>7, MoneySame DEF SameRow
<1>11. /\ row.entry = req[r].entry /\ row.entry # Nothing /\ row.project = req[r].project
      /\ money.held[row.entry].left = row.estimate /\ row.project \in Main \cup {Own(r)}
      /\ row.round \in Nat /\ row.round + 1 \in Nat
  BY <1>4, <1>5, <1>6, <1>7, <1>8, <1>10 DEF SameRow, MoneyOK, StatusOK, PlaceOK, Row
<1>12. held.left = row.estimate
  BY <1>4, <1>5, <1>11, HeldIs
<1>13. c.estimate \in Nat /\ NextKey(r, row) \in HoldKey
  BY <1>2, <1>9, <1>11 DEF ContentRow, NextKey, HoldKey
<1>14. /\ funded \in Row /\ funded.project = row.project /\ funded.version = row.version
       /\ funded.status = row.status
       /\ held.left = c.estimate => funded = row
       /\ held.left # c.estimate =>
            funded.round = row.round + 1 /\ funded.entry = NextKey(r, row)
  <2>1. CASE held.left = c.estimate
    BY <1>4, <1>5, <1>7, <2>1
  <2>2. CASE held.left # c.estimate
    <3>1. funded = [row EXCEPT !.round = @ + 1, !.entry = NextKey(r, row)]
      BY <1>4, <1>5, <2>2
    <3>2. QED
      BY <1>7, <1>11, <1>13, <2>2, <3>1 DEF Row
  <2>3. QED
    BY <2>1, <2>2
<1>15. done = Amended(funded, c)
  BY <1>4, <1>5
<1>16. /\ done \in Row /\ done.version = funded.version + 1 /\ done.status = funded.status
       /\ done.estimate = c.estimate /\ done.code = c.code
       /\ done.project = funded.project /\ done.entry = funded.entry /\ done.round = funded.round
  BY <1>9, <1>14, <1>15, AmendedIs
<1>17. /\ n \in Money /\ MoneyOK(r, done, n)
       /\ n.held[done.entry].project = money.held[row.entry].project
       /\ \A q \in Req \ {r} : SameFor(q, money, n)
  <2>1. CASE held.left = c.estimate
    <3>1. n = money /\ funded = row
      BY <1>4, <1>5, <1>14, <2>1
    <3>2. MoneyOK(r, done, money)
      BY <1>10, <1>12, <1>16, <2>1, <3>1, MoneySame
    <3>3. QED
      BY <1>6, <1>16, <3>1, <3>2 DEF SameFor
  <2>2. CASE held.left # c.estimate
    <3>1. n = Refunded(r, row, c.estimate)
      BY <1>4, <1>5, <2>2
    <3>2. /\ done.entry = NextKey(r, row) /\ done.round = row.round + 1
          /\ done.status = "sourcing_in_progress" /\ row.status = "sourcing_in_progress"
      BY <1>4, <1>5, <1>14, <1>16, <2>2
    <3>3. QED
      BY <1>2, <1>6, <1>7, <1>10, <1>11, <1>13, <1>16, <3>1, <3>2, MoneyRefunded
  <2>3. QED
    BY <2>1, <2>2
<1>18. TxKept
  <2>1. Ends(w)
    BY <1>5
  <2>2. QED
    BY <2>1, TxEnds
<1>19. done.status = req[r].status /\ done.project = req[r].project /\ Versioned(req[r], done)
  <2>1. done.status = req[r].status /\ done.project = req[r].project
    BY <1>7, <1>14, <1>16 DEF SameRow
  <2>2. done \in Row /\ req[r] \in Row /\ done.version = req[r].version + 1
    BY <1>6, <1>7, <1>14, <1>16
  <2>3. QED
    BY <2>1, <2>2, NextVersion
<1>20. /\ "approved" \in Instance \ {"running"} /\ amendment[r].status # "none"
       /\ money' \in Money /\ MoneyOK(r, done, money')
       /\ money'.held[done.entry].project = money.held[req[r].entry].project
       /\ \A q \in Req \ {r} : SameFor(q, money, money')
  BY <1>4, <1>5, <1>11, <1>17 DEF Instance
<1>21. QED
  BY <1>2, <1>5, <1>8, <1>9, <1>16, <1>18, <1>19, <1>20, AppliedStep

LEMMA SubmitAmendmentStep ==
    ASSUME Inv, NEW w \in Worker, SubmitAmendment(w)
    PROVE  Inv' /\ Covers
<1>1. PICK r, c : r = tx[w].r /\ c = amendment[r].content
  OBVIOUS
<1>2. r \in Req
  BY <1>1, ReadIs DEF SubmitAmendment
<1>3. /\ amendment[r].status = "draft" /\ req[r].status = "sourcing_in_progress"
      /\ IF IsMaterial(r, c)
         THEN /\ amendment' = [amendment EXCEPT ![r].status = "pending"]
              /\ instance' = [instance EXCEPT ![r] = "running"]
              /\ UNCHANGED <<req, applied>>
         ELSE /\ amendment' = [amendment EXCEPT ![r] = NoAmendment]
              /\ req' = [req EXCEPT ![r] = Amended(req[r], c)]
              /\ applied' = [applied EXCEPT ![r] = c]
              /\ UNCHANGED instance
      /\ Ends(w)
      /\ UNCHANGED <<approved, money, project, usable>>
  BY <1>1 DEF SubmitAmendment
<1>4. /\ req[r] \in Row /\ money \in Money /\ MoneyOK(r, req[r], money) /\ usable \subseteq Code
      /\ c \in ContentRow /\ amendment[r] \in Amendment
      /\ AwaitOK(r, req[r], amendment[r], instance[r], approved[r])
      /\ RowOK(r, req[r], money, project[Sub(r)], amendment[r], instance[r], approved[r])
      /\ Typed(req[r], applied[r], amendment[r], instance[r], approved[r])
  BY <1>1, <1>2, <1>3, RowIs DEF Typed
<1>5. /\ c.project = req[r].project /\ approved[r].estimate = req[r].estimate
      /\ instance[r] \in Instance \ {"running"}
  BY <1>1, <1>3, <1>4 DEF AwaitOK, Typed
<1>6. TxKept
  <2>1. Ends(w)
    BY <1>3
  <2>2. QED
    BY <2>1, TxEnds
<1>7. CASE IsMaterial(r, c)
  <2>1. PICK row, ap, s, a : /\ row = req[r] /\ ap = applied[r] /\ s = approved[r]
                             /\ a = [amendment[r] EXCEPT !.status = "pending"]
    OBVIOUS
  <2>2. a \in Amendment /\ a.status = "pending" /\ a.content = c
    BY <1>1, <1>4, <2>1 DEF Amendment
  <2>3. Writes(r, row, ap, a, "running", s)
    BY <1>2, <1>3, <1>7, <2>1, Unwritten DEF Writes
  <2>4. Typed(row, ap, a, "running", s)
    BY <1>4, <2>1, <2>2 DEF Typed, Instance
  <2>5. AwaitOK(r, row, a, "running", s)
    BY <1>3, <1>4, <1>5, <2>1, <2>2 DEF AwaitOK, Early
  <2>6. RowOK(r, row, money', project'[Sub(r)], a, "running", s)
    BY <1>3, <1>4, <2>1, <2>5 DEF RowOK
  <2>7. Versioned(req[r], row)
    BY <1>4, <2>1 DEF Versioned, Row
  <2>8. Others(r) /\ usable' \subseteq Code
    BY <1>2, <1>3, <1>4, MoneyStands
  <2>9. Inv'
    BY <1>2, <1>6, <2>3, <2>4, <2>6, <2>7, <2>8, OneStep
  <2>10. Covers
    BY <1>3, <1>7 DEF Covers, CoverStep, Approved, Stays
  <2>11. QED
    BY <2>9, <2>10
<1>8. CASE ~IsMaterial(r, c)
  <2>1. PICK done : done = Amended(req[r], c)
    OBVIOUS
  <2>2. /\ done \in Row /\ done.version = req[r].version + 1 /\ done.status = req[r].status
        /\ done.estimate = c.estimate /\ done.code = c.code
        /\ done.project = req[r].project /\ done.entry = req[r].entry /\ done.round = req[r].round
    BY <1>4, <2>1, AmendedIs
  <2>3. approved[r] = Material(c)
    BY <1>8 DEF IsMaterial
  <2>4. c.estimate = req[r].estimate
    BY <1>5, <2>3 DEF Material
  <2>5. MoneyOK(r, done, money)
    BY <1>4, <2>2, <2>4, MoneySame
  <2>6. Versioned(req[r], done)
    BY <1>4, <2>2, NextVersion
  <2>7. approved' = [approved EXCEPT ![r] = Material(c)]
    BY <1>2, <1>3, <2>3, Unwritten
  <2>8. instance' = [instance EXCEPT ![r] = instance[r]]
    BY <1>2, <1>3, <1>8, Unwritten
  <2>9. /\ money' \in Money /\ MoneyOK(r, done, money')
        /\ \A q \in Req \ {r} : SameFor(q, money, money')
        /\ money'.held[done.entry].project = money.held[req[r].entry].project
    BY <1>3, <1>4, <2>2, <2>5 DEF SameFor
  <2>10. /\ req' = [req EXCEPT ![r] = done] /\ applied' = [applied EXCEPT ![r] = c]
         /\ amendment' = [amendment EXCEPT ![r] = NoAmendment] /\ amendment[r].status # "none"
         /\ UNCHANGED <<project, usable>>
    BY <1>3, <1>8, <2>1
  <2>11. req[r].status = "sourcing_in_progress"
    BY <1>3
  <2>12. QED
    BY <1>2, <1>4, <1>5, <1>6, <2>2, <2>6, <2>7, <2>8, <2>9, <2>10, <2>11, AppliedStep
<1>9. QED
  BY <1>7, <1>8

\* An approved requisition is stopped.
LEMMA StoppedStep ==
    ASSUME Inv, NEW w, NEW r \in Req, NEW to \in {"withdrawn", "cancelled", "expired"},
           Stopped(w, r, to), NEW a \in Amendment, a.status # "none" => a.content \in ContentRow,
           NEW i \in Instance, i = "running" <=> a.status = "pending",
           amendment' = [amendment EXCEPT ![r] = a], instance' = [instance EXCEPT ![r] = i],
           UNCHANGED <<applied, approved, usable>>, TxKept
    PROVE  Inv'
<1>1. PICK row, ap, s, p, l, n, done :
        /\ row = req[r] /\ ap = applied[r] /\ s = approved[r]
        /\ p = money.held[row.entry].project
        /\ l = ReleaseLive(money, r, row, to)
        /\ n = IF p = Sub(r) /\ Available(l, Sub(r)) > 0
               THEN MoveFunds(l, project, <<"unfund", r, row.round>>, Sub(r), row.project,
                              Available(l, Sub(r)))
               ELSE l
        /\ done = Moved(row, to)
  OBVIOUS
<1>2. /\ row \in Row /\ money \in Money /\ MoneyOK(r, row, money) /\ usable \subseteq Code
      /\ PlaceOK(r, row, money, project[Sub(r)]) /\ Typed(row, ap, amendment[r], instance[r], s)
      /\ project \in [Project -> ProjectStatus]
  BY <1>1, RowIs
<1>3. row.status = "sourcing_in_progress" /\ row.entry # Nothing
      /\ row.project \in Main \cup {Own(r)}
  BY <1>1, <1>2 DEF Stopped, MoneyOK, StatusOK, PlaceOK
<1>4. n = Returned(l, r, row, Held(money, row))
  BY <1>1, <1>3, HeldIs DEF Returned
<1>5. /\ money' = n /\ req' = [req EXCEPT ![r] = done] /\ Reserved(n, Sub(r)) = 0
      /\ project' = IF project[Sub(r)] # "none" THEN Abandoned(Sub(r)) ELSE Abandoned(Own(r))
  BY <1>1, <1>4 DEF Stopped
<1>6. /\ to \in Status /\ to \in Ended /\ to \in Reason /\ to # "approved" /\ to \notin Early
      /\ to # "sourcing_in_progress" /\ to # "none" /\ to # "approval_pending"
  BY DEF Status, Ended, Reason, Early
<1>7. /\ done \in Row /\ done.status = to /\ done.version = row.version + 1
      /\ done.entry = row.entry /\ done.round = row.round
  <2>1. done = Moved(row, to)
    BY <1>1
  <2>2. QED
    BY <1>2, <1>6, <2>1, MovedIs
<1>8. n \in Money /\ MoneyOK(r, done, n) /\ \A q \in Req \ {r} : SameFor(q, money, n)
  <2>1. /\ l = ReleaseLive(money, r, row, to) /\ p = money.held[row.entry].project
        /\ n = IF p = Sub(r) /\ Available(l, Sub(r)) > 0
               THEN MoveFunds(l, project, <<"unfund", r, row.round>>, Sub(r), row.project,
                              Available(l, Sub(r)))
               ELSE l
    BY <1>1
  <2>2. Reserved(n, Sub(r)) = 0
    BY <1>5
  <2>3. QED
    BY <1>2, <1>3, <1>6, <1>7, <2>1, <2>2, MoneyStopped
<1>9. /\ project' \in [Project -> ProjectStatus]
      /\ \A q \in Req \ {r} : project'[Sub(q)] = project[Sub(q)]
  <2>1. "abandoned" \in ProjectStatus /\ Sub(r) \in Project /\ Own(r) \in Project
    BY Places DEF ProjectStatus
  <2>2. ASSUME NEW q \in Req \ {r} PROVE Sub(q) # Sub(r) /\ Sub(q) # Own(r) /\ Sub(q) \in Project
    BY Places
  <2>3. PICK x \in {Sub(r), Own(r)} : project' \in {project, [project EXCEPT ![x] = "abandoned"]}
    BY <1>5 DEF Abandoned
  <2>4. QED
    BY <1>2, <2>1, <2>2, <2>3
<1>10. Writes(r, done, ap, a, i, s)
  BY <1>1, <1>5, Unwritten DEF Writes
<1>11. Typed(done, ap, a, i, s)
  BY <1>2, <1>7 DEF Typed
<1>12. PlaceOK(r, done, money', project'[Sub(r)]) /\ AwaitOK(r, done, a, i, s)
  BY <1>6, <1>7 DEF PlaceOK, AwaitOK
<1>13. RowOK(r, done, money', project'[Sub(r)], a, i, s)
  BY <1>5, <1>6, <1>7, <1>8, <1>12 DEF RowOK
<1>14. Others(r) /\ usable' \subseteq Code
  BY <1>2, <1>5, <1>8, <1>9 DEF Others
<1>15. Versioned(req[r], done)
  <2>1. row = req[r]
    BY <1>1
  <2>2. QED
    BY <1>2, <1>7, <2>1, NextVersion
<1>16. QED
  BY <1>10, <1>11, <1>13, <1>14, <1>15, OneStep

LEMMA StopStep ==
    ASSUME Inv, NEW w \in Worker, Stop(w) \/ StopAmending(w)
    PROVE  Inv'
<1>1. PICK r, to : r = tx[w].r /\ to = tx[w].op
  OBVIOUS
<1>2. /\ to \in {"withdrawn", "cancelled", "expired"} /\ Stopped(w, r, to) /\ Ends(w)
      /\ UNCHANGED <<applied, approved, usable>>
  BY <1>1 DEF Stop, StopAmending, Stops
<1>3. r \in Req
  BY <1>1, <1>2, ReadIs
<1>4. TxKept
  BY <1>2, TxEnds
<1>5. CASE Stop(w)
  <2>1. amendment' = amendment /\ instance' = instance
    BY <1>5 DEF Stop
  <2>2. /\ amendment' = [amendment EXCEPT ![r] = amendment[r]]
        /\ instance' = [instance EXCEPT ![r] = instance[r]]
    BY <1>3, <2>1, Unwritten
  <2>3. /\ amendment[r] \in Amendment /\ instance[r] \in Instance
        /\ amendment[r].status # "none" => amendment[r].content \in ContentRow
        /\ AwaitOK(r, req[r], amendment[r], instance[r], approved[r])
    BY <1>3, RowIs DEF Typed
  <2>4. instance[r] = "running" <=> amendment[r].status = "pending"
    BY <1>2, <2>3 DEF Stopped, AwaitOK
  <2>5. QED
    BY <1>2, <1>3, <1>4, <2>2, <2>3, <2>4, StoppedStep
<1>6. CASE StopAmending(w)
  <2>1. /\ amendment' = [amendment EXCEPT ![r] = NoAmendment]
        /\ instance' = [instance EXCEPT ![r] = "withdrawn"]
    BY <1>1, <1>6 DEF StopAmending
  <2>2. "withdrawn" \in Instance /\ NoAmendment \in Amendment /\ NoAmendment.status = "none"
    BY NoAmendmentIs DEF Instance
  <2>3. QED
    BY <1>2, <1>3, <1>4, <2>1, <2>2, StoppedStep
<1>7. QED
  BY <1>5, <1>6

-----------------------------------------------------------------------------
(* The theorems.                                                             *)

LEMMA InitInv == Init => Inv
<1> SUFFICES ASSUME Init PROVE Inv
  OBVIOUS
<1>1. PICK row : row = Blank
  OBVIOUS
<1>2. /\ row \in Row /\ row.status = "none" /\ row.version = 0 /\ row.round = 0
      /\ row.entry = Nothing /\ row.project = Nothing
  BY <1>1 DEF Blank, Row, Status, Early, Place, Code
<1>3. /\ req = [r \in Req |-> row] /\ applied = [r \in Req |-> Nothing]
      /\ amendment = [r \in Req |-> NoAmendment] /\ instance = [r \in Req |-> "none"]
      /\ approved = [r \in Req |-> Nothing] /\ usable = {"first", "second"}
      /\ tx = [w \in Worker |-> Idle]
      /\ project = [p \in Project |-> IF p \in Main THEN "active" ELSE "none"]
  BY <1>1 DEF Init
<1>4. PICK al : al = [p \in Project |-> IF p \in Main THEN Funds[p] ELSE 0]
  OBVIOUS
<1>5. PICK none : none = <<>> /\ DOMAIN none = {}
  OBVIOUS
<1>6. al \in [Project -> Int]
  BY <1>4, RequisitionsAssumption
<1>7. money = [allocated |-> al, held |-> none, keys |-> {}, ok |-> TRUE]
  BY <1>4, <1>5 DEF Init
<1>8. money.allocated = al /\ money.held = none /\ money.keys = {} /\ DOMAIN money.held = {}
  BY <1>5, <1>7
<1>9. money \in Money
  <2>1. none \in [{} -> Hold] /\ {} \in SUBSET HoldKey
    BY <1>5
  <2>2. none \in UNION {[S -> Hold] : S \in SUBSET HoldKey}
    BY <2>1
  <2>3. {} \in SUBSET (ReleaseKey \cup MoveKey) /\ TRUE \in BOOLEAN
    OBVIOUS
  <2>4. QED
    BY <1>6, <1>7, <2>2, <2>3 DEF Money
<1>10. TypeOK
  <2>1. Idle \in Tx
    BY DEF Idle, Tx
  <2>2. project \in [Project -> ProjectStatus]
    BY <1>3 DEF ProjectStatus
  <2>3. QED
    BY <1>2, <1>3, <1>9, <2>1, <2>2, NoAmendmentIs DEF TypeOK, Instance, Code
<1>11. ASSUME NEW r \in Req
       PROVE  RowOK(r, row, money, "none", NoAmendment, "none", Nothing)
  <2>1. Numbered(r, row, money)
    BY <1>2, <1>8 DEF Numbered, HoldsOK, ReleasesOK, AmendsUpTo
  <2>2. al[Sub(r)] = 0
    BY <1>4, Places
  <2>3. Unfunded(r, money)
    BY <1>8, <2>2 DEF Unfunded
  <2>4. StatusOK(r, row, money)
    BY <1>2, <2>3 DEF StatusOK, Ended
  <2>5. PlaceOK(r, row, money, "none")
    BY <1>2 DEF PlaceOK
  <2>6. AwaitOK(r, row, NoAmendment, "none", Nothing)
    BY <1>2, NoAmendmentIs DEF AwaitOK
  <2>7. QED
    BY <1>2, <2>1, <2>4, <2>5, <2>6 DEF RowOK, MoneyOK
<1>12. ASSUME NEW r \in Req PROVE project[Sub(r)] = "none"
  BY <1>3, Places
<1>13. \A w \in Worker : ReadOK(tx[w], req)
  BY <1>3 DEF ReadOK, Idle
<1>14. QED
  BY <1>3, <1>10, <1>11, <1>12, <1>13 DEF Inv

LEMMA NextInv == Inv /\ [Next /\ UNCHANGED mix]_vars => Inv'
<1> SUFFICES ASSUME Inv, [Next /\ UNCHANGED mix]_vars PROVE Inv'
  OBVIOUS
<1>1. ASSUME NEW r \in Req, NEW p \in Main \cup {Nothing}, Create(r, p) PROVE Inv'
  BY <1>1, CreateStep
<1>2. ASSUME NEW r \in Req, NEW p \in Main \cup {Nothing}, NEW c \in usable, NEW t \in Texts,
             UpdateHeader(r, p, c, t)
      PROVE  Inv'
  BY <1>2, UpdateHeaderStep
<1>3. ASSUME NEW r \in Req, NEW e \in 0..MaxEstimate, WriteLines(r, e) PROVE Inv'
  BY <1>3, WriteLinesStep
<1>4. ASSUME NEW r \in Req, OpenAmendment(r) PROVE Inv'
  BY <1>4, OpenAmendmentStep
<1>5. ASSUME NEW r \in Req, NEW e \in 1..MaxEstimate, NEW t \in Texts, PutAmendment(r, e, t)
      PROVE  Inv'
  BY <1>5, PutAmendmentStep
<1>6. ASSUME NEW r \in Req, DeleteAmendment(r) PROVE Inv'
  BY <1>6, DeleteAmendmentStep
<1>7. ASSUME NEW r \in Req, Substitute(r) PROVE Inv'
  BY <1>7, SubstituteStep
<1>8. ASSUME NEW r \in Req, NEW w \in Worker, NEW op \in Commands, Begin(w, r, op) PROVE Inv'
  BY <1>8, BeginStep
<1>9. ASSUME NEW w \in Worker, Submit(w) PROVE Inv'
  BY <1>9, SubmitStep
<1>10. ASSUME NEW w \in Worker, WithdrawDraft(w) PROVE Inv'
  BY <1>10, WithdrawDraftStep
<1>11. ASSUME NEW w \in Worker, WithdrawPending(w) \/ WithdrawAmendment(w) PROVE Inv'
  BY <1>11, WithdrawStep
<1>12. ASSUME NEW w \in Worker, Decline(w) PROVE Inv'
  BY <1>12, DeclineStep
<1>13. ASSUME NEW w \in Worker, Approve(w) PROVE Inv'
  BY <1>13, ApproveStep
<1>14. ASSUME NEW w \in Worker, ApproveEarlier(w) PROVE Inv'
  BY <1>14, ApproveEarlierStep
<1>15. ASSUME NEW w \in Worker, ApproveAmendment(w) PROVE Inv'
  BY <1>15, ApproveAmendmentStep
<1>16. ASSUME NEW w \in Worker, SubmitAmendment(w) PROVE Inv'
  BY <1>16, SubmitAmendmentStep
<1>17. ASSUME NEW w \in Worker, StopClear(w) PROVE Inv'
  BY <1>17, StopClearStep
<1>18. ASSUME NEW w \in Worker, Stop(w) \/ StopAmending(w) PROVE Inv'
  BY <1>18, StopStep
<1>19. ASSUME NEW w \in Worker, Refuse(w) PROVE Inv'
  BY <1>19, RefuseStep
<1>20. ASSUME ChangeCode PROVE Inv'
  BY <1>20, ChangeCodeStep
<1>21. ASSUME NEW p \in Main, Defer(p) \/ Reactivate(p) \/ \E o \in BOOLEAN : Close(p, o)
       PROVE  Inv'
  BY <1>21, ProjectStep
<1>22. ASSUME UNCHANGED vars PROVE Inv'
  <2>1. project' = project /\ UNCHANGED <<req, applied, amendment, instance, approved, money, tx>>
    BY <1>22 DEF vars
  <2>2. usable' \subseteq Code /\ project \in [Project -> ProjectStatus]
    BY <1>22 DEF vars, Inv, TypeOK
  <2>3. QED
    BY <2>1, <2>2, CodesStep
<1>23. CASE Next
  BY <1>1, <1>2, <1>3, <1>4, <1>5, <1>6, <1>7, <1>8, <1>9, <1>10, <1>11, <1>12, <1>13, <1>15,
     <1>16, <1>17, <1>18, <1>19, <1>20, <1>21, <1>23, <1>14 DEF Next
<1>24. QED
  BY <1>22, <1>23

\* The invariant holds for any requisitions, projects, funds and transactions.
THEOREM RequisitionsAreWhole == Spec => []Inv
  BY InitInv, NextInv, PTL DEF Spec

\* A pending requisition holds its whole estimate on its project, an approved one on the project
\* made for it, and an ended one nothing, and no requisition keeps a second reservation, however
\* submissions, decisions, amendments, withdrawals and stops interleave (transition, on_outcome,
\* _amendment_outcome, stop_approved).
THEOREM EveryHoldIsDue == Spec => []HoldsMatchStatus
<1>1. Inv => HoldsMatchStatus
  <2> SUFFICES ASSUME Inv, NEW r \in Req, NEW row, row = req[r]
               PROVE  /\ \A k \in DOMAIN money.held :
                           k[1] = r /\ k # row.entry => money.held[k].left = 0
                      /\ row.status = "approval_pending" /\ r \notin Standalone =>
                           Held(money, row) = [project |-> row.project, left |-> row.estimate]
                      /\ row.status = "sourcing_in_progress" =>
                           /\ Held(money, row).left = row.estimate
                           /\ Held(money, row).project \in {Sub(r), Own(r)}
                      /\ row.status \in Ended /\ row.entry # Nothing => Held(money, row).left = 0
    BY DEF HoldsMatchStatus
  <2>1. HoldsOK(r, row, money) /\ StatusOK(r, row, money)
    BY RowIs DEF MoneyOK, Numbered
  <2>2. \A k \in DOMAIN money.held : k[1] = r /\ k # row.entry => money.held[k].left = 0
    BY <2>1 DEF HoldsOK
  <2>3. ASSUME row.status = "approval_pending", r \notin Standalone
        PROVE  Held(money, row) = [project |-> row.project, left |-> row.estimate]
    BY <2>1, <2>3 DEF StatusOK, Held
  <2>4. ASSUME row.status = "sourcing_in_progress"
        PROVE  /\ Held(money, row).left = row.estimate
               /\ Held(money, row).project \in {Sub(r), Own(r)}
    BY <2>1, <2>4, HeldIs DEF StatusOK
  <2>5. ASSUME row.status \in Ended, row.entry # Nothing PROVE Held(money, row).left = 0
    BY <2>1, <2>5, HeldIs DEF StatusOK
  <2>6. QED
    BY <2>2, <2>3, <2>4, <2>5
<1>2. QED
  BY <1>1, RequisitionsAreWhole, PTL

\* A sub-project owns exactly the estimate of its approved requisition, whatever amendments moved,
\* and nothing before the approval or after the stop (_fund_sub_project, _move, stop_approved).
THEOREM SubProjectsOwnTheirEstimate == Spec => []SubFundedExactly
<1>1. Inv => SubFundedExactly
  <2> SUFFICES ASSUME Inv, NEW r \in Req, NEW row, row = req[r]
               PROVE  money.allocated[Sub(r)] =
                        IF row.status = "sourcing_in_progress" /\ project[Sub(r)] # "none"
                        THEN row.estimate ELSE 0
    BY DEF SubFundedExactly
  <2>1. /\ StatusOK(r, row, money) /\ PlaceOK(r, row, money, project[Sub(r)]) /\ row \in Row
    BY RowIs DEF MoneyOK
  <2>2. CASE row.status \in Early
    BY <2>1, <2>2 DEF StatusOK, Unfunded, Early
  <2>3. CASE row.status = "sourcing_in_progress"
    BY <2>1, <2>3 DEF StatusOK, PlaceOK
  <2>4. CASE row.status \in Ended
    BY <2>1, <2>4 DEF StatusOK, Ended
  <2>5. QED
    BY <2>1, <2>2, <2>3, <2>4 DEF Row, Status
<1>2. QED
  BY <1>1, RequisitionsAreWhole, PTL

\* An approval runs exactly while a requisition or its amendment waits for one (start, withdraw,
\* on_outcome).
THEOREM NothingWaitsInVain == Spec => []ApprovalRunsWhileAwaited
<1>1. Inv => ApprovalRunsWhileAwaited
  BY RowIs DEF AwaitOK, ApprovalRunsWhileAwaited
<1>2. QED
  BY <1>1, RequisitionsAreWhole, PTL

-----------------------------------------------------------------------------
(* What the approval in force covers.                                        *)

\* A step that ends every requisition it writes, or leaves them and their approvals as they are.
LEMMA CoverElsewhere ==
    ASSUME Inv, approved' = approved,
           \/ req' = req
           \/ \E r \in Req : \E row : /\ req' = [req EXCEPT ![r] = row]
                                      /\ row.status # "sourcing_in_progress"
    PROVE  Covers
<1>1. CASE req' = req
  BY <1>1 DEF Covers, CoverStep, Approved, Stays
<1>2. ASSUME NEW r \in Req, NEW row, req' = [req EXCEPT ![r] = row],
             row.status # "sourcing_in_progress"
      PROVE  Covers
  <2>1. approved' = [approved EXCEPT ![r] = approved[r]]
    BY Unwritten
  <2>2. QED
    BY <1>2, <2>1, CoverOne
<1>3. QED
  BY <1>1, <1>2

\* Commands that write a requisition that is not approved afterwards.
LEMMA DraftCovers ==
    ASSUME Inv, NEW r \in Req, NEW p, NEW c, NEW t, NEW e,
           Create(r, p) \/ UpdateHeader(r, p, c, t) \/ WriteLines(r, e)
    PROVE  Covers
<1>1. req[r] \in Row
  BY RowIs
<1>2. PICK row : req' = [req EXCEPT ![r] = row] /\ row.status = "draft"
  <2>1. PICK a, b, d : /\ a = [req[r] EXCEPT !.status = "draft", !.version = 1, !.project = p]
                       /\ b = [req[r] EXCEPT !.project = p, !.code = c, !.text = t,
                                             !.version = @ + 1]
                       /\ d = [req[r] EXCEPT !.estimate = e, !.version = @ + 1]
    OBVIOUS
  <2>2. Create(r, p) => req' = [req EXCEPT ![r] = a] /\ a.status = "draft"
    BY <1>1, <2>1 DEF Create, Row
  <2>3. UpdateHeader(r, p, c, t) => req' = [req EXCEPT ![r] = b] /\ b.status = "draft"
    BY <1>1, <2>1 DEF UpdateHeader, Row
  <2>4. WriteLines(r, e) => req' = [req EXCEPT ![r] = d] /\ d.status = "draft"
    BY <1>1, <2>1 DEF WriteLines, Row
  <2>5. QED
    BY <2>2, <2>3, <2>4
<1>3. approved' = approved
  BY DEF Create, UpdateHeader, WriteLines
<1>4. QED
  BY <1>2, <1>3, CoverElsewhere

LEMMA SubmitCovers ==
    ASSUME Inv, NEW w \in Worker, Submit(w)
    PROVE  Covers
<1>1. PICK r, row, held : r = tx[w].r /\ row = req[r] /\ held = tx[w].held
  OBVIOUS
<1>2. r \in Req /\ row \in Row /\ approved' = approved
  BY <1>1, ReadIs, RowIs DEF Submit
<1>3. PICK key, done :
        /\ key = NextKey(r, row)
        /\ done = IF Reservation(row, held) THEN row
                  ELSE [row EXCEPT !.round = @ + 1, !.entry = key]
        /\ req' = [req EXCEPT ![r] = Moved(done, "approval_pending")]
  BY <1>1 DEF Submit
<1>4. Moved(done, "approval_pending").status = "approval_pending"
  <2>1. done = row \/ done = [row EXCEPT !.round = @ + 1, !.entry = key]
    BY <1>3
  <2>2. CASE done = row
    BY <1>2, <2>2, SameProject
  <2>3. CASE done = [row EXCEPT !.round = @ + 1, !.entry = key]
    BY <1>2, <2>3 DEF Moved, Row
  <2>4. QED
    BY <2>1, <2>2, <2>3
<1>5. QED
  BY <1>2, <1>3, <1>4, CoverElsewhere

LEMMA MovedCovers ==
    ASSUME Inv, NEW r \in Req, NEW to, to # "sourcing_in_progress", approved' = approved,
           req' = [req EXCEPT ![r] = Moved(@, to)]
    PROVE  Covers
<1>1. Moved(req[r], to).status = to
  BY RowIs, SameProject
<1>2. QED
  BY <1>1, CoverElsewhere

LEMMA EndingCovers ==
    ASSUME Inv, NEW w \in Worker,
           \/ WithdrawDraft(w) \/ WithdrawPending(w) \/ WithdrawAmendment(w) \/ Decline(w)
           \/ Stop(w) \/ StopAmending(w)
    PROVE  Covers
<1>1. PICK r : r = tx[w].r
  OBVIOUS
<1>2. tx[w].op # "none"
  BY DEF WithdrawDraft, WithdrawPending, WithdrawAmendment, Decline, Stop, StopAmending, Stops
<1>3. r \in Req
  BY <1>1, <1>2, ReadIs
<1>4. CASE WithdrawDraft(w)
  BY <1>1, <1>3, <1>4, MovedCovers DEF WithdrawDraft
<1>5. CASE WithdrawPending(w) \/ WithdrawAmendment(w) \/ Decline(w)
  <2>1. PICK outcome, to : /\ to # "sourcing_in_progress"
                           /\ NotApproved(r, outcome, to) \/ AmendmentClosed(r, outcome)
    BY <1>1, <1>5
       DEF WithdrawPending, WithdrawAmendment, WithdrawRunning, Decline
  <2>2. CASE NotApproved(r, outcome, to)
    BY <1>3, <2>1, <2>2, MovedCovers DEF NotApproved
  <2>3. CASE AmendmentClosed(r, outcome)
    BY <2>3, CoverElsewhere DEF AmendmentClosed
  <2>4. QED
    BY <2>1, <2>2, <2>3
<1>6. CASE Stop(w) \/ StopAmending(w)
  <2>1. PICK to \in {"withdrawn", "cancelled", "expired"} : Stopped(w, r, to)
    BY <1>1, <1>6 DEF Stop, StopAmending, Stops
  <2>2. approved' = approved
    BY <1>6 DEF Stop, StopAmending
  <2>3. QED
    BY <1>3, <2>1, <2>2, MovedCovers DEF Stopped
<1>7. QED
  BY <1>4, <1>5, <1>6

\* Every step leaves the cover of a requisition as it is, restores it or replaces an expired code.
LEMMA CoversNext == Inv /\ [Next /\ UNCHANGED mix]_vars => Covers
<1> SUFFICES ASSUME Inv, [Next /\ UNCHANGED mix]_vars PROVE Covers
  OBVIOUS
<1>1. ASSUME NEW r \in Req,
             \/ \E p \in Main \cup {Nothing} : Create(r, p)
             \/ \E p \in Main \cup {Nothing}, c \in usable, t \in Texts : UpdateHeader(r, p, c, t)
             \/ \E e \in 0..MaxEstimate : WriteLines(r, e)
      PROVE  Covers
  BY <1>1, DraftCovers
<1>2. ASSUME NEW r \in Req,
             \/ OpenAmendment(r) \/ DeleteAmendment(r)
             \/ \E e \in 1..MaxEstimate, t \in Texts : PutAmendment(r, e, t)
             \/ \E w \in Worker, op \in Commands : Begin(w, r, op)
      PROVE  Covers
  BY <1>2, CoverElsewhere DEF OpenAmendment, DeleteAmendment, PutAmendment, Begin
<1>3. ASSUME NEW r \in Req, Substitute(r) PROVE Covers
  BY <1>3, SubstituteStep
<1>4. ASSUME NEW w \in Worker, Submit(w) PROVE Covers
  BY <1>4, SubmitCovers
<1>5. ASSUME NEW w \in Worker,
             \/ WithdrawDraft(w) \/ WithdrawPending(w) \/ WithdrawAmendment(w) \/ Decline(w)
             \/ Stop(w) \/ StopAmending(w)
      PROVE  Covers
  BY <1>5, EndingCovers
<1>6. ASSUME NEW w \in Worker, ApproveEarlier(w) PROVE Covers
  BY <1>6, ApproveEarlierStep
<1>7. ASSUME NEW w \in Worker, Approve(w) PROVE Covers
  BY <1>7, ApproveStep
<1>8. ASSUME NEW w \in Worker, ApproveAmendment(w) PROVE Covers
  BY <1>8, ApproveAmendmentStep
<1>9. ASSUME NEW w \in Worker, SubmitAmendment(w) PROVE Covers
  BY <1>9, SubmitAmendmentStep
<1>10. ASSUME NEW w \in Worker, StopClear(w) \/ Refuse(w) PROVE Covers
  BY <1>10, CoverElsewhere DEF StopClear, Refuse
<1>11. ASSUME ChangeCode PROVE Covers
  BY <1>11, CoverElsewhere DEF ChangeCode
<1>12. ASSUME NEW p \in Main, Defer(p) \/ Reactivate(p) \/ \E o \in BOOLEAN : Close(p, o)
       PROVE  Covers
  BY <1>12, CoverElsewhere DEF Defer, Reactivate, Close
<1>13. ASSUME UNCHANGED vars PROVE Covers
  BY <1>13, CoverElsewhere DEF vars
<1>14. CASE Next
  BY <1>1, <1>2, <1>3, <1>4, <1>5, <1>6, <1>7, <1>8, <1>9, <1>10, <1>11, <1>12, <1>14 DEF Next
<1>15. QED
  BY <1>13, <1>14

\* An approved requisition of a project asks for the amount and the project that were approved,
\* whatever its amendments proposed, were refused or applied without an approval of their own
\* (IsMaterial, _amendment_outcome).
THEOREM ApprovalsCoverRequisitions == Spec => []ApprovalCovers
<1>1. Inv => ApprovalCovers
  BY RowIs DEF AwaitOK, ApprovalCovers
<1>2. QED
  BY <1>1, RequisitionsAreWhole, PTL DEF Spec

\* A requisition of a project is covered by its approval when it becomes approved, and from then
\* on loses the cover only to a code substituted in a step of a running amendment, whatever
\* becomes of that amendment (on_outcome, IsMaterial, rebase_digest, prepare_approval).
THEOREM CoverIsKept == Spec => CoverKept
<1>1. Inv /\ [Next /\ UNCHANGED mix]_vars =>
        [\A r \in Req : /\ Approved(r)' /\ ~Covered(r)'
                        /\ Approved(r) => Covered(r)
                        => amendment[r].status = "pending" /\ amendment'[r].status = "pending"]_vars
  <2> SUFFICES ASSUME Inv, [Next /\ UNCHANGED mix]_vars, NEW r \in Req,
                      Approved(r)', ~Covered(r)', Approved(r) => Covered(r)
               PROVE  amendment[r].status = "pending" /\ amendment'[r].status = "pending"
    OBVIOUS
  <2>1. Stays(r) \/ Replaces(r)
    BY CoversNext DEF Covers, CoverStep
  <2>2. ~Stays(r)
    BY DEF Stays, Covered
  <2>3. QED
    BY <2>1, <2>2 DEF Replaces
<1>2. QED
  BY <1>1, RequisitionsAreWhole, PTL DEF Spec, CoverKept

-----------------------------------------------------------------------------
(* The sum of Reserved: nothing is reserved on a project exactly when        *)
(* nothing is left of any hold on it.                                        *)

NatLess == {ss \in Nat \X Nat : ss[1] < ss[2]}

\* Induction on a set of naturals: one that it does not hold would have a least element.
LEMMA SetInduction ==
    ASSUME NEW S, 0 \in S, \A n \in Nat : n \in S => n + 1 \in S
    PROVE  Nat \subseteq S
<1> DEFINE T == Nat \ S
<1>1. SUFFICES ASSUME T # {} PROVE FALSE
  OBVIOUS
<1>2. IsWellFoundedOn(NatLess, Nat)
  BY NatLessThanWellFounded DEF OpToRel, NatLess
<1>3. PICK x \in T : \A y \in T : ~(<<y, x>> \in NatLess)
  BY <1>1, <1>2, WFMin
<1>4. \A y \in T : ~(y < x)
  BY <1>3 DEF NatLess
<1>5. x - 1 \in Nat /\ x - 1 \in S
  BY <1>4
<1>6. QED
  BY <1>3, <1>5

Any(s) == CHOOSE x \in s : TRUE

\* What hold k of h counts for on p.
Left(h, p, k) == IF h[k].project = p THEN h[k].left ELSE 0

\* The sum over a set of holds, from the sum without one of them.
Partial(f, h, p, s) == IF s = {} THEN 0 ELSE Left(h, p, Any(s)) + f[s \ {Any(s)}]

IsTotal(f, h, p, S) == f = [s \in SUBSET S |-> Partial(f, h, p, s)]

LEMMA ReservedTotal ==
    ASSUME NEW m, NEW p
    PROVE  Reserved(m, p) = (CHOOSE f : IsTotal(f, m.held, p, DOMAIN m.held))[DOMAIN m.held]
  BY DEF Reserved, MapThenSumSet, MapThenFoldSet, IsTotal, Partial, Left, Any

\* One member fewer.
LEMMA OneFewer ==
    ASSUME NEW S, IsFiniteSet(S), NEW n \in Nat, NEW s \in SUBSET S, s # {},
           Cardinality(s) <= n + 1
    PROVE  /\ Any(s) \in s /\ s \ {Any(s)} \in SUBSET S /\ Cardinality(s \ {Any(s)}) <= n
<1>1. Any(s) \in s
  BY DEF Any
<1>2. IsFiniteSet(s)
  BY FS_Subset
<1>3. Cardinality(s) \in Nat /\ Cardinality(s \ {Any(s)}) = Cardinality(s) - 1
  BY <1>1, <1>2, FS_CardinalityType, FS_RemoveElement
<1>4. QED
  BY <1>1, <1>3

\* The empty set is the one without members.
LEMMA NoneLeft ==
    ASSUME NEW S, IsFiniteSet(S), NEW s \in SUBSET S, Cardinality(s) <= 0
    PROVE  s = {}
<1>1. IsFiniteSet(s) /\ Cardinality(s) \in Nat
  BY FS_Subset, FS_CardinalityType
<1>2. QED
  BY <1>1, FS_EmptySet

\* The recursion has a solution.
LEMMA TotalExists ==
    ASSUME NEW h, NEW p, NEW S, IsFiniteSet(S)
    PROVE  \E f : IsTotal(f, h, p, S)
<1> DEFINE Upto(f, n) == \A s \in SUBSET S : Cardinality(s) <= n => f[s] = Partial(f, h, p, s)
           T == {n \in Nat : \E f : Upto(f, n)}
<1>1. 0 \in T
  <2>1. PICK f : f = [s \in SUBSET S |-> 0]
    OBVIOUS
  <2>2. Upto(f, 0)
    BY <2>1, NoneLeft DEF Partial
  <2>3. QED
    BY <2>2
<1>2. ASSUME NEW n \in Nat, n \in T PROVE n + 1 \in T
  <2>1. PICK f : Upto(f, n)
    BY <1>2
  <2>2. PICK g : g = [s \in SUBSET S |-> Partial(f, h, p, s)]
    OBVIOUS
  <2>3. \A s \in SUBSET S : Cardinality(s) <= n => g[s] = f[s]
    BY <2>1, <2>2
  <2>4. ASSUME NEW s \in SUBSET S, Cardinality(s) <= n + 1 PROVE g[s] = Partial(g, h, p, s)
    <3>1. CASE s = {}
      BY <2>2, <3>1 DEF Partial
    <3>2. CASE s # {}
      <4>1. s \ {Any(s)} \in SUBSET S /\ Cardinality(s \ {Any(s)}) <= n
        BY <2>4, <3>2, OneFewer
      <4>2. g[s \ {Any(s)}] = f[s \ {Any(s)}]
        BY <2>3, <4>1
      <4>3. QED
        BY <2>2, <4>2 DEF Partial
    <3>3. QED
      BY <3>1, <3>2
  <2>5. QED
    BY <2>4
<1> HIDE DEF T
<1>3. Cardinality(S) \in T
  BY <1>1, <1>2, FS_CardinalityType, SetInduction
<1>4. PICK f : Upto(f, Cardinality(S))
  BY <1>3 DEF T
<1>5. PICK g : g = [s \in SUBSET S |-> f[s]]
  OBVIOUS
<1>6. ASSUME NEW s \in SUBSET S PROVE g[s] = Partial(g, h, p, s)
  <2>1. Cardinality(s) <= Cardinality(S)
    BY FS_Subset
  <2>2. f[s] = Partial(f, h, p, s)
    BY <1>4, <2>1
  <2>3. s # {} => g[s \ {Any(s)}] = f[s \ {Any(s)}]
    BY <1>5
  <2>4. QED
    BY <1>5, <2>2, <2>3 DEF Partial
<1>7. g = [s \in SUBSET S |-> Partial(g, h, p, s)]
  <2>1. g = [s \in SUBSET S |-> g[s]]
    BY <1>5
  <2>2. QED
    BY <1>6, <2>1
<1>8. QED
  BY <1>7 DEF IsTotal

\* Nothing is left of any hold on p.
Empty(m, p) == \A k \in DOMAIN m.held : m.held[k].project = p => m.held[k].left = 0

LEMMA ReservedZero ==
    ASSUME NEW m \in Money, IsFiniteSet(DOMAIN m.held), NEW p
    PROVE  Reserved(m, p) = 0 <=> Empty(m, p)
<1>1. PICK S, h, f : /\ S = DOMAIN m.held /\ h = m.held
                     /\ f = CHOOSE g : IsTotal(g, h, p, S)
  OBVIOUS
<1>2. Reserved(m, p) = f[S]
  BY <1>1, ReservedTotal
<1>3. \A s \in SUBSET S : f[s] = Partial(f, h, p, s)
  <2>1. IsTotal(f, h, p, S)
    BY <1>1, TotalExists
  <2>2. QED
    BY <2>1 DEF IsTotal
<1>4. \A k \in S : Left(h, p, k) \in Nat
  BY <1>1, HoldTypes DEF Left
<1> DEFINE Zero(s) == f[s] \in Nat /\ (f[s] = 0 <=> \A k \in s : Left(h, p, k) = 0)
           T == {n \in Nat : \A s \in SUBSET S : Cardinality(s) <= n => Zero(s)}
<1>5. 0 \in T
  <2>1. f[{}] = 0
    BY <1>3 DEF Partial
  <2>2. \A s \in SUBSET S : Cardinality(s) <= 0 => s = {}
    BY <1>1, NoneLeft
  <2>3. Zero({})
    BY <2>1
  <2>4. QED
    BY <2>2, <2>3
<1>6. ASSUME NEW n \in Nat, n \in T PROVE n + 1 \in T
  <2>1. ASSUME NEW s \in SUBSET S, Cardinality(s) <= n + 1 PROVE Zero(s)
    <3>1. CASE s = {}
      BY <1>3, <3>1 DEF Partial
    <3>2. CASE s # {}
      <4>1. PICK x, t : x = Any(s) /\ t = s \ {Any(s)}
        OBVIOUS
      <4>2. x \in s /\ t \in SUBSET S /\ Cardinality(t) <= n
        BY <1>1, <2>1, <3>2, <4>1, OneFewer
      <4>3. Zero(t) /\ Left(h, p, x) \in Nat
        BY <1>4, <1>6, <4>2
      <4>4. f[s] = Left(h, p, x) + f[t]
        BY <1>3, <3>2, <4>1 DEF Partial
      <4>5. f[s] \in Nat /\ (f[s] = 0 <=> Left(h, p, x) = 0 /\ f[t] = 0)
        BY <4>3, <4>4
      <4>6. (\A k \in s : Left(h, p, k) = 0) <=> Left(h, p, x) = 0 /\ \A k \in t : Left(h, p, k) = 0
        <5>1. s = t \cup {x}
          BY <4>1, <4>2
        <5>2. QED
          BY <5>1
      <4>7. f[t] = 0 <=> \A k \in t : Left(h, p, k) = 0
        BY <4>3
      <4>8. QED
        BY <4>5, <4>6, <4>7
    <3>3. QED
      BY <3>1, <3>2
  <2>2. QED
    BY <2>1
<1>7. Zero(S)
  <2> HIDE DEF Zero
  <2>1. Cardinality(S) \in T
    BY <1>1, <1>5, <1>6, FS_CardinalityType, SetInduction
  <2>2. QED
    BY <1>1, <2>1, FS_CardinalityType
<1>8. Empty(m, p) <=> \A k \in S : Left(h, p, k) = 0
  BY <1>1 DEF Empty, Left
<1>9. QED
  BY <1>2, <1>7, <1>8

-----------------------------------------------------------------------------
(* Closed projects.  The invariant IdleInv counts the holds one by one, so   *)
(* that a posting on another project and a release cannot add to them.       *)

\* A ledger, whatever its entries are.
Book(m) ==
    /\ {"allocated", "held", "keys", "ok"} \subseteq DOMAIN m /\ IsFiniteSet(DOMAIN m.held)
    /\ \A k \in DOMAIN m.held : {"project", "left"} \subseteq DOMAIN m.held[k]

\* Nothing is held on the projects of P.
Spared(m, P) == Book(m) /\ \A p \in P : Empty(m, p)

LEMMA SparedReleasing ==
    ASSUME NEW m, NEW P, Spared(m, P), NEW r, NEW row, NEW reason
    PROVE  Spared(ReleaseLive(m, r, row, reason), P)
<1> DEFINE key == <<"release", r, row.round, reason>>
           e == row.entry
           n == [m EXCEPT !.held[e].left = 0, !.keys = @ \cup {key}]
<1>1. CASE e = Nothing \/ m.held[e].left = 0 \/ key \in m.keys
  BY <1>1 DEF ReleaseLive
<1>2. CASE ~(e = Nothing \/ m.held[e].left = 0 \/ key \in m.keys)
  <2>1. ReleaseLive(m, r, row, reason) = n
    BY <1>2 DEF ReleaseLive
  <2>2. /\ DOMAIN n = DOMAIN m /\ DOMAIN n.held = DOMAIN m.held
        /\ \A k \in DOMAIN m.held : /\ DOMAIN n.held[k] = DOMAIN m.held[k]
                                    /\ n.held[k].project = m.held[k].project
                                    /\ n.held[k].left \in {m.held[k].left, 0}
    BY DEF Spared, Book
  <2> HIDE DEF n
  <2>3. QED
    BY <2>1, <2>2 DEF Spared, Book, Empty
<1>3. QED
  BY <1>1, <1>2

LEMMA SparedMoving ==
    ASSUME NEW m, NEW P, Spared(m, P), NEW ps, NEW key, NEW from, NEW to, NEW amount
    PROVE  Spared(MoveFunds(m, ps, key, from, to, amount), P)
<1>1. PICK n : n = MoveFunds(m, ps, key, from, to, amount)
  OBVIOUS
<1>2. DOMAIN n = DOMAIN m /\ n.held = m.held
  BY <1>1 DEF MoveFunds, Spared, Book
<1>3. Spared(n, P)
  BY <1>2 DEF Spared, Book, Empty
<1>4. QED
  BY <1>1, <1>3

LEMMA SparedReserving ==
    ASSUME NEW m, NEW P, Spared(m, P), NEW ps, NEW key, NEW p, p \notin P, NEW amount
    PROVE  Spared(Reserve(m, ps, key, p, amount), P)
<1>1. PICK n : n = Reserve(m, ps, key, p, amount)
  OBVIOUS
<1>2. CASE key \in DOMAIN m.held
  <2>1. DOMAIN n = DOMAIN m /\ n.held = m.held
    BY <1>1, <1>2 DEF Reserve, Spared, Book
  <2>2. QED
    BY <1>1, <2>1 DEF Spared, Book, Empty
<1>3. CASE key \notin DOMAIN m.held
  <2>1. PICK h : h = [k \in DOMAIN m.held \cup {key} |->
                         IF k = key THEN [project |-> p, amount |-> amount, left |-> amount]
                         ELSE m.held[k]]
    OBVIOUS
  <2>2. DOMAIN n = DOMAIN m /\ n.held = h
    BY <1>1, <1>3, <2>1 DEF Reserve, Spared, Book
  <2>3. IsFiniteSet(DOMAIN h)
    BY <2>1, FS_AddElement DEF Spared, Book
  <2>4. \A k \in DOMAIN h :
          \/ k \in DOMAIN m.held /\ h[k] = m.held[k]
          \/ {"project", "left"} \subseteq DOMAIN h[k] /\ h[k].project = p
    BY <2>1
  <2>5. QED
    BY <1>1, <2>2, <2>3, <2>4 DEF Spared, Book, Empty
<1>4. QED
  BY <1>2, <1>3

Shut == {p \in Main : project[p] = "closed"}
OpenStatus == {"approval_pending", "sourcing_in_progress"}

IdleInv == Spared(money, Shut) /\ \A p \in Shut : OpenDocuments(p) = {}

\* A step on r's row opens nothing on a closed project.
KeptShut(r, row) ==
    row.status \in OpenStatus =>
        \/ row.project \notin Shut
        \/ req[r].status \in OpenStatus /\ row.project = req[r].project

LEMMA IdleStep ==
    ASSUME Inv, IdleInv, Spared(money', Shut),
           \A p \in Main : project'[p] = project[p],
           \/ req' = req
           \/ \E r \in Req : \E row : req' = [req EXCEPT ![r] = row] /\ KeptShut(r, row)
    PROVE  IdleInv'
<1>1. Shut' = Shut
  BY DEF Shut
<1>2. ASSUME NEW p \in Shut, NEW q \in Req, q \in OpenDocuments(p)' PROVE FALSE
  <2>1. req'[q].project = p /\ req'[q].status \in OpenStatus
    BY <1>2 DEF OpenDocuments, OpenStatus
  <2>2. CASE req'[q] = req[q]
    BY <2>1, <2>2 DEF IdleInv, OpenDocuments, OpenStatus
  <2>3. CASE KeptShut(q, req'[q])
    BY <2>1, <2>3 DEF IdleInv, OpenDocuments, OpenStatus, KeptShut
  <2>4. req'[q] = req[q] \/ KeptShut(q, req'[q])
    <3>1. req \in [Req -> Row]
      BY DEF Inv, TypeOK
    <3>2. QED
      BY <3>1
  <2>5. QED
    BY <2>2, <2>3, <2>4
<1>3. \A p \in Shut : OpenDocuments(p)' = {}
  BY <1>2 DEF OpenDocuments
<1>4. QED
  BY <1>1, <1>3 DEF IdleInv

LEMMA ShutIs ==
    ASSUME Inv, NEW r \in Req
    PROVE  /\ Shut \subseteq Main /\ Sub(r) \notin Main /\ Own(r) \notin Main /\ Nothing \notin Main
           /\ \A x : project' = [project EXCEPT ![Sub(r)] = x] =>
                       \A p \in Main : project'[p] = project[p]
           /\ \A x : project' = [project EXCEPT ![Own(r)] = x] =>
                       \A p \in Main : project'[p] = project[p]
<1>1. project \in [Project -> ProjectStatus] /\ Main \subseteq Project
  BY Places DEF Inv, TypeOK
<1>2. QED
  BY <1>1, Places, RequisitionsAssumption DEF Shut

\* Commands that touch neither money nor main projects, and open nothing.
LEMMA DraftingIdle ==
    ASSUME Inv, IdleInv, NEW r \in Req,
           \/ \E p \in Main \cup {Nothing} : Create(r, p)
           \/ \E p \in Main \cup {Nothing}, c \in usable, t \in Texts : UpdateHeader(r, p, c, t)
           \/ \E e \in 0..MaxEstimate : WriteLines(r, e)
    PROVE  IdleInv'
<1>1. money' = money /\ project' = project
  BY DEF Create, UpdateHeader, WriteLines
<1>2. PICK row : req' = [req EXCEPT ![r] = row] /\ row.status = "draft"
  <2>1. req[r] \in Row
    BY RowIs
  <2>2. ASSUME NEW p, Create(r, p)
        PROVE  \E row : req' = [req EXCEPT ![r] = row] /\ row.status = "draft"
    <3>1. PICK row : row = [req[r] EXCEPT !.status = "draft", !.version = 1, !.project = p]
      OBVIOUS
    <3>2. req' = [req EXCEPT ![r] = row] /\ row.status = "draft"
      BY <2>1, <2>2, <3>1 DEF Create, Row
    <3>3. QED
      BY <3>2
  <2>3. ASSUME NEW p, NEW c, NEW t, UpdateHeader(r, p, c, t)
        PROVE  \E row : req' = [req EXCEPT ![r] = row] /\ row.status = "draft"
    <3>1. PICK row : row = [req[r] EXCEPT !.project = p, !.code = c, !.text = t, !.version = @ + 1]
      OBVIOUS
    <3>2. req' = [req EXCEPT ![r] = row] /\ row.status = "draft"
      BY <2>1, <2>3, <3>1 DEF UpdateHeader, Row
    <3>3. QED
      BY <3>2
  <2>4. ASSUME NEW e, WriteLines(r, e)
        PROVE  \E row : req' = [req EXCEPT ![r] = row] /\ row.status = "draft"
    <3>1. PICK row : row = [req[r] EXCEPT !.estimate = e, !.version = @ + 1]
      OBVIOUS
    <3>2. req' = [req EXCEPT ![r] = row] /\ row.status = "draft"
      BY <2>1, <2>4, <3>1 DEF WriteLines, Row
    <3>3. QED
      BY <3>2
  <2>5. QED
    BY <2>2, <2>3, <2>4
<1>3. KeptShut(r, row)
  BY <1>2 DEF KeptShut, OpenStatus
<1>4. Spared(money', Shut)
  BY <1>1 DEF IdleInv
<1>5. QED
  BY <1>1, <1>2, <1>3, <1>4, IdleStep

LEMMA SubstituteIdle ==
    ASSUME Inv, IdleInv, NEW r \in Req, Substitute(r)
    PROVE  IdleInv'
<1>1. money' = money /\ project' = project
  BY DEF Substitute
<1>2. PICK code, row : row = [req[r] EXCEPT !.code = code] /\ req' = [req EXCEPT ![r] = row]
  BY DEF Substitute
<1>3. row.status = req[r].status /\ row.project = req[r].project
  <2>1. req[r] \in Row
    BY RowIs
  <2>2. QED
    BY <1>2, <2>1 DEF Row
<1>4. KeptShut(r, row)
  BY <1>3 DEF KeptShut
<1>5. Spared(money', Shut)
  BY <1>1 DEF IdleInv
<1>6. QED
  BY <1>1, <1>2, <1>4, <1>5, IdleStep

LEMMA ApproveEarlierIdle ==
    ASSUME Inv, IdleInv, NEW w \in Worker, ApproveEarlier(w)
    PROVE  IdleInv'
<1>1. money' = money /\ project' = project
  BY DEF ApproveEarlier
<1>2. PICK r, code, row : /\ r = tx[w].r /\ code \in usable /\ row = Corrected(r, req[r], code)
                          /\ req' = [req EXCEPT ![r] = row]
  BY DEF ApproveEarlier
<1>3. r \in Req
  BY <1>2, ReadIs DEF ApproveEarlier
<1>4. row.status = req[r].status /\ row.project = req[r].project
  <2>1. req[r] \in Row /\ usable \subseteq Code
    BY <1>3, RowIs
  <2>2. QED
    BY <1>2, <2>1, CorrectedRow DEF SameRow
<1>5. KeptShut(r, row)
  BY <1>4 DEF KeptShut
<1>6. Spared(money', Shut)
  BY <1>1 DEF IdleInv
<1>7. QED
  BY <1>1, <1>2, <1>3, <1>5, <1>6, IdleStep

LEMMA ElsewhereIdle ==
    ASSUME Inv, IdleInv, UNCHANGED <<req, money, project>>
    PROVE  IdleInv'
<1>1. Spared(money', Shut)
  BY DEF IdleInv
<1>2. QED
  BY <1>1, IdleStep

LEMMA SubmitIdle ==
    ASSUME Inv, IdleInv, NEW w \in Worker, Submit(w)
    PROVE  IdleInv'
<1>1. PICK r, row, held : r = tx[w].r /\ row = req[r] /\ held = tx[w].held
  OBVIOUS
<1>2. r \in Req /\ row \in Row /\ project' = project
  BY <1>1, ReadIs, RowIs DEF Submit
<1>3. row.project \notin Shut
  <2>1. r \notin Standalone => project[row.project] = "active"
    BY <1>1 DEF Submit, Submittable
  <2>2. row.status = "draft"
    BY <1>1, ReadIs DEF Submit, Unchanged
  <2>3. PlaceOK(r, row, money, project[Sub(r)])
    BY <1>1, <1>2, RowIs
  <2>4. r \in Standalone => row.project = Nothing
    BY <2>2, <2>3 DEF PlaceOK, Early
  <2>5. QED
    BY <1>2, <2>1, <2>4, ShutIs DEF Shut
<1>4. PICK key, done :
        /\ key = NextKey(r, row)
        /\ done = IF Reservation(row, held) THEN row
                  ELSE [row EXCEPT !.round = @ + 1, !.entry = key]
        /\ money' = IF Reservation(row, held) THEN money
                    ELSE Reserve(ReleaseLive(money, r, row, "resubmit"), project, key,
                                 row.project, row.estimate)
        /\ req' = [req EXCEPT ![r] = Moved(done, "approval_pending")]
  BY <1>1 DEF Submit
<1>5. Spared(money', Shut)
  <2>1. Spared(money, Shut)
    BY DEF IdleInv
  <2>2. PICK l : l = ReleaseLive(money, r, row, "resubmit")
    OBVIOUS
  <2>3. Spared(l, Shut)
    BY <2>1, <2>2, SparedReleasing
  <2>4. Spared(Reserve(l, project, key, row.project, row.estimate), Shut)
    BY <1>3, <2>3, SparedReserving
  <2>5. QED
    BY <1>4, <2>1, <2>2, <2>4
<1>6. KeptShut(r, Moved(done, "approval_pending"))
  <2>1. Moved(done, "approval_pending").project = row.project
    <3>1. done = row \/ done = [row EXCEPT !.round = @ + 1, !.entry = key]
      BY <1>4
    <3>2. CASE done = row
      BY <1>2, <3>2, SameProject
    <3>3. CASE done = [row EXCEPT !.round = @ + 1, !.entry = key]
      BY <1>2, <3>3 DEF Moved, Row
    <3>4. QED
      BY <3>1, <3>2, <3>3
  <2>2. QED
    BY <1>3, <2>1 DEF KeptShut
<1>7. QED
  BY <1>2, <1>4, <1>5, <1>6, IdleStep

\* A requisition that leaves the open statuses; what it held may be released.
LEMMA EndedIdle ==
    ASSUME Inv, IdleInv, NEW r \in Req, NEW to, to \notin OpenStatus, NEW m,
           Spared(m, Shut), money' = m, \A p \in Main : project'[p] = project[p],
           req' = [req EXCEPT ![r] = Moved(@, to)]
    PROVE  IdleInv'
<1>1. KeptShut(r, Moved(req[r], to))
  BY RowIs, SameProject DEF KeptShut
<1>2. QED
  BY <1>1, IdleStep

LEMMA WithdrawDraftIdle ==
    ASSUME Inv, IdleInv, NEW w \in Worker, WithdrawDraft(w)
    PROVE  IdleInv'
<1>1. PICK r : r = tx[w].r
  OBVIOUS
<1>2. /\ r \in Req /\ project' = project /\ money' = ReleaseLive(money, r, req[r], "withdrawn")
      /\ req' = [req EXCEPT ![r] = Moved(@, "withdrawn")]
  BY <1>1, ReadIs DEF WithdrawDraft
<1>3. Spared(money', Shut) /\ "withdrawn" \notin OpenStatus
  BY <1>2, SparedReleasing DEF IdleInv, OpenStatus
<1>4. QED
  BY <1>2, <1>3, EndedIdle

LEMMA OutcomeIdle ==
    ASSUME Inv, IdleInv, NEW r \in Req, NEW outcome, NEW to, to \notin OpenStatus,
           NotApproved(r, outcome, to) \/ AmendmentClosed(r, outcome)
    PROVE  IdleInv'
<1>1. CASE NotApproved(r, outcome, to)
  <2>1. PICK reason : money' = IF outcome = "returned" THEN money
                               ELSE ReleaseLive(money, r, req[r], reason)
    BY <1>1 DEF NotApproved
  <2>2. Spared(money', Shut)
    BY <2>1, SparedReleasing DEF IdleInv
  <2>3. QED
    BY <1>1, <2>2, EndedIdle DEF NotApproved
<1>2. CASE AmendmentClosed(r, outcome)
  BY <1>2, ElsewhereIdle DEF AmendmentClosed
<1>3. QED
  BY <1>1, <1>2

LEMMA EndingIdle ==
    ASSUME Inv, IdleInv, NEW w \in Worker, WithdrawPending(w) \/ WithdrawAmendment(w) \/ Decline(w)
    PROVE  IdleInv'
<1>1. PICK r : r = tx[w].r
  OBVIOUS
<1>2. r \in Req
  BY <1>1, ReadIs DEF WithdrawPending, WithdrawAmendment, Decline
<1>3. {"withdrawn", "cancelled", "draft", "rejected"} \cap OpenStatus = {}
  BY DEF OpenStatus
<1>4. PICK outcome, to : /\ to \notin OpenStatus
                         /\ NotApproved(r, outcome, to) \/ AmendmentClosed(r, outcome)
  <2>1. CASE WithdrawPending(w)
    BY <1>1, <1>3, <2>1 DEF WithdrawPending, WithdrawRunning
  <2>2. CASE WithdrawAmendment(w)
    BY <1>1, <1>3, <2>2 DEF WithdrawAmendment, WithdrawRunning
  <2>3. CASE Decline(w)
    BY <1>1, <1>3, <2>3 DEF Decline
  <2>4. QED
    BY <2>1, <2>2, <2>3
<1>5. QED
  BY <1>2, <1>4, OutcomeIdle

\* _fund_sub_project posts on the new sub-project.
LEMMA SparedFunding ==
    ASSUME Inv, NEW r \in Req, NEW m, Spared(m, Shut), NEW ps, NEW row
    PROVE  Spared(FundSub(m, ps, r, row), Shut)
<1>1. PICK l : l = ReleaseLive(m, r, row, "approved")
  OBVIOUS
<1>2. PICK u : u = MoveFunds(l, ps, <<"fund", r, row.round>>, row.project, Sub(r), row.estimate)
  OBVIOUS
<1>3. Spared(l, Shut)
  BY <1>1, SparedReleasing
<1>4. Spared(u, Shut)
  BY <1>2, <1>3, SparedMoving
<1>5. Sub(r) \notin Shut
  BY ShutIs
<1>6. Spared(Reserve(u, ps, <<r, row.round, "sub">>, Sub(r), row.estimate), Shut)
  BY <1>4, <1>5, SparedReserving
<1>7. QED
  BY <1>1, <1>2, <1>6 DEF FundSub

LEMMA ApproveIdle ==
    ASSUME Inv, IdleInv, NEW w \in Worker, Approve(w)
    PROVE  IdleInv'
<1>1. PICK r : r = tx[w].r
  OBVIOUS
<1>2. PICK code, row : /\ code \in usable /\ row = Corrected(r, req[r], code)
                       /\ row.status = "approval_pending"
                       /\ \/ ApproveFunded(r, row)
                          \/ ApproveNew(r, row)
                          \/ \E p \in Main : ApproveAssigned(r, row, p)
  BY <1>1 DEF Approve
<1>3. r \in Req
  BY <1>1, ReadIs DEF Approve
<1>4. row \in Row
  <2>1. code \in Code /\ req[r] \in Row
    BY <1>2, <1>3, RowIs
  <2>2. QED
    BY <1>2, <2>1, CorrectedRow
<1>5. Spared(money, Shut) /\ \A p \in Shut : project[p] # "active"
  BY DEF IdleInv, Shut
<1>6. CASE ApproveFunded(r, row)
  <2>1. PICK ps, done :
          /\ money' = FundSub(money, ps, r, row) /\ project' = [project EXCEPT ![Sub(r)] = "active"]
          /\ done = Moved([row EXCEPT !.entry = <<r, row.round, "sub">>], "sourcing_in_progress")
          /\ req' = [req EXCEPT ![r] = done] /\ project[row.project] = "active"
    BY <1>6 DEF ApproveFunded
  <2>2. done.project = row.project
    BY <1>4, <2>1 DEF Moved, Row
  <2>3. KeptShut(r, done)
    BY <1>5, <2>1, <2>2 DEF KeptShut
  <2>4. Spared(money', Shut)
    BY <1>3, <1>5, <2>1, SparedFunding
  <2>5. \A p \in Main : project'[p] = project[p]
    BY <1>3, <2>1, ShutIs
  <2>6. QED
    BY <1>3, <2>1, <2>3, <2>4, <2>5, IdleStep
<1>7. CASE ApproveNew(r, row)
  <2>1. PICK ps, m, done :
          /\ m = [money EXCEPT !.allocated[Own(r)] = @ + row.estimate]
          /\ money' = Reserve(m, ps, NextKey(r, row), Own(r), row.estimate)
          /\ project' = [project EXCEPT ![Own(r)] = "active"]
          /\ done = Moved([row EXCEPT !.project = Own(r), !.round = @ + 1,
                                      !.entry = NextKey(r, row)], "sourcing_in_progress")
          /\ req' = [req EXCEPT ![r] = done]
    BY <1>7 DEF ApproveNew
  <2>2. done.project = Own(r)
    BY <1>4, <2>1 DEF Moved, Row
  <2>3. Own(r) \notin Shut
    BY <1>3, ShutIs
  <2>4. DOMAIN m = DOMAIN money /\ m.held = money.held
    BY <1>5, <2>1 DEF Spared, Book
  <2>5. Spared(m, Shut)
    BY <1>5, <2>4 DEF Spared, Book, Empty
  <2>6. Spared(money', Shut)
    BY <2>1, <2>3, <2>5, SparedReserving
  <2>7. \A p \in Main : project'[p] = project[p]
    BY <1>3, <2>1, ShutIs
  <2>8. KeptShut(r, done)
    BY <2>2, <2>3 DEF KeptShut
  <2>9. QED
    BY <1>3, <2>1, <2>6, <2>7, <2>8, IdleStep
<1>8. ASSUME NEW q \in Main, ApproveAssigned(r, row, q) PROVE IdleInv'
  <2>1. PICK ps, assigned, done :
          /\ assigned = [row EXCEPT !.project = q, !.round = @ + 1]
          /\ money' = FundSub(money, ps, r, assigned)
          /\ project' = [project EXCEPT ![Sub(r)] = "active"]
          /\ done = Moved([assigned EXCEPT !.entry = <<r, assigned.round, "sub">>],
                          "sourcing_in_progress")
          /\ req' = [req EXCEPT ![r] = done] /\ project[q] = "active"
    BY <1>8 DEF ApproveAssigned, Assignable
  <2>2. done.project = q
    BY <1>4, <2>1 DEF Moved, Row
  <2>3. KeptShut(r, done)
    BY <1>5, <2>1, <2>2 DEF KeptShut
  <2>4. Spared(money', Shut)
    BY <1>3, <1>5, <2>1, SparedFunding
  <2>5. \A p \in Main : project'[p] = project[p]
    BY <1>3, <2>1, ShutIs
  <2>6. QED
    BY <1>3, <2>1, <2>3, <2>4, <2>5, IdleStep
<1>9. QED
  BY <1>2, <1>6, <1>7, <1>8

\* _amendment_outcome posts on the project made for the requisition.
LEMMA SparedRefunding ==
    ASSUME NEW r, NEW row, NEW total, Held(money, row).project \notin Shut, Spared(money, Shut)
    PROVE  Spared(Refunded(r, row, total), Shut)
<1>1. PICK held : held = Held(money, row)
  OBVIOUS
<1>2. PICK delta, key, up, l, m :
        /\ delta = total - held.left /\ key = NextKey(r, row)
        /\ up = IF held.project # row.project /\ delta > 0
                THEN MoveFunds(money, project, <<"amend", r, row.round + 1>>, row.project,
                               held.project, delta)
                ELSE money
        /\ l = ReleaseLive(up, r, row, "resubmit")
        /\ m = Reserve(l, project, key, held.project, total)
  OBVIOUS
<1>3. Spared(up, Shut)
  <2>1. Spared(MoveFunds(money, project, <<"amend", r, row.round + 1>>, row.project,
                         held.project, delta), Shut)
    BY SparedMoving
  <2>2. QED
    BY <1>2, <2>1
<1>4. Spared(l, Shut)
  BY <1>2, <1>3, SparedReleasing
<1>5. Spared(m, Shut)
  BY <1>1, <1>2, <1>4, SparedReserving
<1>6. Spared(MoveFunds(m, project, <<"amend", r, row.round + 1>>, held.project, row.project,
                       -delta), Shut)
  BY <1>5, SparedMoving
<1>7. Refunded(r, row, total) =
        IF held.project # row.project /\ delta < 0
        THEN MoveFunds(m, project, <<"amend", r, row.round + 1>>, held.project, row.project, -delta)
        ELSE m
  BY <1>1, <1>2, Zenon DEF Refunded
<1>8. QED
  BY <1>5, <1>6, <1>7

LEMMA ApproveAmendmentIdle ==
    ASSUME Inv, IdleInv, NEW w \in Worker, ApproveAmendment(w)
    PROVE  IdleInv'
<1>1. PICK r : r = tx[w].r
  OBVIOUS
<1>2. r \in Req
  BY <1>1, ReadIs DEF ApproveAmendment
<1>3. PICK code \in usable : Approving(w, r, code)
  BY <1>1, Zenon DEF ApproveAmendment, Approving
<1>4. PICK c, row, funded, done :
        /\ c = Corrected(r, amendment[r].content, code)
        /\ row = Corrected(r, req[r], code) /\ row.status = "sourcing_in_progress"
        /\ funded = row \/ funded = [row EXCEPT !.round = @ + 1, !.entry = NextKey(r, row)]
        /\ done = Amended(funded, c)
        /\ money' = money \/ money' = Refunded(r, row, c.estimate)
        /\ req' = [req EXCEPT ![r] = done] /\ project' = project
  BY <1>3 DEF Approving
<1>5. row \in Row /\ SameRow(req[r], row)
  <2>1. code \in Code /\ req[r] \in Row
    BY <1>2, RowIs
  <2>2. QED
    BY <1>4, <2>1, CorrectedRow
<1>6. done.status = row.status /\ done.project = row.project
  <2>1. CASE funded = row
    BY <1>4, <1>5, <2>1, SameProject
  <2>2. CASE funded = [row EXCEPT !.round = @ + 1, !.entry = NextKey(r, row)]
    BY <1>4, <1>5, <2>2 DEF Amended, Row
  <2>3. QED
    BY <1>4, <2>1, <2>2
<1>7. KeptShut(r, done)
  BY <1>5, <1>6 DEF KeptShut, SameRow
<1>8. Held(money, row).project \notin Shut
  <2>1. MoneyOK(r, row, money)
    BY <1>2, <1>5, RowIs, MoneySame DEF SameRow
  <2>2. Held(money, row).project \in {Sub(r), Own(r)}
    BY <1>4, <2>1, HeldIs DEF MoneyOK, StatusOK
  <2>3. QED
    BY <1>2, <2>2, ShutIs
<1>9. Spared(money', Shut)
  <2>1. Spared(money, Shut)
    BY DEF IdleInv
  <2>2. Spared(Refunded(r, row, c.estimate), Shut)
    BY <1>8, <2>1, SparedRefunding
  <2>3. QED
    BY <1>4, <2>1, <2>2
<1>10. QED
  BY <1>2, <1>4, <1>7, <1>9, IdleStep

LEMMA SubmitAmendmentIdle ==
    ASSUME Inv, IdleInv, NEW w \in Worker, SubmitAmendment(w)
    PROVE  IdleInv'
<1>1. PICK r, c : r = tx[w].r /\ c = amendment[r].content
  OBVIOUS
<1>2. r \in Req /\ req[r] \in Row /\ UNCHANGED <<money, project>>
  BY <1>1, ReadIs, RowIs DEF SubmitAmendment
<1>3. req' = req \/ req' = [req EXCEPT ![r] = Amended(req[r], c)]
  BY <1>1 DEF SubmitAmendment
<1>4. KeptShut(r, Amended(req[r], c))
  BY <1>2, SameProject DEF KeptShut
<1>5. Spared(money', Shut)
  BY <1>2 DEF IdleInv
<1>6. QED
  BY <1>2, <1>3, <1>4, <1>5, IdleStep

LEMMA StopIdle ==
    ASSUME Inv, IdleInv, NEW w \in Worker, Stop(w) \/ StopAmending(w)
    PROVE  IdleInv'
<1>1. PICK r, to : r = tx[w].r /\ to = tx[w].op
  OBVIOUS
<1>2. r \in Req /\ Stopped(w, r, to) /\ to \in {"withdrawn", "cancelled", "expired"}
  BY <1>1, ReadIs DEF Stop, StopAmending, Stops
<1>3. PICK row, l, held :
        /\ row = req[r] /\ l = ReleaseLive(money, r, row, to) /\ held = Held(money, row)
        /\ money' = Returned(l, r, row, held)
        /\ req' = [req EXCEPT ![r] = Moved(row, to)]
        /\ project' = IF project[Sub(r)] # "none" THEN Abandoned(Sub(r)) ELSE Abandoned(Own(r))
  BY <1>2 DEF Stopped
<1>4. Spared(money', Shut)
  <2>1. Spared(l, Shut)
    BY <1>3, SparedReleasing DEF IdleInv
  <2>2. Spared(MoveFunds(l, project, <<"unfund", r, row.round>>, Sub(r), row.project,
                         Available(l, Sub(r))), Shut)
    BY <2>1, SparedMoving
  <2>3. QED
    BY <1>3, <2>1, <2>2 DEF Returned
<1>5. \A p \in Main : project'[p] = project[p]
  BY <1>2, <1>3, ShutIs DEF Abandoned
<1>6. to \notin OpenStatus
  BY <1>2 DEF OpenStatus
<1>7. QED
  BY <1>2, <1>3, <1>4, <1>5, <1>6, EndedIdle

\* Only a project that holds nothing is closed without an override.
LEMMA ProjectIdle ==
    ASSUME Inv, IdleInv, NEW p \in Main, Defer(p) \/ Reactivate(p) \/ \E o \in BOOLEAN : Close(p, o)
    PROVE  IdleInv'
<1>1. UNCHANGED <<req, money>> /\ project \in [Project -> ProjectStatus] /\ p \in Project
  BY DEF Defer, Reactivate, Close, Inv, TypeOK, Project
<1>2. \/ Shut' \subseteq Shut
      \/ Shut' \subseteq Shut \cup {p} /\ Reserved(money, p) = 0 /\ OpenDocuments(p) = {}
  <2>1. CASE Defer(p) \/ Reactivate(p)
    <3>1. PICK s \in {"deferred", "active"} : project' = [project EXCEPT ![p] = s]
      BY <2>1 DEF Defer, Reactivate
    <3>2. QED
      BY <1>1, <3>1 DEF Shut
  <2>2. ASSUME NEW o \in BOOLEAN, Close(p, o)
        PROVE  \/ Shut' \subseteq Shut
               \/ /\ Shut' \subseteq Shut \cup {p}
                  /\ Reserved(money, p) = 0 /\ OpenDocuments(p) = {}
    <3>1. project' = [project EXCEPT ![p] = IF o THEN "overridden" ELSE "closed"]
      BY <2>2 DEF Close
    <3>2. CASE o
      BY <1>1, <3>1, <3>2 DEF Shut
    <3>3. CASE ~o
      BY <1>1, <2>2, <3>1, <3>3 DEF Shut, Close
    <3>4. QED
      BY <3>2, <3>3
  <2>3. QED
    BY <2>1, <2>2
<1>3. Book(money) /\ \A q \in Shut : Empty(money, q) /\ OpenDocuments(q) = {}
  BY DEF IdleInv, Spared
<1>4. Reserved(money, p) = 0 => Empty(money, p)
  BY <1>3, ReservedZero DEF Book, Inv, TypeOK
<1>5. \A q \in Shut' : Empty(money, q) /\ OpenDocuments(q) = {}
  BY <1>2, <1>3, <1>4
<1>6. money' = money /\ req' = req
  BY <1>1
<1>7. Spared(money, Shut')
  BY <1>3, <1>5 DEF Spared
<1>8. \A q \in Shut' : OpenDocuments(q)' = {}
  BY <1>5, <1>6 DEF OpenDocuments
<1>9. QED
  BY <1>6, <1>7, <1>8 DEF IdleInv

LEMMA IdleInit == Init => IdleInv
<1> SUFFICES ASSUME Init PROVE IdleInv
  OBVIOUS
<1>1. Shut = {}
  <2>1. \A p \in Main : p \in Project /\ project[p] = "active"
    BY DEF Project, Init
  <2>2. QED
    BY <2>1 DEF Shut
<1>2. PICK none : none = <<>> /\ DOMAIN none = {}
  OBVIOUS
<1>3. PICK al : money = [allocated |-> al, held |-> none, keys |-> {}, ok |-> TRUE]
  BY <1>2, Zenon DEF Init
<1>4. DOMAIN money = {"allocated", "held", "keys", "ok"} /\ money.held = none
  BY <1>3
<1>5. Book(money)
  BY <1>2, <1>4, FS_EmptySet DEF Book
<1>6. QED
  BY <1>1, <1>5 DEF IdleInv, Spared

LEMMA IdleNext == Inv /\ IdleInv /\ [Next /\ UNCHANGED mix]_vars => IdleInv'
<1> SUFFICES ASSUME Inv, IdleInv, [Next /\ UNCHANGED mix]_vars PROVE IdleInv'
  OBVIOUS
<1>1. ASSUME NEW r \in Req,
             \/ \E p \in Main \cup {Nothing} : Create(r, p)
             \/ \E p \in Main \cup {Nothing}, c \in usable, t \in Texts : UpdateHeader(r, p, c, t)
             \/ \E e \in 0..MaxEstimate : WriteLines(r, e)
      PROVE  IdleInv'
  BY <1>1, DraftingIdle
<1>2. ASSUME NEW r \in Req,
             \/ OpenAmendment(r) \/ DeleteAmendment(r)
             \/ \E e \in 1..MaxEstimate, t \in Texts : PutAmendment(r, e, t)
             \/ \E w \in Worker, op \in Commands : Begin(w, r, op)
      PROVE  IdleInv'
  BY <1>2, ElsewhereIdle DEF OpenAmendment, DeleteAmendment, PutAmendment, Begin
<1>3. ASSUME NEW r \in Req, Substitute(r) PROVE IdleInv'
  BY <1>3, SubstituteIdle
<1>4. ASSUME NEW w \in Worker, Submit(w) PROVE IdleInv'
  BY <1>4, SubmitIdle
<1>5. ASSUME NEW w \in Worker, WithdrawDraft(w) PROVE IdleInv'
  BY <1>5, WithdrawDraftIdle
<1>6. ASSUME NEW w \in Worker, WithdrawPending(w) \/ WithdrawAmendment(w) \/ Decline(w)
      PROVE  IdleInv'
  BY <1>6, EndingIdle
<1>7. ASSUME NEW w \in Worker, Approve(w) PROVE IdleInv'
  BY <1>7, ApproveIdle
<1>8. ASSUME NEW w \in Worker, ApproveEarlier(w) PROVE IdleInv'
  BY <1>8, ApproveEarlierIdle
<1>9. ASSUME NEW w \in Worker, ApproveAmendment(w) PROVE IdleInv'
  BY <1>9, ApproveAmendmentIdle
<1>10. ASSUME NEW w \in Worker, SubmitAmendment(w) PROVE IdleInv'
  BY <1>10, SubmitAmendmentIdle
<1>11. ASSUME NEW w \in Worker, StopClear(w) \/ Refuse(w) PROVE IdleInv'
  BY <1>11, ElsewhereIdle DEF StopClear, Refuse
<1>12. ASSUME NEW w \in Worker, Stop(w) \/ StopAmending(w) PROVE IdleInv'
  BY <1>12, StopIdle
<1>13. ASSUME ChangeCode PROVE IdleInv'
  BY <1>13, ElsewhereIdle DEF ChangeCode
<1>14. ASSUME NEW p \in Main, Defer(p) \/ Reactivate(p) \/ \E o \in BOOLEAN : Close(p, o)
       PROVE  IdleInv'
  BY <1>14, ProjectIdle
<1>15. ASSUME UNCHANGED vars PROVE IdleInv'
  BY <1>15, ElsewhereIdle DEF vars
<1>16. CASE Next
  BY <1>1, <1>2, <1>3, <1>4, <1>5, <1>6, <1>7, <1>9, <1>10, <1>11, <1>12, <1>13, <1>14, <1>16,
     <1>8 DEF Next
<1>17. QED
  BY <1>15, <1>16

\* A project that was closed without an override holds no reservation and has no open requisition,
\* however its closing interleaves with submissions, assignments and amendments
\* (blocked_by_holdings, check_submission, _approved).
THEOREM ClosedProjectsAreIdle == Spec => []ClosedIsIdle
<1>1. Inv /\ IdleInv => ClosedIsIdle
  <2> SUFFICES ASSUME Inv, IdleInv, NEW p \in Main, project[p] = "closed"
               PROVE  Reserved(money, p) = 0 /\ OpenDocuments(p) = {}
    BY DEF ClosedIsIdle
  <2>1. Book(money) /\ Empty(money, p) /\ OpenDocuments(p) = {}
    BY DEF IdleInv, Spared, Shut
  <2>2. QED
    BY <2>1, ReservedZero DEF Book, Inv, TypeOK
<1>2. QED
  BY <1>1, IdleInit, IdleNext, RequisitionsAreWhole, PTL DEF Spec
=============================================================================
