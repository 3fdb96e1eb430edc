--------------------------- MODULE ProjectsProofs ---------------------------
(***************************************************************************)
(* Projects for any organization, any number of projects, requests and     *)
(* clients: the calendar holds together, documents and their approvals     *)
(* never part, a pending plan stands, the plans of ended projects are left *)
(* alone, the way between two projects of a tree is found, and an approval *)
(* under way has a way onward.                                             *)
(*                                                                         *)
(* The last two are about data: the chain of parents above a project, and  *)
(* the walk through a graph.  Both are functions built round by round      *)
(* (Recursion), so what a round holds follows from the round before it,    *)
(* and a set of counterexamples has a least one.  RoutesOK adds to the     *)
(* invariant what a published graph passed and what an approval that was   *)
(* started on it keeps.                                                    *)
(***************************************************************************)
EXTENDS Projects, FiniteSetTheorems, WellFoundedInduction, TLAPS

-----------------------------------------------------------------------------
(* The calendar *)

Period == [year : Int, no : 1..Months, month : Int, closed : BOOLEAN]

\* A row is where its year begins in the calendar of now, once; years are whole, and within one
\* the open periods follow the closed ones.
CalendarOK ==
    /\ startMonth \in 1..Months
    /\ period \subseteq Period
    /\ \A p \in period : p.month = FirstOf(p.year, startMonth) + p.no - 1
    /\ \A p, q \in period : p.year = q.year /\ p.no = q.no => p = q
    /\ \A p \in period : \A n \in 1..Months : \E q \in period : q.year = p.year /\ q.no = n
    /\ \A p, q \in period : p.year = q.year /\ p.no < q.no /\ q.closed => p.closed

LookupsOK ==
    /\ seeking \in [Client -> Dates \cup {Nowhere}]
    /\ \A date \in asked : Covering(date) # {}

LEMMA Splits ==
    ASSUME NEW M \in Nat \ {0}, NEW y \in Int, NEW m \in 0..(M - 1), NEW d, d = y * M + m
    PROVE  d \div M = y /\ d % M = m
  OBVIOUS

LEMMA SameMonth ==
    ASSUME NEW M \in Nat \ {0}, NEW y \in Int, NEW z \in Int, NEW m \in 1..M, NEW n \in 1..M,
           y * M + m = z * M + n
    PROVE  y = z /\ m = n
<1>1. CASE y = z
  BY <1>1
<1>2. CASE y < z
  <2>1. (z - (y + 1)) * M >= 0
    BY <1>2
  <2>2. QED
    BY <2>1
<1>3. CASE z < y
  <2>1. (y - (z + 1)) * M >= 0
    BY <1>3
  <2>2. QED
    BY <2>1
<1>4. QED
  BY <1>1, <1>2, <1>3

LEMMA MonthsApart == CalendarOK => \A p, q \in period : p.month = q.month => p = q
<1> SUFFICES ASSUME CalendarOK, NEW p \in period, NEW q \in period, p.month = q.month
             PROVE  p = q
  OBVIOUS
<1>1. p \in Period /\ q \in Period
  BY DEF CalendarOK
<1> DEFINE b == IF startMonth = 1 THEN 0 ELSE 1
           y == p.year - b
           z == q.year - b
<1>2. y \in Int /\ z \in Int /\ p.no \in 1..Months /\ q.no \in 1..Months /\ Months \in Nat \ {0}
  BY <1>1, OrganizationAssumption DEF Period
<1>3. startMonth \in Int
  BY OrganizationAssumption DEF CalendarOK
<1>4. /\ p.month = FirstOf(p.year, startMonth) + p.no - 1
      /\ q.month = FirstOf(q.year, startMonth) + q.no - 1
  BY DEF CalendarOK
<1>5. \A x : FirstOf(x, startMonth) =
             (IF startMonth = 1 THEN x ELSE x - 1) * Months + startMonth - 1
  BY DEF FirstOf
<1>6. p.year \in Int /\ q.year \in Int
  BY <1>1 DEF Period
<1>7. /\ y = IF startMonth = 1 THEN p.year ELSE p.year - 1
      /\ z = IF startMonth = 1 THEN q.year ELSE q.year - 1
  BY <1>6
<1> HIDE DEF y, z
<1>8. p.month = y * Months + startMonth - 1 + p.no - 1
  BY <1>4, <1>5, <1>7, Zenon
<1>9. q.month = z * Months + startMonth - 1 + q.no - 1
  BY <1>4, <1>5, <1>7, Zenon
<1>10. y * Months + p.no = z * Months + q.no
  <2>1. y * Months \in Int /\ z * Months \in Int
    BY <1>2
  <2> DEFINE i == y * Months
             j == z * Months
  <2> HIDE DEF i, j
  <2>2. i \in Int /\ j \in Int
    BY <2>1 DEF i, j
  <2>3. i + startMonth - 1 + p.no - 1 = j + startMonth - 1 + q.no - 1
    BY <1>8, <1>9 DEF i, j
  <2>4. i + p.no = j + q.no
    BY <1>2, <1>3, <2>2, <2>3
  <2>5. QED
    BY <2>4 DEF i, j
<1>11. y = z /\ p.no = q.no
  BY <1>2, <1>10, SameMonth
<1>12. p.year = q.year
  BY <1>1, <1>11 DEF y, z, Period, b
<1>13. QED
  BY <1>11, <1>12 DEF CalendarOK

\* The periods ensure_year adds to a year: all of them, or none.
LEMMA GeneratedRows ==
    ASSUME CalendarOK, NEW year \in Int
    PROVE  /\ Generated(year) \subseteq Period
           /\ \A p \in Generated(year) :
                 /\ p.year = year /\ ~p.closed
                 /\ p.month = FirstOf(year, startMonth) + p.no - 1
                 /\ \A q \in period : q.year # year
           /\ \A n \in 1..Months : \E q \in period \cup Generated(year) : q.year = year /\ q.no = n
           /\ \A p, q \in Generated(year) : p.no = q.no => p = q
<1> DEFINE Row(n) == [year |-> year, no |-> n, month |-> FirstOf(year, startMonth) + n - 1,
                      closed |-> FALSE]
           Free == {m \in 1..Months : ~\E p \in period : p.year = year /\ p.no = m}
<1>1. Generated(year) = {Row(n) : n \in Free}
  BY DEF Generated
<1>2. FirstOf(year, startMonth) \in Int
  <2>1. startMonth \in Int /\ Months \in Int
    BY OrganizationAssumption DEF CalendarOK
  <2>2. \A y \in Int : y * Months \in Int
    BY <2>1
  <2>3. (IF startMonth = 1 THEN year ELSE year - 1) \in Int
    OBVIOUS
  <2>4. QED
    BY <2>1, <2>2, <2>3 DEF FirstOf
<1>3. Months \in Nat
  BY OrganizationAssumption
<1>4. \A n \in Free : Row(n) \in Period
  BY <1>2, <1>3 DEF Period
<1>5. \A m \in Free : \A q \in period : q.year # year
  BY DEF CalendarOK
<1>6. ASSUME NEW n \in 1..Months
      PROVE  \E q \in period \cup Generated(year) : q.year = year /\ q.no = n
  <2>1. CASE n \in Free
    <3>1. Row(n) \in Generated(year) /\ Row(n).year = year /\ Row(n).no = n
      BY <1>1, <2>1
    <3>2. QED
      BY <3>1
  <2>2. CASE n \notin Free
    BY <2>2
  <2>3. QED
    BY <2>1, <2>2
<1>7. ASSUME NEW p \in Generated(year)
      PROVE  /\ p \in Period /\ p.year = year /\ ~p.closed
             /\ p.month = FirstOf(year, startMonth) + p.no - 1 /\ p = Row(p.no)
             /\ \A q \in period : q.year # year
  <2>1. PICK n \in Free : p = Row(n)
    BY <1>1, <1>7
  <2>2. p = Row(p.no)
    BY <2>1
  <2>3. QED
    BY <1>4, <1>5, <2>1, <2>2
<1> HIDE DEF Row, Free
<1>8. QED
  BY <1>6, <1>7

LEMMA GenerateKeeps ==
    ASSUME CalendarOK, NEW year \in Int, period' = period \cup Generated(year),
           UNCHANGED startMonth
    PROVE  CalendarOK'
<1> DEFINE G == Generated(year)
<1>1. /\ G \subseteq Period
      /\ \A p \in G : /\ p.year = year /\ ~p.closed
                      /\ p.month = FirstOf(year, startMonth) + p.no - 1
                      /\ \A q \in period : q.year # year
      /\ \A n \in 1..Months : \E q \in period \cup G : q.year = year /\ q.no = n
      /\ \A p, q \in G : p.no = q.no => p = q
  BY GeneratedRows
<1> HIDE DEF G
<1>2. period' = period \cup G
  BY DEF G
<1>3. \A p \in period' : p.month = FirstOf(p.year, startMonth) + p.no - 1
  BY <1>1, <1>2 DEF CalendarOK
<1>4. \A p, q \in period' : p.year = q.year /\ p.no = q.no => p = q
  BY <1>1, <1>2 DEF CalendarOK
<1>5. \A p \in period' : \A n \in 1..Months : \E q \in period' : q.year = p.year /\ q.no = n
  BY <1>1, <1>2 DEF CalendarOK
<1>6. \A p, q \in period' : p.year = q.year /\ p.no < q.no /\ q.closed => p.closed
  BY <1>1, <1>2 DEF CalendarOK
<1>7. period' \subseteq Period
  BY <1>1, <1>2 DEF CalendarOK
<1>8. QED
  BY <1>3, <1>4, <1>5, <1>6, <1>7 DEF CalendarOK

LEMMA Covers ==
    ASSUME CalendarOK, NEW date \in Dates
    PROVE  /\ FiscalYear(date, startMonth) \in Int
           /\ \E n \in 1..Months :
                 FirstOf(FiscalYear(date, startMonth), startMonth) + n - 1 = date
<1> DEFINE s == startMonth
<1>1. Months \in Nat \ {0} /\ s \in 1..Months /\ Year \subseteq Nat
  BY OrganizationAssumption DEF CalendarOK
<1>2. PICK y \in Year : \E m \in 0..(Months - 1) : date = y * Months + m
  BY DEF Dates
<1>3. PICK m \in 0..(Months - 1) : date = y * Months + m
  BY <1>2
<1>4. y \in Int /\ date \in Int
  BY <1>1, <1>3
<1>5. date \div Months = y /\ date % Months = m
  BY <1>1, <1>3, <1>4, Splits
<1>6. FiscalYear(date, s) = y + (IF s # 1 /\ m + 1 >= s THEN 1 ELSE 0)
  BY <1>5 DEF FiscalYear
<1> DEFINE k == y * Months
<1>7. k \in Int /\ date = k + m
  BY <1>1, <1>3, <1>4
<1>8. (y - 1) * Months = k - Months
  BY <1>1, <1>4
<1> HIDE DEF k, s
<1>9. CASE s = 1
  <2>1. FiscalYear(date, s) = y
    BY <1>4, <1>6, <1>9
  <2>2. FirstOf(y, s) = k
    BY <1>7, <1>9 DEF FirstOf, k
  <2>3. k + (m + 1) - 1 = date /\ m + 1 \in 1..Months
    BY <1>1, <1>7
  <2>4. QED
    BY <1>4, <2>1, <2>2, <2>3 DEF s
<1>10. CASE s # 1 /\ m + 1 >= s
  <2>1. FiscalYear(date, s) = y + 1
    BY <1>6, <1>10
  <2>2. (y + 1) - 1 = y
    BY <1>4
  <2>3. FirstOf(y + 1, s) = k + s - 1
    BY <1>10, <2>2 DEF FirstOf, k
  <2>4. (k + s - 1) + (m + 2 - s) - 1 = date /\ m + 2 - s \in 1..Months
    BY <1>1, <1>7, <1>10
  <2>5. QED
    BY <1>4, <2>1, <2>3, <2>4 DEF s
<1>11. CASE s # 1 /\ ~(m + 1 >= s)
  <2>1. FiscalYear(date, s) = y
    BY <1>4, <1>6, <1>11
  <2>2. FirstOf(y, s) = (k - Months) + s - 1
    BY <1>8, <1>11 DEF FirstOf
  <2>3. ((k - Months) + s - 1) + (Months + m + 2 - s) - 1 = date
    BY <1>1, <1>7
  <2>4. Months + m + 2 - s \in 1..Months
    BY <1>1, <1>11
  <2>5. QED
    BY <1>4, <2>1, <2>2, <2>3, <2>4 DEF s
<1>12. QED
  BY <1>9, <1>10, <1>11

\* After generating the year of a date the date has a period.
LEMMA GeneratedCovers ==
    ASSUME CalendarOK, NEW date \in Dates, UNCHANGED startMonth,
           period' = period \cup Generated(FiscalYear(date, startMonth))
    PROVE  CalendarOK' /\ Covering(date)' # {}
<1> DEFINE y == FiscalYear(date, startMonth)
<1>1. y \in Int
  BY Covers
<1>2. PICK n \in 1..Months : FirstOf(y, startMonth) + n - 1 = date
  BY Covers
<1> HIDE DEF y
<1>3. period' = period \cup Generated(y)
  BY DEF y
<1>4. CalendarOK'
  BY <1>1, <1>3, GenerateKeeps
<1>5. PICK q \in period \cup Generated(y) : q.year = y /\ q.no = n
  BY <1>1, GeneratedRows
<1>6. q \in period' /\ startMonth' = startMonth
  BY <1>3, <1>5
<1>7. q.month = FirstOf(q.year, startMonth) + q.no - 1
  BY <1>4, <1>6 DEF CalendarOK
<1>8. q.month = date
  BY <1>2, <1>5, <1>7
<1>9. QED
  BY <1>4, <1>6, <1>8 DEF Covering

\* Closing or reopening keeps the months.
Toggled(p, q) ==
    /\ q.year = p.year /\ q.no = p.no /\ q.month = p.month /\ q \in Period

LEMMA ToggleKeeps ==
    ASSUME CalendarOK, UNCHANGED startMonth, NEW p \in period, NEW q, Toggled(p, q),
           period' = (period \ {p}) \cup {q},
           \A x, y \in period' : x.year = y.year /\ x.no < y.no /\ y.closed => x.closed
    PROVE  CalendarOK' /\ \A date : Covering(date) # {} => Covering(date)' # {}
<1>1. period' \subseteq Period
  BY DEF CalendarOK, Toggled
<1>2. \A x \in period' : x.month = FirstOf(x.year, startMonth) + x.no - 1
  BY DEF CalendarOK, Toggled
<1>3. \A x, y \in period' : x.year = y.year /\ x.no = y.no => x = y
  BY DEF CalendarOK, Toggled
<1>4. \A x \in period' : \A n \in 1..Months : \E y \in period' : y.year = x.year /\ y.no = n
  <2>1. SUFFICES ASSUME NEW x \in period', NEW n \in 1..Months
                 PROVE  \E y \in period' : y.year = x.year /\ y.no = n
    OBVIOUS
  <2>2. PICK z \in period : z.year = x.year
    BY DEF Toggled
  <2>3. PICK y \in period : y.year = z.year /\ y.no = n
    BY DEF CalendarOK
  <2>4. QED
    BY <2>2, <2>3 DEF Toggled
<1>5. \A date : Covering(date) # {} => Covering(date)' # {}
  BY DEF Covering, Toggled
<1>6. QED
  BY <1>1, <1>2, <1>3, <1>4, <1>5 DEF CalendarOK

LEMMA CloseKeeps ==
    ASSUME CalendarOK, NEW p, ClosePeriod(p)
    PROVE  CalendarOK' /\ \A date : Covering(date) # {} => Covering(date)' # {}
<1> DEFINE q == [p EXCEPT !.closed = TRUE]
<1>1. p \in period /\ p \in Period /\ UNCHANGED startMonth /\ period' = (period \ {p}) \cup {q}
  BY DEF ClosePeriod, CalendarOK
<1>2. Toggled(p, q) /\ q.closed
  BY <1>1 DEF Toggled, Period
<1> HIDE DEF q
<1>3. \A x \in period : x.month = p.month - 1 => x.closed
  BY DEF ClosePeriod
<1>4. ASSUME NEW x \in period, x.year = p.year, x.no < p.no PROVE x.closed
  <2>1. x \in Period /\ p.no \in 1..Months /\ x.no \in 1..Months /\ Months \in Nat
    BY <1>1, OrganizationAssumption DEF CalendarOK, Period
  <2>12. p.no - 1 \in 1..Months
    BY <1>4, <2>1
  <2>2. PICK y \in period : y.year = p.year /\ y.no = p.no - 1
    BY <1>1, <2>12 DEF CalendarOK
  <2> DEFINE f == FirstOf(p.year, startMonth)
  <2>3. p.month = f + p.no - 1 /\ y.month = f + y.no - 1
    BY <1>1, <2>2 DEF CalendarOK
  <2> HIDE DEF f
  <2>4. y.month \in Int /\ p.month \in Int
    BY <1>1 DEF CalendarOK, Period
  <2>5. f \in Int
    <3>1. startMonth \in Int /\ p.year \in Int /\ Months \in Int
      BY <1>1, OrganizationAssumption DEF CalendarOK, Period
    <3>2. \A z \in Int : z * Months \in Int
      BY <3>1
    <3>3. (IF startMonth = 1 THEN p.year ELSE p.year - 1) \in Int
      BY <3>1
    <3>4. QED
      BY <3>1, <3>2, <3>3 DEF FirstOf, f
  <2>6. y.month = p.month - 1
    BY <2>1, <2>2, <2>3, <2>5
  <2>7. y.closed
    BY <1>3, <2>6
  <2>8. x.no = y.no \/ x.no < y.no
    BY <1>4, <2>1, <2>2
  <2>9. CASE x.no = y.no
    BY <1>4, <2>2, <2>7, <2>9 DEF CalendarOK
  <2>10. CASE x.no < y.no
    BY <1>4, <2>2, <2>7, <2>10 DEF CalendarOK
  <2>11. QED
    BY <2>8, <2>9, <2>10
<1>5. ASSUME NEW x \in period', NEW y \in period', x.year = y.year, x.no < y.no, y.closed
      PROVE  x.closed
  <2>1. CASE x = q
    BY <1>2, <2>1
  <2>2. CASE x # q /\ y = q
    BY <1>1, <1>2, <1>4, <1>5, <2>2 DEF Toggled
  <2>3. CASE x # q /\ y # q
    BY <1>1, <1>5, <2>3 DEF CalendarOK
  <2>4. QED
    BY <2>1, <2>2, <2>3
<1>6. QED
  BY <1>1, <1>2, <1>5, ToggleKeeps

LEMMA ReopenKeeps ==
    ASSUME CalendarOK, NEW p, ReopenPeriod(p)
    PROVE  CalendarOK' /\ \A date : Covering(date) # {} => Covering(date)' # {}
<1> DEFINE q == [p EXCEPT !.closed = FALSE]
<1>1. p \in period /\ p \in Period /\ UNCHANGED startMonth /\ period' = (period \ {p}) \cup {q}
  BY DEF ReopenPeriod, CalendarOK
<1>2. Toggled(p, q) /\ ~q.closed
  BY <1>1 DEF Toggled, Period
<1> HIDE DEF q
<1>3. \A y \in period : y.month > p.month => ~y.closed
  BY DEF ReopenPeriod, Reopens
<1>4. ASSUME NEW y \in period, y.year = p.year, p.no < y.no PROVE ~y.closed
  <2>1. y \in Period /\ p.no \in 1..Months /\ y.no \in 1..Months /\ Months \in Nat
    BY <1>1, OrganizationAssumption DEF CalendarOK, Period
  <2> DEFINE f == FirstOf(p.year, startMonth)
  <2>2. p.month = f + p.no - 1 /\ y.month = f + y.no - 1
    BY <1>1, <1>4 DEF CalendarOK
  <2> HIDE DEF f
  <2>3. f \in Int
    <3>1. startMonth \in Int /\ p.year \in Int /\ Months \in Int
      BY <1>1, OrganizationAssumption DEF CalendarOK, Period
    <3>2. \A z \in Int : z * Months \in Int
      BY <3>1
    <3>3. (IF startMonth = 1 THEN p.year ELSE p.year - 1) \in Int
      BY <3>1
    <3>4. QED
      BY <3>1, <3>2, <3>3 DEF FirstOf, f
  <2>4. y.month > p.month
    BY <1>4, <2>1, <2>2, <2>3
  <2>5. QED
    BY <1>3, <2>4
<1>5. ASSUME NEW x \in period', NEW y \in period', x.year = y.year, x.no < y.no, y.closed
      PROVE  x.closed
  <2>1. CASE y = q
    BY <1>2, <1>5, <2>1
  <2>2. CASE x = q /\ y # q
    BY <1>1, <1>2, <1>4, <1>5, <2>2 DEF Toggled
  <2>3. CASE x # q /\ y # q
    BY <1>1, <1>5, <2>3 DEF CalendarOK
  <2>4. QED
    BY <2>1, <2>2, <2>3
<1>6. QED
  BY <1>1, <1>2, <1>5, ToggleKeeps

\* Other commands leave the calendar alone.
LEMMA CalendarStays ==
    CalendarOK /\ LookupsOK /\ UNCHANGED calendarVars => CalendarOK' /\ LookupsOK'
  BY DEF CalendarOK, LookupsOK, Covering, calendarVars

LEMMA CalendarMoves == CalendarOK /\ LookupsOK /\ CalendarStep => CalendarOK' /\ LookupsOK'
<1> SUFFICES ASSUME CalendarOK, LookupsOK, CalendarStep PROVE CalendarOK' /\ LookupsOK'
  OBVIOUS
<1>1. ASSUME NEW m \in StartMonths, SetCalendar(m) PROVE CalendarOK' /\ LookupsOK'
  <2>1. period = {} /\ period' = {} /\ startMonth' \in 1..Months /\ UNCHANGED <<seeking, asked>>
    BY <1>1, OrganizationAssumption DEF SetCalendar, CalendarOpen
  <2>2. asked = {}
    BY <2>1 DEF LookupsOK, Covering
  <2>3. QED
    BY <2>1, <2>2 DEF CalendarOK, LookupsOK
<1>2. ASSUME NEW y \in Year, EnsureYear(y) PROVE CalendarOK' /\ LookupsOK'
  <2>1. y \in Int
    BY OrganizationAssumption
  <2>2. CalendarOK'
    BY <1>2, <2>1, GenerateKeeps DEF EnsureYear
  <2>3. QED
    BY <1>2, <2>2 DEF EnsureYear, LookupsOK, Covering
<1>3. ASSUME NEW c \in Client, NEW date \in Dates, SeekPeriod(c, date)
      PROVE  CalendarOK' /\ LookupsOK'
  BY <1>3 DEF SeekPeriod, CalendarOK, LookupsOK, Covering
<1>4. ASSUME NEW c \in Client, GeneratePeriods(c) PROVE CalendarOK' /\ LookupsOK'
  <2>1. PICK date \in Dates : date = seeking[c]
    BY <1>4 DEF GeneratePeriods, LookupsOK
  <2>2. /\ UNCHANGED startMonth /\ asked' = asked \cup {date}
        /\ period' = period \cup Generated(FiscalYear(date, startMonth))
        /\ seeking' = [seeking EXCEPT ![c] = Nowhere]
    BY <1>4, <2>1 DEF GeneratePeriods
  <2>3. CalendarOK' /\ Covering(date)' # {}
    BY <2>1, <2>2, GeneratedCovers
  <2>4. \A d \in asked : Covering(d)' # {}
    BY <2>2 DEF LookupsOK, Covering
  <2>5. QED
    BY <2>2, <2>3, <2>4 DEF LookupsOK
<1>5. ASSUME NEW p \in period, ClosePeriod(p) PROVE CalendarOK' /\ LookupsOK'
  <2>1. UNCHANGED <<seeking, asked>>
    BY <1>5 DEF ClosePeriod
  <2>2. QED
    BY <1>5, <2>1, CloseKeeps DEF LookupsOK
<1>6. ASSUME NEW p \in period, ReopenPeriod(p) PROVE CalendarOK' /\ LookupsOK'
  <2>1. UNCHANGED <<seeking, asked>>
    BY <1>6 DEF ReopenPeriod
  <2>2. QED
    BY <1>6, <2>1, ReopenKeeps DEF LookupsOK
<1>7. QED
  BY <1>1, <1>2, <1>3, <1>4, <1>5, <1>6 DEF CalendarStep

-----------------------------------------------------------------------------
(* The tables *)

ProjectStatus ==
    {"none", "draft", "approval_pending", "active", "deferred", "completed", "abandoned"}
InstanceStatus == {"none", "running", "approved", "rejected", "returned", "withdrawn"}
RequestStatus == {"none", "pending", "approved", "rejected", "withdrawn"}
RequestKind == {"none", "allocation", "adjustment", "transfer"}
PlanOp == {"phase", "milestone", "risk"}

RequestRow == [status : RequestStatus, kind : RequestKind, project : Project \cup {Nowhere},
               to : Project \cup {Nowhere}, from : Project \cup {Nowhere}]
Transaction == [op : {"none", "request"} \cup PlanOp, project : Project \cup {Nowhere},
                request : Request \cup {Nowhere}, row : RequestRow]

\* A record with the fields of a row.
IsProject(v) ==
    v = [status |-> v.status, version |-> v.version, parent |-> v.parent, depth |-> v.depth,
         root |-> v.root, bu |-> v.bu, code |-> v.code, number |-> v.number, ref |-> v.ref]
IsInstance(v) ==
    v = [status |-> v.status, of |-> v.of, version |-> v.version, node |-> v.node, done |-> v.done]

\* What a project keeps for good once it is created.
SamePlace(v, w) == w.parent = v.parent /\ w.depth = v.depth /\ w.root = v.root /\ w.bu = v.bu

ProjectsOK ==
    /\ project = [p \in Project |-> project[p]]
    /\ \A p \in Project : /\ IsProject(project[p]) /\ project[p].status \in ProjectStatus
                          /\ project[p].parent \in Project \cup {Nowhere}
InstancesOK ==
    /\ instance = [d \in Doc |-> instance[d]]
    /\ \A d \in Doc : IsInstance(instance[d]) /\ instance[d].status \in InstanceStatus
PlansTyped == plan = [p \in Project |-> plan[p]]
RequestsOK == request \in [Request -> RequestRow] /\ posted \in [Request -> Nat]
TransactionsOK == tx \in [Client -> Transaction]

LEMMA RowMoved ==
    ASSUME NEW v, IsProject(v), NEW to, NEW w, w = Moved(v, to)
    PROVE  IsProject(w) /\ w.status = to /\ SamePlace(v, w)
<1>1. w = [v EXCEPT !.status = to, !.version = v.version + 1]
  BY DEF Moved
<1>2. DOMAIN v = {"status", "version", "parent", "depth", "root", "bu", "code", "number", "ref"}
  BY DEF IsProject
<1>3. /\ w.status = to /\ w.version = v.version + 1 /\ w.parent = v.parent /\ w.depth = v.depth
      /\ w.root = v.root /\ w.bu = v.bu /\ w.code = v.code /\ w.number = v.number /\ w.ref = v.ref
  BY <1>1, <1>2
<1>4. IsProject(w)
  BY <1>1, <1>2 DEF IsProject
<1>5. QED
  BY <1>3, <1>4 DEF SamePlace

\* One row of the table is written.
ProjectWritten(p, w) ==
    /\ project'[p] = w
    /\ \A q \in Project \ {p} : project'[q] = project[q]

LEMMA WriteProject ==
    ASSUME ProjectsOK, NEW p \in Project, NEW w, IsProject(w), w.status \in ProjectStatus,
           w.parent \in Project \cup {Nowhere},
           project' = [project EXCEPT ![p] = w]
    PROVE  ProjectsOK' /\ ProjectWritten(p, w)
<1>1. project' = [q \in Project |-> IF q = p THEN w ELSE project[q]]
  BY DEF ProjectsOK
<1>2. project' = [q \in Project |-> project'[q]]
  BY <1>1
<1>3. ProjectWritten(p, w)
  BY <1>1 DEF ProjectWritten
<1>4. QED
  BY <1>2, <1>3 DEF ProjectsOK, ProjectWritten

Judged(d, s) ==
    /\ instance'[d].status = s
    /\ \A e \in Doc \ {d} : instance'[e] = instance[e]

LEMMA WriteInstance ==
    ASSUME InstancesOK, NEW d \in Doc, NEW w, IsInstance(w), w.status \in InstanceStatus,
           instance' = [instance EXCEPT ![d] = w]
    PROVE  InstancesOK' /\ Judged(d, w.status) /\ instance'[d] = w
<1>1. instance' = [e \in Doc |-> IF e = d THEN w ELSE instance[e]]
  BY DEF InstancesOK
<1>2. instance' = [e \in Doc |-> instance'[e]]
  BY <1>1
<1>3. instance'[d] = w /\ \A e \in Doc \ {d} : instance'[e] = instance[e]
  BY <1>1
<1>4. QED
  BY <1>2, <1>3 DEF InstancesOK, Judged

LEMMA InstanceArrives ==
    ASSUME NEW i, IsInstance(i), NEW n, NEW w, w = Arrived(i, n)
    PROVE  /\ IsInstance(w) /\ w.node = n /\ w.of = i.of /\ w.version = i.version /\ w.done = i.done
           /\ w.status = IF Kind[n] = "end" THEN "approved" ELSE i.status
<1>1. w = IF Kind[n] = "end" THEN [i EXCEPT !.node = n, !.status = "approved"]
          ELSE [i EXCEPT !.node = n]
  BY DEF Arrived
<1>2. DOMAIN i = {"status", "of", "version", "node", "done"}
  BY DEF IsInstance
<1>3. CASE Kind[n] = "end"
  BY <1>1, <1>2, <1>3 DEF IsInstance
<1>4. CASE Kind[n] # "end"
  BY <1>1, <1>2, <1>4 DEF IsInstance
<1>5. QED
  BY <1>3, <1>4

\* An approval that starts runs, or is over at once.
LEMMA Started ==
    ASSUME InstancesOK, NEW d \in Doc, NEW bu, StartApproval(d, bu)
    PROVE  /\ InstancesOK' /\ instance[d].status # "running"
           /\ \E s \in {"running", "approved"} : Judged(d, s)
<1> DEFINE w == Resolve(TypeOf[d], bu)
           k == CHOOSE j \in Published(w) : TRUE
<1>1. PICK i : i = [NoInstance EXCEPT !.status = "running", !.of = w, !.version = k]
  OBVIOUS
<1>2. IsInstance(i) /\ i.status = "running"
  BY <1>1 DEF IsInstance, NoInstance
<1>3. PICK n : instance' = [instance EXCEPT ![d] = Arrived(i, n)]
  BY <1>1 DEF StartApproval
<1>4. PICK x : x = Arrived(i, n)
  OBVIOUS
<1>5. IsInstance(x) /\ x.status \in {"running", "approved"}
  BY <1>2, <1>4, InstanceArrives
<1>6. instance' = [instance EXCEPT ![d] = x]
  BY <1>3, <1>4
<1>7. x.status \in InstanceStatus
  BY <1>5 DEF InstanceStatus
<1>8. InstancesOK' /\ Judged(d, x.status)
  BY <1>5, <1>6, <1>7, WriteInstance
<1>9. instance[d].status # "running"
  BY DEF StartApproval
<1>10. QED
  BY <1>5, <1>8, <1>9

LEMMA StatusSet ==
    ASSUME InstancesOK, NEW d \in Doc, NEW s \in InstanceStatus,
           instance' = [instance EXCEPT ![d].status = s]
    PROVE  InstancesOK' /\ Judged(d, s)
<1>1. PICK v : v = instance[d]
  OBVIOUS
<1>2. IsInstance(v)
  BY <1>1 DEF InstancesOK
<1>3. PICK w : w = [v EXCEPT !.status = s]
  OBVIOUS
<1>4. DOMAIN v = {"status", "of", "version", "node", "done"}
  BY <1>2 DEF IsInstance
<1>5. IsInstance(w) /\ w.status = s
  BY <1>2, <1>3, <1>4 DEF IsInstance
<1>6. instance' = [instance EXCEPT ![d] = w]
  BY <1>1, <1>3
<1>7. QED
  BY <1>5, <1>6, WriteInstance

\* A decision lets a running approval run on, or ends it with an outcome.
LEMMA Decided ==
    ASSUME InstancesOK, NEW d \in Doc, NEW outcome \in Outcome, Decide(d, outcome)
    PROVE  /\ InstancesOK' /\ instance[d].status = "running"
           /\ \E s \in {"running"} \cup Outcome : Judged(d, s)
<1>1. instance[d].status = "running"
  BY DEF Decide
<1>2. CASE outcome = "approved"
  <2>1. PICK i : i = [instance[d] EXCEPT !.done = instance[d].done + 1]
    OBVIOUS
  <2>2. PICK v : v = instance[d]
    OBVIOUS
  <2>3. IsInstance(v) /\ v.status = "running"
    BY <1>1, <2>2 DEF InstancesOK
  <2>4. DOMAIN v = {"status", "of", "version", "node", "done"}
    BY <2>3 DEF IsInstance
  <2>5. IsInstance(i) /\ i.status = "running"
    BY <2>1, <2>2, <2>3, <2>4 DEF IsInstance
  <2>6. PICK n : instance' = [instance EXCEPT ![d] = Arrived(i, n)]
    BY <1>2, <2>1 DEF Decide
  <2>7. PICK x : x = Arrived(i, n)
    OBVIOUS
  <2>8. IsInstance(x) /\ x.status \in {"running", "approved"}
    BY <2>5, <2>7, InstanceArrives
  <2>9. instance' = [instance EXCEPT ![d] = x] /\ x.status \in InstanceStatus
    BY <2>6, <2>7, <2>8 DEF InstanceStatus
  <2>10. InstancesOK' /\ Judged(d, x.status)
    BY <2>8, <2>9, WriteInstance
  <2>11. QED
    BY <1>1, <2>8, <2>10 DEF Outcome
<1>3. CASE outcome # "approved"
  <2>1. instance' = [instance EXCEPT ![d].status = outcome] /\ outcome \in InstanceStatus
    BY <1>3 DEF Decide, Outcome, InstanceStatus
  <2>2. InstancesOK' /\ Judged(d, outcome)
    BY <2>1, StatusSet
  <2>3. QED
    BY <1>1, <2>2
<1>4. QED
  BY <1>2, <1>3

-----------------------------------------------------------------------------
(* Documents and their approvals *)

\* A request under way has the lock, a free key and a row that will be pending.
RequestsHeld ==
    \A c \in Client : tx[c].op = "request" =>
        /\ orgLock = c /\ tx[c].request \in Request
        /\ request[tx[c].request].status = "none" /\ tx[c].row.status = "pending"

\* A write of a plan holds the row of a project that has not ended.
PlansHeld ==
    \A c \in Client : tx[c].op \in PlanOp =>
        /\ tx[c].row.to \in Project /\ tx[c].project = tx[c].row.to
        /\ project[tx[c].row.to].status \notin Ended

TablesOK == ProjectsOK /\ InstancesOK /\ PlansTyped /\ RequestsOK /\ TransactionsOK
DocsOK == TablesOK /\ DocumentsFollowApprovals /\ RequestsHeld /\ PlansHeld

docVars == <<project, plan, instance, request, posted, tx, orgLock>>

LEMMA DocsStay == DocsOK /\ UNCHANGED docVars => DocsOK'
<1> SUFFICES ASSUME DocsOK, UNCHANGED docVars PROVE DocsOK'
  OBVIOUS
<1> USE DEF docVars
<1>1. TablesOK'
  BY DEF DocsOK, TablesOK, ProjectsOK, InstancesOK, PlansTyped, RequestsOK, TransactionsOK
<1>2. DocumentsFollowApprovals'
  BY DEF DocsOK, DocumentsFollowApprovals
<1>3. RequestsHeld' /\ PlansHeld'
  BY DEF DocsOK, RequestsHeld, PlansHeld
<1>4. QED
  BY <1>1, <1>2, <1>3 DEF DocsOK

\* A step that writes one project, and perhaps the approval of it.
LEMMA ProjectStepKeeps ==
    ASSUME DocsOK, NEW p \in Project, NEW w, ProjectsOK', ProjectWritten(p, w), InstancesOK',
           \A e \in Doc \ {p} : instance'[e] = instance[e],
           w.status = "approval_pending" <=> instance'[p].status = "running",
           w.status \in Ended => RowFree(p),
           UNCHANGED <<plan, request, posted, tx, orgLock>>
    PROVE  DocsOK'
<1>1. TablesOK'
  BY DEF DocsOK, TablesOK, PlansTyped, RequestsOK, TransactionsOK
<1>2. \A q \in Project : project'[q].status = "approval_pending" <=> instance'[q].status = "running"
  BY ProjectsAssumption DEF DocsOK, DocumentsFollowApprovals, ProjectWritten
<1>3. \A r \in Request : r \in Doc \ {p}
  BY ProjectsAssumption
<1>4. DocumentsFollowApprovals'
  BY <1>2, <1>3 DEF DocsOK, DocumentsFollowApprovals
<1>5. RequestsHeld'
  BY DEF DocsOK, RequestsHeld
<1>6. PlansHeld'
  BY DEF DocsOK, PlansHeld, ProjectWritten, RowFree
<1>7. QED
  BY <1>1, <1>4, <1>5, <1>6 DEF DocsOK

LEMMA ApprovalsOfProjects ==
    ASSUME DocsOK, NEW p \in Project
    PROVE  /\ project[p].status = "approval_pending" <=> instance[p].status = "running"
           /\ p \in Doc /\ IsProject(project[p]) /\ project[p].status \in ProjectStatus
           /\ project[p].parent \in Project \cup {Nowhere}
           /\ ProjectsOK /\ InstancesOK
  BY ProjectsAssumption DEF DocsOK, TablesOK, DocumentsFollowApprovals, ProjectsOK

\* A creation: another number is used up, and perhaps there is a new draft.
NewDraft(p, parent, bu, w) ==
    /\ IsProject(w) /\ w.status = "draft" /\ w.bu = bu
    /\ parent = Nowhere => w.parent = Nowhere /\ w.depth = 1 /\ w.root = p
    /\ parent # Nowhere => /\ w.parent = parent /\ w.depth = project[parent].depth + 1
                           /\ w.root = project[parent].root

\* The row of a new project.
LEMMA RowPlaced ==
    ASSUME NEW p, NEW parent, NEW bu, NEW code, NEW number, NEW v, NEW w,
           v = [NoProject EXCEPT !.status = "draft", !.version = 1, !.bu = bu,
                                 !.code = code, !.number = number],
           w = Placed(v, p, parent)
    PROVE  NewDraft(p, parent, bu, w)
<1>1. /\ v.status = "draft" /\ v.version = 1 /\ v.parent = Nowhere /\ v.depth = 0
      /\ v.root = Nowhere /\ v.bu = bu /\ v.code = code /\ v.number = number /\ v.ref = FALSE
      /\ IsProject(v)
  BY DEF IsProject, NoProject
<1>2. DOMAIN v = {"status", "version", "parent", "depth", "root", "bu", "code", "number", "ref"}
  BY <1>1 DEF IsProject
<1>3. CASE parent = Nowhere
  <2>1. w = [v EXCEPT !.depth = 1, !.root = p]
    BY <1>3 DEF Placed
  <2>2. /\ w.status = v.status /\ w.parent = v.parent /\ w.depth = 1 /\ w.root = p /\ w.bu = v.bu
    BY <2>1, <1>2
  <2>3. IsProject(w)
    BY <2>1, <1>2 DEF IsProject
  <2>4. QED
    BY <1>1, <1>3, <2>2, <2>3 DEF NewDraft
<1>4. CASE parent # Nowhere
  <2>1. w = [v EXCEPT !.parent = parent, !.depth = project[parent].depth + 1,
                      !.root = project[parent].root]
    BY <1>4 DEF Placed
  <2>2. /\ w.status = v.status /\ w.parent = parent /\ w.depth = project[parent].depth + 1
        /\ w.root = project[parent].root /\ w.bu = v.bu
    BY <2>1, <1>2
  <2>3. IsProject(w)
    BY <2>1, <1>2 DEF IsProject
  <2>4. QED
    BY <1>1, <1>4, <2>2, <2>3 DEF NewDraft
<1>5. QED
  BY <1>3, <1>4

LEMMA CreationWrites ==
    ASSUME DocsOK, NEW p \in Project, NEW parent \in Project \cup {Nowhere}, NEW u, NEW code,
           CreateProject(p, parent, u, code)
    PROVE  \/ UNCHANGED project
           \/ \E w : ProjectsOK' /\ ProjectWritten(p, w) /\ NewDraft(p, parent, u, w)
<1>1. SUFFICES ASSUME ~Duplicate(u)
               PROVE  \E w : ProjectsOK' /\ ProjectWritten(p, w) /\ NewDraft(p, parent, u, w)
  BY DEF CreateProject
<1>2. PICK number : number = NextNumber(u)
  OBVIOUS
<1>3. PICK v : v = [NoProject EXCEPT !.status = "draft", !.version = 1, !.bu = u,
                                     !.code = code, !.number = number]
  OBVIOUS
<1>4. PICK w : w = Placed(v, p, parent)
  OBVIOUS
<1>5. NewDraft(p, parent, u, w)
  BY <1>4, <1>3, RowPlaced
<1>6. project' = [project EXCEPT ![p] = w]
  BY <1>1, <1>4, <1>2, <1>3 DEF CreateProject
<1>7. IsProject(w) /\ w.status \in ProjectStatus /\ w.parent \in Project \cup {Nowhere}
  BY <1>5 DEF NewDraft, ProjectStatus
<1>8. QED
  BY <1>5, <1>6, <1>7, WriteProject DEF DocsOK, TablesOK

\* The columns of a row that an edit and a substitution write.
LEMMA RowEdited ==
    ASSUME NEW v, IsProject(v), NEW n, NEW ref, NEW code, NEW w,
           \/ w = [v EXCEPT !.version = n, !.ref = ref]
           \/ w = [v EXCEPT !.code = code]
    PROVE  IsProject(w) /\ w.status = v.status /\ SamePlace(v, w)
<1>1. DOMAIN v = {"status", "version", "parent", "depth", "root", "bu", "code", "number", "ref"}
  BY DEF IsProject
<1>2. CASE w = [v EXCEPT !.version = n, !.ref = ref]
  BY <1>1, <1>2 DEF IsProject, SamePlace
<1>3. CASE w = [v EXCEPT !.code = code]
  BY <1>1, <1>3 DEF IsProject, SamePlace
<1>4. QED
  BY <1>2, <1>3

\* The steps that change a project, and what they write.
Rewrites(p, w) ==
    /\ ProjectsOK' /\ ProjectWritten(p, w)
    /\ project[p].status # "none" /\ w.status # "none" /\ SamePlace(project[p], w)

LEMMA EditWrites ==
    ASSUME DocsOK, NEW p \in Project, NEW ref, NEW code,
           UpdateProject(p, ref) \/ SubstituteCode(p, code)
    PROVE  \E w : Rewrites(p, w) /\ w.status = project[p].status
<1>1. PICK v : v = project[p]
  OBVIOUS
<1>2. IsProject(v) /\ v.status \in ProjectStatus /\ v.status # "none"
  BY <1>1, ApprovalsOfProjects DEF UpdateProject, SubstituteCode, Created
<1>3. PICK w : /\ project' = [project EXCEPT ![p] = w]
               /\ \/ w = [v EXCEPT !.version = v.version + 1, !.ref = ref]
                  \/ w = [v EXCEPT !.code = code]
  <2>1. CASE UpdateProject(p, ref)
    <3>1. project' = [project EXCEPT ![p] = [v EXCEPT !.version = v.version + 1, !.ref = ref]]
      BY <1>1, <2>1 DEF UpdateProject, DocsOK, TablesOK, ProjectsOK
    <3>2. QED
      BY <3>1
  <2>2. CASE SubstituteCode(p, code)
    <3>1. project' = [project EXCEPT ![p] = [v EXCEPT !.code = code]]
      BY <1>1, <2>2 DEF SubstituteCode
    <3>2. QED
      BY <3>1
  <2>3. QED
    BY <2>1, <2>2
<1>4. IsProject(w) /\ w.status = v.status /\ SamePlace(v, w)
  BY <1>2, <1>3, RowEdited
<1>5. w.parent \in Project \cup {Nowhere}
  BY <1>1, <1>4, ApprovalsOfProjects DEF SamePlace
<1>6. ProjectsOK' /\ ProjectWritten(p, w)
  BY <1>2, <1>3, <1>4, <1>5, WriteProject DEF DocsOK, TablesOK
<1>7. QED
  BY <1>1, <1>2, <1>4, <1>6 DEF Rewrites

LEMMA TransitionWrites ==
    ASSUME DocsOK, NEW p \in Project, NEW to, Transition(p, to)
    PROVE  \E w : /\ Rewrites(p, w) /\ w.status # "approval_pending"
                  /\ project[p].status # "approval_pending"
<1>1. /\ project' = [project EXCEPT ![p] = Moved(project[p], to)] /\ project[p].status # "none"
      /\ <<project[p].status, to>> \in Step \cup ByHand(p)
  BY DEF Transition, Created
<1>2. PICK w : w = Moved(project[p], to)
  OBVIOUS
<1>3. project[p].status # "approval_pending" /\ to \in ProjectStatus \ {"none", "approval_pending"}
  BY <1>1, ApprovalsOfProjects DEF Step, ByHand, ProjectStatus
<1>4. IsProject(w) /\ w.status = to /\ SamePlace(project[p], w)
  BY <1>2, ApprovalsOfProjects, RowMoved
<1>5. w.parent \in Project \cup {Nowhere}
  BY <1>4, ApprovalsOfProjects DEF SamePlace
<1>6. ProjectsOK' /\ ProjectWritten(p, w)
  BY <1>1, <1>2, <1>3, <1>4, <1>5, WriteProject DEF DocsOK, TablesOK
<1>7. QED
  BY <1>1, <1>3, <1>4, <1>6 DEF Rewrites

\* The status an outcome leaves, from that of a document that awaits it.
AfterOutcome(s) ==
    IF s = "running" THEN "approval_pending" ELSE IF s = "approved" THEN "active" ELSE "draft"

LEMMA RowDecided ==
    ASSUME NEW v, IsProject(v), v.status = "approval_pending", NEW s, NEW w,
           w = ProjectOutcome(v, s)
    PROVE  IsProject(w) /\ w.status = AfterOutcome(s) /\ SamePlace(v, w)
<1>1. CASE s = "running"
  BY <1>1 DEF ProjectOutcome, AfterOutcome, SamePlace
<1>2. CASE s = "approved"
  <2>1. w = Moved(v, "active")
    BY <1>2 DEF ProjectOutcome
  <2>2. QED
    BY <1>2, <2>1, RowMoved DEF AfterOutcome
<1>3. CASE s # "running" /\ s # "approved"
  <2>1. w = Moved(v, "draft")
    BY <1>3 DEF ProjectOutcome
  <2>2. QED
    BY <1>3, <2>1, RowMoved DEF AfterOutcome
<1>4. QED
  BY <1>1, <1>2, <1>3

LEMMA SubmissionWrites ==
    ASSUME DocsOK, NEW p \in Project, SubmitProject(p)
    PROVE  /\ InstancesOK'
           /\ \E w, s : Rewrites(p, w) /\ Judged(p, s) /\ w.status = AfterOutcome(s)
<1>1. p \in Doc /\ IsProject(project[p]) /\ InstancesOK
  BY ApprovalsOfProjects
<1>2. StartApproval(p, project[p].bu) /\ project[p].status = "draft"
  BY DEF SubmitProject
<1>3. InstancesOK' /\ \E s \in {"running", "approved"} : Judged(p, s)
  BY <1>1, <1>2, Started
<1>4. PICK s \in {"running", "approved"} : Judged(p, s)
  BY <1>3
<1>5. PICK v : v = Moved(project[p], "approval_pending")
  OBVIOUS
<1>6. IsProject(v) /\ v.status = "approval_pending" /\ SamePlace(project[p], v)
  BY <1>1, <1>5, RowMoved
<1>7. PICK w : w = ProjectOutcome(v, s)
  OBVIOUS
<1>8. IsProject(w) /\ w.status = AfterOutcome(s) /\ SamePlace(v, w)
  BY <1>6, <1>7, RowDecided
<1>9. project' = [project EXCEPT ![p] = w]
  BY <1>4, <1>5, <1>7 DEF SubmitProject, Judged
<1>10. w.status \in ProjectStatus /\ w.status # "none"
  BY <1>8 DEF AfterOutcome, ProjectStatus
<1>11. w.parent \in Project \cup {Nowhere}
  BY <1>6, <1>8, ApprovalsOfProjects DEF SamePlace
<1>12. ProjectsOK' /\ ProjectWritten(p, w)
  BY <1>8, <1>9, <1>10, <1>11, WriteProject DEF DocsOK, TablesOK
<1>13. Rewrites(p, w)
  BY <1>2, <1>6, <1>8, <1>10, <1>12 DEF Rewrites, SamePlace
<1>14. QED
  BY <1>3, <1>4, <1>8, <1>13

LEMMA DecisionWrites ==
    ASSUME DocsOK, NEW p \in Project, NEW outcome \in Outcome, DecideProject(p, outcome)
    PROVE  /\ InstancesOK'
           /\ \E w, s : Rewrites(p, w) /\ Judged(p, s) /\ w.status = AfterOutcome(s)
<1>1. p \in Doc /\ IsProject(project[p]) /\ InstancesOK
  BY ApprovalsOfProjects
<1>2. Decide(p, outcome) /\ project[p].status = "approval_pending"
  BY DEF DecideProject
<1>3. InstancesOK' /\ \E s \in {"running"} \cup Outcome : Judged(p, s)
  BY <1>1, <1>2, Decided
<1>4. PICK s \in {"running"} \cup Outcome : Judged(p, s)
  BY <1>3
<1>5. PICK w : w = ProjectOutcome(project[p], s)
  OBVIOUS
<1>6. IsProject(w) /\ w.status = AfterOutcome(s) /\ SamePlace(project[p], w)
  BY <1>1, <1>2, <1>5, RowDecided
<1>7. project' = [project EXCEPT ![p] = w]
  BY <1>4, <1>5 DEF DecideProject, Judged
<1>8. w.status \in ProjectStatus /\ w.status # "none"
  BY <1>6 DEF AfterOutcome, ProjectStatus
<1>9. w.parent \in Project \cup {Nowhere}
  BY <1>6, ApprovalsOfProjects DEF SamePlace
<1>10. ProjectsOK' /\ ProjectWritten(p, w)
  BY <1>6, <1>7, <1>8, <1>9, WriteProject DEF DocsOK, TablesOK
<1>11. Rewrites(p, w)
  BY <1>2, <1>6, <1>8, <1>10 DEF Rewrites
<1>12. QED
  BY <1>3, <1>4, <1>6, <1>11

-----------------------------------------------------------------------------
(* Requests *)

\* The request r is written from a row, with a status, and posted if that is an approval.
RequestWritten(r, row, s) ==
    /\ request'[r].status = s /\ request'[r].kind = row.kind /\ request'[r].project = row.project
    /\ request'[r].from = row.from
    /\ \A q \in Request \ {r} : request'[q] = request[q] /\ posted'[q] = posted[q]
    /\ posted'[r] = IF s = "approved" THEN posted[r] + 1 ELSE posted[r]

\* The status of a request after an outcome.
RequestAfter(s) ==
    CASE s = "running" -> "pending" [] s = "approved" -> "approved"
      [] s = "withdrawn" -> "withdrawn" [] OTHER -> "rejected"

LEMMA RequestDecided ==
    ASSUME RequestsOK, NEW r \in Request, NEW row \in RequestRow, row.status = "pending",
           NEW s \in {"running"} \cup Outcome, RequestOutcome(r, row, s)
    PROVE  RequestsOK' /\ RequestWritten(r, row, RequestAfter(s))
<1>1. CASE s = "running"
  <2>1. request' = [request EXCEPT ![r] = row] /\ posted' = posted
    BY <1>1 DEF RequestOutcome
  <2>2. RequestAfter(s) = "pending"
    BY <1>1 DEF RequestAfter
  <2>3. RequestsOK'
    BY <2>1 DEF RequestsOK
  <2>4. QED
    BY <2>1, <2>2, <2>3 DEF RequestWritten, RequestsOK
<1>2. CASE s # "running"
  <2>1. PICK w : w = [row EXCEPT !.status = RequestAfter(s)]
    OBVIOUS
  <2>2. RequestAfter(s) \in RequestStatus
    BY DEF RequestAfter, RequestStatus, Outcome
  <2>3. /\ w \in RequestRow /\ w.status = RequestAfter(s) /\ w.kind = row.kind
        /\ w.project = row.project /\ w.from = row.from
    BY <2>1, <2>2 DEF RequestRow
  <2>4. CASE s = "approved"
    <3>1. RequestAfter(s) = "approved"
      BY <2>4 DEF RequestAfter
    <3>2. request' = [request EXCEPT ![r] = w] /\ posted' = [posted EXCEPT ![r] = posted[r] + 1]
      BY <2>1, <2>4, <3>1 DEF RequestOutcome
    <3>3. RequestsOK'
      BY <2>3, <3>2 DEF RequestsOK
    <3>4. QED
      BY <2>3, <3>1, <3>2, <3>3 DEF RequestWritten, RequestsOK
  <2>5. CASE s # "approved"
    <3>1. RequestAfter(s) = IF s = "withdrawn" THEN "withdrawn" ELSE "rejected"
      BY <1>2, <2>5 DEF RequestAfter
    <3>2. request' = [request EXCEPT ![r] = w] /\ posted' = posted
      BY <1>2, <2>1, <2>5, <3>1 DEF RequestOutcome
    <3>3. RequestsOK'
      BY <2>3, <3>2 DEF RequestsOK
    <3>4. QED
      BY <2>3, <3>1, <3>2, <3>3 DEF RequestWritten, RequestsOK
  <2>6. QED
    BY <2>4, <2>5
<1>3. QED
  BY <1>1, <1>2

\* A step of the approval of one request.
LEMMA RequestStepKeeps ==
    ASSUME DocsOK, NEW r \in Request, NEW row, NEW s \in {"running"} \cup Outcome,
           InstancesOK', Judged(r, s), RequestsOK', RequestWritten(r, row, RequestAfter(s)),
           posted[r] = 0, UNCHANGED <<project, plan>>
    PROVE  DocumentsFollowApprovals'
<1>1. \A p \in Project : p \in Doc \ {r}
  BY ProjectsAssumption
<1>2. \A q \in Request \ {r} : q \in Doc \ {r}
  BY ProjectsAssumption
<1>3. /\ RequestAfter(s) = "pending" <=> s = "running"
      /\ RequestAfter(s) = "approved" <=> s = "approved"
  BY DEF RequestAfter, Outcome
<1>4. \A p \in Project : project'[p].status = "approval_pending" <=> instance'[p].status = "running"
  BY <1>1 DEF DocsOK, DocumentsFollowApprovals, Judged
<1>5. ASSUME NEW q \in Request
      PROVE  /\ request'[q].status = "pending" <=> instance'[q].status = "running"
             /\ request'[q].status = "approved" <=> instance'[q].status = "approved"
             /\ posted'[q] = IF request'[q].status = "approved" THEN 1 ELSE 0
  <2>1. CASE q = r
    BY <1>3, <2>1 DEF Judged, RequestWritten
  <2>2. CASE q # r
    BY <1>2, <2>2 DEF DocsOK, DocumentsFollowApprovals, Judged, RequestWritten
  <2>3. QED
    BY <2>1, <2>2
<1>6. QED
  BY <1>4, <1>5 DEF DocumentsFollowApprovals

LEMMA IdleTyped == Idle \in Transaction /\ Idle.op = "none"
  BY DEF Idle, Transaction, NoRequest, RequestRow, RequestStatus, RequestKind, PlanOp

LEMMA CommitKeeps ==
    ASSUME DocsOK, NEW c \in Client, CommitRequest(c)
    PROVE  DocsOK'
<1>1. PICK r : r = tx[c].request
  OBVIOUS
<1>2. /\ tx[c].op = "request" /\ StartApproval(r, project[tx[c].row.project].bu)
      /\ RequestOutcome(r, tx[c].row, instance'[r].status)
      /\ tx' = [tx EXCEPT ![c] = Idle] /\ orgLock' = Nowhere /\ UNCHANGED <<project, plan>>
  BY <1>1 DEF CommitRequest, projectVars
<1>3. /\ orgLock = c /\ r \in Request /\ request[r].status = "none" /\ tx[c].row.status = "pending"
  BY <1>1, <1>2 DEF DocsOK, RequestsHeld
<1>4. r \in Doc /\ InstancesOK /\ RequestsOK
  BY <1>3, ProjectsAssumption DEF DocsOK, TablesOK
<1>5. InstancesOK' /\ \E s \in {"running", "approved"} : Judged(r, s)
  BY <1>2, <1>4, Started
<1>6. PICK s \in {"running", "approved"} : Judged(r, s)
  BY <1>5
<1>7. PICK row \in RequestRow : row = tx[c].row
  BY DEF DocsOK, TablesOK, TransactionsOK, Transaction
<1>8. s \in {"running"} \cup Outcome
  BY <1>6 DEF Outcome
<1>9. RequestOutcome(r, row, s) /\ row.status = "pending"
  BY <1>2, <1>3, <1>6, <1>7 DEF Judged
<1>10. RequestsOK' /\ RequestWritten(r, row, RequestAfter(s))
  BY <1>3, <1>4, <1>8, <1>9, RequestDecided
<1>11. posted[r] = 0
  BY <1>3 DEF DocsOK, DocumentsFollowApprovals
<1>12. DocumentsFollowApprovals'
  BY <1>2, <1>3, <1>5, <1>6, <1>8, <1>10, <1>11, RequestStepKeeps
<1>13. TransactionsOK'
  BY <1>2, IdleTyped DEF DocsOK, TablesOK, TransactionsOK
<1>14. tx'[c].op = "none" /\ \A b \in Client \ {c} : tx'[b] = tx[b]
  BY <1>2, IdleTyped DEF DocsOK, TablesOK, TransactionsOK
<1>15. \A b \in Client \ {c} : tx[b].op # "request"
  BY <1>3 DEF DocsOK, RequestsHeld
<1>16. RequestsHeld'
  BY <1>14, <1>15 DEF RequestsHeld
<1>17. PlansHeld'
  BY <1>2, <1>14 DEF DocsOK, PlansHeld, PlanOp
<1>18. TablesOK'
  BY <1>2, <1>5, <1>10, <1>13 DEF DocsOK, TablesOK, ProjectsOK, PlansTyped
<1>19. QED
  BY <1>12, <1>16, <1>17, <1>18 DEF DocsOK

LEMMA DecideRequestKeeps ==
    ASSUME DocsOK, NEW r \in Request, NEW outcome \in Outcome, DecideRequest(r, outcome)
    PROVE  DocsOK'
<1>1. /\ request[r].status = "pending" /\ Decide(r, outcome)
      /\ RequestOutcome(r, request[r], instance'[r].status)
      /\ UNCHANGED <<project, plan, tx, orgLock>>
  BY DEF DecideRequest, projectVars, organizationVars
<1>2. r \in Doc /\ InstancesOK /\ RequestsOK
  BY ProjectsAssumption DEF DocsOK, TablesOK
<1>3. InstancesOK' /\ \E s \in {"running"} \cup Outcome : Judged(r, s)
  BY <1>1, <1>2, Decided
<1>4. PICK s \in {"running"} \cup Outcome : Judged(r, s)
  BY <1>3
<1>5. PICK row \in RequestRow : row = request[r]
  BY <1>2 DEF RequestsOK
<1>6. RequestOutcome(r, row, s) /\ row.status = "pending"
  BY <1>1, <1>4, <1>5 DEF Judged
<1>7. RequestsOK' /\ RequestWritten(r, row, RequestAfter(s))
  BY <1>2, <1>6, RequestDecided
<1>8. posted[r] = 0
  BY <1>1 DEF DocsOK, DocumentsFollowApprovals
<1>9. DocumentsFollowApprovals'
  BY <1>1, <1>3, <1>4, <1>7, <1>8, RequestStepKeeps
<1>10. RequestsHeld'
  BY <1>1, <1>7 DEF DocsOK, RequestsHeld, RequestWritten
<1>11. PlansHeld'
  BY <1>1 DEF DocsOK, PlansHeld
<1>12. TablesOK'
  BY <1>1, <1>3, <1>7 DEF DocsOK, TablesOK, ProjectsOK, PlansTyped, TransactionsOK
<1>13. QED
  BY <1>9, <1>10, <1>11, <1>12 DEF DocsOK

LEMMA WantedRow ==
    ASSUME NEW row \in Wanted
    PROVE  /\ row \in RequestRow /\ row.project \in Project /\ project[row.project].status # "none"
           /\ row.status = "none"
<1>1. PICK kind \in RequestKind, p \in Made, q \in Made \cup {Nowhere} : row = Asking(kind, p, q)
  BY DEF Wanted, RequestKind
<1>2. p \in Project /\ project[p].status # "none" /\ q \in Project \cup {Nowhere}
  BY DEF Made, Created
<1>3. row \in RequestRow /\ row.project = p /\ row.status = "none"
  BY <1>1, <1>2 DEF Asking, NoRequest, RequestRow, RequestStatus
<1>4. QED
  BY <1>2, <1>3

\* The row of a request under way.
RowPlanned(row, w) ==
    /\ w \in RequestRow /\ w.status = "pending" /\ w.kind = row.kind /\ w.project = row.project
    /\ w.from = IF row.kind = "allocation" THEN PlannedParent(row.project) ELSE Nowhere

LEMMA BeginWrites ==
    ASSUME DocsOK, NEW c \in Client, NEW r \in NextRequest, NEW row \in Wanted,
           BeginRequest(c, r, row)
    PROVE  \E t \in Transaction : /\ tx' = [tx EXCEPT ![c] = t] /\ t.op = "request"
                                  /\ t.request = r /\ RowPlanned(row, t.row)
<1>1. row \in RequestRow /\ row.project \in Project
  BY WantedRow
<1>2. PICK f : f = IF row.kind = "allocation" THEN PlannedParent(row.project) ELSE Nowhere
  OBVIOUS
<1>3. f \in Project \cup {Nowhere}
  BY <1>1, <1>2, ApprovalsOfProjects DEF PlannedParent
<1>4. PICK w : w = [row EXCEPT !.status = "pending", !.from = f]
  OBVIOUS
<1>5. w \in RequestRow /\ w.status = "pending" /\ w.kind = row.kind /\ w.project = row.project
      /\ w.from = f
  BY <1>1, <1>3, <1>4 DEF RequestRow, RequestStatus
<1>6. RowPlanned(row, w)
  BY <1>2, <1>5 DEF RowPlanned
<1>7. PICK t : t = [Idle EXCEPT !.op = "request", !.request = r, !.row = w]
  OBVIOUS
<1>8. r \in Request
  BY DEF NextRequest
<1>9. t \in Transaction
  BY <1>5, <1>7, <1>8, IdleTyped DEF Transaction
<1>10. t.op = "request" /\ t.request = r /\ t.row = w
  BY <1>7 DEF Idle
<1>11. tx' = [tx EXCEPT ![c] = t]
  BY <1>2, <1>4, <1>7 DEF BeginRequest
<1>12. QED
  BY <1>6, <1>9, <1>10, <1>11

LEMMA BeginRequestKeeps ==
    ASSUME DocsOK, NEW c \in Client, NEW r \in NextRequest, NEW row \in Wanted,
           BeginRequest(c, r, row)
    PROVE  DocsOK'
<1>1. PICK t \in Transaction : /\ tx' = [tx EXCEPT ![c] = t] /\ t.op = "request"
                               /\ t.request = r /\ RowPlanned(row, t.row)
  BY BeginWrites
<1>2. /\ request[r].status = "none" /\ orgLock' = c /\ orgLock = Nowhere /\ r \in Request
      /\ UNCHANGED <<project, plan, request, posted, instance>>
  BY DEF BeginRequest, Unlocked, projectVars, budgetVars, workflowVars, NextRequest
<1>3. TransactionsOK' /\ tx'[c] = t /\ \A b \in Client \ {c} : tx'[b] = tx[b]
  BY <1>1 DEF DocsOK, TablesOK, TransactionsOK
<1>4. \A b \in Client : tx[b].op # "request"
  BY <1>2, OrganizationAssumption DEF DocsOK, RequestsHeld
<1>5. RequestsHeld'
  BY <1>1, <1>2, <1>3, <1>4 DEF RequestsHeld, RowPlanned
<1>6. PlansHeld'
  BY <1>1, <1>2, <1>3 DEF DocsOK, PlansHeld, PlanOp
<1>7. TablesOK' /\ DocumentsFollowApprovals'
  BY <1>2, <1>3 DEF DocsOK, TablesOK, ProjectsOK, PlansTyped, InstancesOK, RequestsOK,
                    DocumentsFollowApprovals
<1>8. QED
  BY <1>5, <1>6, <1>7 DEF DocsOK

\* A transaction that ends without changing a document; a plan may have been written.
LEMMA EndKeeps ==
    ASSUME DocsOK, NEW c \in Client, tx' = [tx EXCEPT ![c] = Idle], PlansTyped',
           \A b \in Client \ {c} : orgLock = b => orgLock' = b,
           UNCHANGED <<project, instance, request, posted>>
    PROVE  DocsOK'
<1>1. TransactionsOK' /\ tx'[c] = Idle /\ \A b \in Client \ {c} : tx'[b] = tx[b]
  BY IdleTyped DEF DocsOK, TablesOK, TransactionsOK
<1>2. tx'[c].op = "none"
  BY <1>1, IdleTyped
<1>3. RequestsHeld'
  BY <1>1, <1>2 DEF DocsOK, RequestsHeld
<1>4. PlansHeld'
  BY <1>1, <1>2 DEF DocsOK, PlansHeld, PlanOp
<1>5. TablesOK' /\ DocumentsFollowApprovals'
  BY <1>1 DEF DocsOK, TablesOK, ProjectsOK, InstancesOK, RequestsOK, DocumentsFollowApprovals
<1>6. QED
  BY <1>3, <1>4, <1>5 DEF DocsOK

LEMMA RollbackKeeps == ASSUME DocsOK, NEW c \in Client, Rollback(c) PROVE DocsOK'
<1>1. /\ tx' = [tx EXCEPT ![c] = Idle] /\ orgLock' = (IF orgLock = c THEN Nowhere ELSE orgLock)
      /\ UNCHANGED <<project, plan, instance, request, posted>>
  BY DEF Rollback, projectVars, budgetVars, workflowVars
<1>2. PlansTyped'
  BY <1>1 DEF DocsOK, TablesOK, PlansTyped
<1>3. QED
  BY <1>1, <1>2, EndKeeps

-----------------------------------------------------------------------------
(* Plans *)

LEMMA BeginPlanKeeps ==
    ASSUME DocsOK, NEW c \in Client, NEW op \in PlanOp, NEW p \in Project, BeginPlan(c, op, p)
    PROVE  DocsOK'
<1>1. PICK row : row = [NoRequest EXCEPT !.to = p]
  OBVIOUS
<1>2. row \in RequestRow /\ row.to = p
  BY <1>1 DEF NoRequest, RequestRow, RequestStatus, RequestKind
<1>3. PICK t : t = [Idle EXCEPT !.op = op, !.project = p, !.row = row]
  OBVIOUS
<1>4. t \in Transaction /\ t.op = op /\ t.project = p /\ t.row = row
  BY <1>2, <1>3, IdleTyped DEF Transaction
<1>5. /\ tx' = [tx EXCEPT ![c] = t] /\ project[p].status \notin Ended
      /\ UNCHANGED <<project, plan, instance, request, posted, orgLock>> /\ tx[c].op = "none"
  BY <1>1, <1>3 DEF BeginPlan, HeldRow, Idle, projectVars, budgetVars, workflowVars,
                    organizationVars
<1>6. TransactionsOK' /\ tx'[c] = t /\ \A b \in Client \ {c} : tx'[b] = tx[b]
  BY <1>4, <1>5 DEF DocsOK, TablesOK, TransactionsOK
<1>7. RequestsHeld'
  BY <1>4, <1>5, <1>6 DEF DocsOK, RequestsHeld, PlanOp
<1>8. PlansHeld'
  BY <1>2, <1>4, <1>5, <1>6 DEF DocsOK, PlansHeld
<1>9. TablesOK' /\ DocumentsFollowApprovals'
  BY <1>5, <1>6 DEF DocsOK, TablesOK, ProjectsOK, PlansTyped, InstancesOK, RequestsOK,
                    DocumentsFollowApprovals
<1>10. QED
  BY <1>7, <1>8, <1>9 DEF DocsOK

\* The plan of a project that has not ended is all that a write changes.
PlanWritten ==
    /\ PlansTyped'
    /\ \A p \in Project : project[p].status \in Ended => plan'[p] = plan[p]

LEMMA WritePlan ==
    ASSUME PlansTyped, NEW p \in Project, project[p].status \notin Ended,
           NEW v, plan' = plan \/ plan' = [plan EXCEPT ![p] = v]
    PROVE  PlanWritten
  BY DEF PlansTyped, PlanWritten

LEMMA PlanStepWrites ==
    ASSUME DocsOK, NEW c \in Client,
           \/ \E n \in 1..MaxRows, child \in Project \cup {Nowhere} : WritePhase(c, n, child)
           \/ WriteMilestone(c) \/ WriteRisk(c)
    PROVE  /\ PlanWritten /\ tx' = [tx EXCEPT ![c] = Idle]
           /\ UNCHANGED <<project, instance, request, posted, orgLock>>
<1>1. /\ tx[c].op \in PlanOp /\ tx' = [tx EXCEPT ![c] = Idle]
      /\ UNCHANGED <<project, instance, request, posted, orgLock>>
  BY DEF WritePhase, WriteMilestone, WriteRisk, PlanOp, budgetVars, workflowVars, organizationVars
<1>2. PICK p : p = tx[c].row.to
  OBVIOUS
<1>3. p \in Project /\ project[p].status \notin Ended
  BY <1>1, <1>2 DEF DocsOK, PlansHeld
<1>4. PlansTyped
  BY DEF DocsOK, TablesOK
<1>5. CASE \E n \in 1..MaxRows, child \in Project \cup {Nowhere} : WritePhase(c, n, child)
  <2>1. PICK n \in 1..MaxRows, child \in Project \cup {Nowhere} : WritePhase(c, n, child)
    BY <1>5
  <2>2. PICK row : row = [sequence |-> n, child |-> child]
    OBVIOUS
  <2>3. PICK v : v = [plan[p] EXCEPT !.phases = @ \cup {row}]
    OBVIOUS
  <2>4. plan' = plan \/ plan' = [plan EXCEPT ![p] = v]
    BY <1>2, <2>1, <2>2, <2>3 DEF WritePhase
  <2>5. QED
    BY <1>1, <1>3, <1>4, <2>4, WritePlan
<1>6. CASE WriteMilestone(c)
  <2>1. PICK v : v = [plan[p] EXCEPT !.milestones = IF @ < MaxRows THEN @ + 1 ELSE @]
    OBVIOUS
  <2>2. plan' = [plan EXCEPT ![p] = v]
    BY <1>2, <1>6, <2>1 DEF WriteMilestone
  <2>3. QED
    BY <1>1, <1>3, <1>4, <2>2, WritePlan
<1>7. CASE WriteRisk(c)
  <2>1. PICK v : v = [plan[p] EXCEPT !.risk = IF @ < MaxRows THEN @ + 1 ELSE @]
    OBVIOUS
  <2>2. plan' = [plan EXCEPT ![p] = v]
    BY <1>2, <1>7, <2>1 DEF WriteRisk
  <2>3. QED
    BY <1>1, <1>3, <1>4, <2>2, WritePlan
<1>8. QED
  BY <1>5, <1>6, <1>7

-----------------------------------------------------------------------------
(* Every step *)

\* The steps of a project, and what they leave alone.
LEMMA ProjectStepIs ==
    ASSUME ProjectStep
    PROVE  \E p \in Project :
              \/ \E code : \E parent \in Project \cup {Nowhere}, u \in Unit :
                    p \in NextProject /\ CreateProject(p, parent, u, code)
              \/ \E ref, code : UpdateProject(p, ref) \/ SubstituteCode(p, code)
              \/ \E to : Transition(p, to)
              \/ SubmitProject(p)
              \/ \E outcome \in Outcome : DecideProject(p, outcome)
  BY Zenon DEF ProjectStep, NextProject

\* A step that writes the row of a project or creates one keeps the documents.
LEMMA ProjectStepDocs == ASSUME DocsOK, ProjectStep PROVE DocsOK'
<1>1. PICK p \in Project :
              \/ \E code : \E parent \in Project \cup {Nowhere}, u \in Unit :
                    p \in NextProject /\ CreateProject(p, parent, u, code)
              \/ \E ref, code : UpdateProject(p, ref) \/ SubstituteCode(p, code)
              \/ \E to : Transition(p, to)
              \/ SubmitProject(p)
              \/ \E outcome \in Outcome : DecideProject(p, outcome)
  BY ProjectStepIs
<1>2. p \in Doc /\ InstancesOK /\ ProjectsOK /\ project[p].status \in ProjectStatus
      /\ (project[p].status = "approval_pending" <=> instance[p].status = "running")
  BY ApprovalsOfProjects
<1>3. ASSUME NEW parent \in Project \cup {Nowhere}, NEW u \in Unit, NEW code,
             CreateProject(p, parent, u, code)
      PROVE  DocsOK'
  <2>1. UNCHANGED <<plan, request, posted, tx, orgLock, instance>> /\ project[p].status = "none"
    BY <1>3 DEF CreateProject, Created, budgetVars, workflowVars
  <2>2. CASE UNCHANGED project
    BY <2>1, <2>2, DocsStay DEF docVars
  <2>3. ASSUME NEW w, ProjectsOK', ProjectWritten(p, w), NewDraft(p, parent, u, w) PROVE DocsOK'
    <3>1. w.status = "draft" /\ InstancesOK'
      BY <1>2, <2>1, <2>3 DEF NewDraft, InstancesOK
    <3>2. instance'[p].status # "running"
      BY <1>2, <2>1
    <3>3. QED
      BY <2>1, <2>3, <3>1, <3>2, ProjectStepKeeps DEF Ended
  <2>4. QED
    BY <1>3, <2>2, <2>3, CreationWrites
<1>4. ASSUME NEW ref, NEW code, UpdateProject(p, ref) \/ SubstituteCode(p, code) PROVE DocsOK'
  <2>1. UNCHANGED <<plan, request, posted, tx, orgLock, instance>> /\ RowFree(p)
    BY <1>4 DEF UpdateProject, SubstituteCode, budgetVars, workflowVars, organizationVars
  <2>2. PICK w : Rewrites(p, w) /\ w.status = project[p].status
    BY <1>4, EditWrites
  <2>3. InstancesOK'
    BY <1>2, <2>1 DEF InstancesOK
  <2>4. QED
    BY <1>2, <2>1, <2>2, <2>3, ProjectStepKeeps DEF Rewrites
<1>5. ASSUME NEW to, Transition(p, to) PROVE DocsOK'
  <2>1. UNCHANGED <<plan, request, posted, tx, orgLock, instance>> /\ RowFree(p)
    BY <1>5 DEF Transition, budgetVars, workflowVars, organizationVars
  <2>2. PICK w : /\ Rewrites(p, w) /\ w.status # "approval_pending"
                 /\ project[p].status # "approval_pending"
    BY <1>5, TransitionWrites
  <2>3. InstancesOK'
    BY <1>2, <2>1 DEF InstancesOK
  <2>4. QED
    BY <1>2, <2>1, <2>2, <2>3, ProjectStepKeeps DEF Rewrites
<1>6. ASSUME UNCHANGED <<plan, request, posted, tx, orgLock>>, RowFree(p), InstancesOK',
             NEW w, NEW s, Rewrites(p, w), Judged(p, s), w.status = AfterOutcome(s)
      PROVE  DocsOK'
  <2>1. w.status = "approval_pending" <=> instance'[p].status = "running"
    BY <1>6 DEF AfterOutcome, Judged
  <2>2. QED
    BY <1>6, <2>1, ProjectStepKeeps DEF Rewrites, Judged
<1>7. CASE SubmitProject(p)
  <2>1. UNCHANGED <<plan, request, posted, tx, orgLock>> /\ RowFree(p)
    BY <1>7 DEF SubmitProject, budgetVars, organizationVars
  <2>2. QED
    BY <1>6, <1>7, <2>1, SubmissionWrites
<1>8. ASSUME NEW outcome \in Outcome, DecideProject(p, outcome) PROVE DocsOK'
  <2>1. UNCHANGED <<plan, request, posted, tx, orgLock>> /\ RowFree(p)
    BY <1>8 DEF DecideProject, budgetVars, organizationVars
  <2>2. QED
    BY <1>6, <1>8, <2>1, DecisionWrites
<1>9. QED
  BY <1>1, <1>3, <1>4, <1>5, <1>7, <1>8

\* Approvals of documents of other types.
LEMMA DocumentStepDocs == ASSUME DocsOK, DocumentStep PROVE DocsOK'
<1>1. PICK d \in Plain :
        \/ \E u \in Unit : StartApproval(d, u)
        \/ ResumeApproval(d)
        \/ \E outcome \in Outcome : Decide(d, outcome)
  BY DEF DocumentStep
<1>2. UNCHANGED <<project, plan, request, posted, tx, orgLock>>
  BY DEF DocumentStep, documentVars, projectVars, budgetVars, organizationVars
<1>3. d \in Doc /\ d \notin Project /\ d \notin Request /\ InstancesOK
  BY DEF Plain, DocsOK, TablesOK
<1>4. InstancesOK' /\ \A e \in Doc \ {d} : instance'[e] = instance[e]
  <2>1. CASE \E u \in Unit : StartApproval(d, u)
    BY <1>3, <2>1, Started DEF Judged
  <2>2. CASE ResumeApproval(d)
    <3>1. instance' = [instance EXCEPT ![d].status = "running"] /\ "running" \in InstanceStatus
      BY <2>2 DEF ResumeApproval, InstanceStatus
    <3>2. QED
      BY <1>3, <3>1, StatusSet DEF Judged
  <2>3. CASE \E outcome \in Outcome : Decide(d, outcome)
    BY <1>3, <2>3, Decided DEF Judged
  <2>4. QED
    BY <1>1, <2>1, <2>2, <2>3
<1>5. \A e \in Project \cup Request : instance'[e] = instance[e]
  BY <1>3, <1>4, ProjectsAssumption
<1>6. DocumentsFollowApprovals'
  BY <1>2, <1>5 DEF DocsOK, DocumentsFollowApprovals
<1>7. TablesOK' /\ RequestsHeld' /\ PlansHeld'
  BY <1>2, <1>4 DEF DocsOK, TablesOK, ProjectsOK, PlansTyped, RequestsOK, TransactionsOK,
                    RequestsHeld, PlansHeld
<1>8. QED
  BY <1>6, <1>7 DEF DocsOK

LEMMA DocsInit == Init => DocsOK
<1> SUFFICES ASSUME Init PROVE DocsOK
  OBVIOUS
<1>1. /\ project = [p \in Project |-> NoProject] /\ plan = [p \in Project |-> EmptyPlan]
      /\ instance = [d \in Doc |-> NoInstance] /\ tx = [c \in Client |-> Idle]
      /\ request = [r \in Request |-> NoRequest] /\ posted = [r \in Request |-> 0]
  BY DEF Init
<1>2. ProjectsOK
  BY <1>1 DEF ProjectsOK, IsProject, NoProject, ProjectStatus
<1>3. InstancesOK
  BY <1>1 DEF InstancesOK, IsInstance, NoInstance, InstanceStatus
<1>4. PlansTyped
  BY <1>1 DEF PlansTyped
<1>5. NoRequest \in RequestRow
  BY DEF NoRequest, RequestRow, RequestStatus, RequestKind
<1>6. RequestsOK /\ TransactionsOK
  BY <1>1, <1>5, IdleTyped DEF RequestsOK, TransactionsOK
<1>7. DocumentsFollowApprovals
  <2>1. Project \subseteq Doc /\ Request \subseteq Doc
    BY ProjectsAssumption
  <2>2. QED
    BY <1>1, <2>1 DEF DocumentsFollowApprovals, NoProject, NoRequest, NoInstance
<1>8. RequestsHeld /\ PlansHeld
  BY <1>1, IdleTyped DEF RequestsHeld, PlansHeld, PlanOp
<1>9. QED
  BY <1>2, <1>3, <1>4, <1>6, <1>7, <1>8 DEF DocsOK, TablesOK

\* The steps that touch no document.
Elsewhere ==
    \/ StructureStep \/ CalendarStep \/ DefinitionStep
    \/ \E mode : \E s \in Scope : SetFundingMode(s, mode)

LEMMA ElsewhereIs == ASSUME Elsewhere PROVE UNCHANGED docVars
<1> USE DEF docVars, documentVars, projectVars, budgetVars
<1>1. CASE StructureStep
  <2>1. UNCHANGED <<documentVars, workflowVars>>
    BY <1>1 DEF StructureStep
  <2>2. UNCHANGED orgLock
    BY <1>1 DEF StructureStep, CreateUnit, UpdateUnit, AddFormat, WriteMaster, ChangeSetting
  <2>3. QED
    BY <2>1, <2>2 DEF workflowVars
<1>2. CASE CalendarStep
  <2>1. UNCHANGED <<documentVars, workflowVars>>
    BY <1>2 DEF CalendarStep
  <2>2. UNCHANGED orgLock
    BY <1>2 DEF CalendarStep, SetCalendar, EnsureYear, SeekPeriod, GeneratePeriods, ClosePeriod,
                ReopenPeriod
  <2>3. QED
    BY <2>1, <2>2 DEF workflowVars
<1>3. CASE DefinitionStep
  <2>1. UNCHANGED <<project, plan, request, posted, tx>>
    BY <1>3 DEF DefinitionStep
  <2>2. UNCHANGED organizationVars /\ UNCHANGED instance
    BY <1>3, Zenon DEF DefinitionStep, CreateDefinition, CreateVersion, UpdateVersion, Publish,
                       Retire, ChangeHolders
  <2>3. UNCHANGED orgLock
    BY <2>2 DEF organizationVars
  <2>4. QED
    BY <2>1, <2>2, <2>3
<1>4. ASSUME NEW s \in Scope, NEW mode, SetFundingMode(s, mode) PROVE UNCHANGED docVars
  BY <1>4 DEF SetFundingMode, ChangeSetting, workflowVars
<1>5. QED
  BY <1>1, <1>2, <1>3, <1>4 DEF Elsewhere

\* What a step is, by what it does to the documents.
LEMMA NextIs ==
    ASSUME [Next]_vars
    PROVE  \/ UNCHANGED vars \/ Elsewhere \/ ProjectStep \/ DocumentStep
           \/ \E c \in Client, op \in PlanOp, p \in Project : BeginPlan(c, op, p)
           \/ \E c \in Client :
                 \/ \E n \in 1..MaxRows, child \in Project \cup {Nowhere} : WritePhase(c, n, child)
                 \/ WriteMilestone(c) \/ WriteRisk(c)
           \/ \E c \in Client, r \in NextRequest, row \in Wanted : BeginRequest(c, r, row)
           \/ \E c \in Client : CommitRequest(c) \/ Rollback(c)
           \/ \E r \in Request, outcome \in Outcome : DecideRequest(r, outcome)
<1>1. PlanStep => \/ \E c \in Client, op \in PlanOp, p \in Project : BeginPlan(c, op, p)
                  \/ \E c \in Client :
                       \/ \E n \in 1..MaxRows, child \in Project \cup {Nowhere} :
                             WritePhase(c, n, child)
                       \/ WriteMilestone(c) \/ WriteRisk(c)
  BY Zenon DEF PlanStep, PlanOp
<1>2. BudgetStep =>
        \/ \E c \in Client, r \in NextRequest, row \in Wanted : BeginRequest(c, r, row)
        \/ \E c \in Client : CommitRequest(c)
        \/ \E r \in Request, outcome \in Outcome : DecideRequest(r, outcome)
        \/ \E mode : \E s \in Scope : SetFundingMode(s, mode)
  BY Zenon DEF BudgetStep
<1>3. QED
  BY <1>1, <1>2, Zenon DEF Next, Elsewhere

LEMMA DocsStep == DocsOK /\ [Next]_vars => DocsOK'
<1> SUFFICES ASSUME DocsOK, [Next]_vars PROVE DocsOK'
  OBVIOUS
<1>1. ASSUME UNCHANGED vars PROVE DocsOK'
  BY <1>1, DocsStay DEF vars, docVars, projectVars, budgetVars, workflowVars, organizationVars
<1>2. CASE Elsewhere
  BY <1>2, ElsewhereIs, DocsStay
<1>3. ASSUME NEW c \in Client,
             \/ \E n \in 1..MaxRows, child \in Project \cup {Nowhere} : WritePhase(c, n, child)
             \/ WriteMilestone(c) \/ WriteRisk(c)
      PROVE  DocsOK'
  <2>1. /\ PlanWritten /\ tx' = [tx EXCEPT ![c] = Idle]
        /\ UNCHANGED <<project, instance, request, posted, orgLock>>
    BY <1>3, PlanStepWrites
  <2>2. QED
    BY <2>1, EndKeeps DEF PlanWritten
<1>4. QED
  BY <1>1, <1>2, <1>3, NextIs, ProjectStepDocs, DocumentStepDocs, BeginPlanKeeps, BeginRequestKeeps,
     CommitKeeps, RollbackKeeps, DecideRequestKeeps, Zenon

-----------------------------------------------------------------------------
(* Units and funding modes *)

\* Every unit that exists has its parent among the units that exist.
UnitsOK ==
    /\ mix \in Mixes
    /\ unit \in [Unit -> [status : UnitStatus, parent : Unit \cup {Nowhere}]]
    /\ \A u \in Unit : Exists(u) /\ unit[u].parent # Nowhere => Exists(unit[u].parent)

IsWalk(A, parent, n, x) ==
    A = [k \in 1..n |->
           IF k = 1 THEN x ELSE IF A[k - 1] = Nowhere THEN Nowhere ELSE parent[A[k - 1]]]

\* Every non-empty set of naturals has a least element.
NatLess == {ss \in Nat \X Nat : ss[1] < ss[2]}

LEMMA LeastNat ==
    ASSUME NEW T \in SUBSET Nat, T # {}
    PROVE  \E x \in T : \A y \in T : x <= y
<1>1. IsWellFoundedOn(NatLess, Nat)
  BY NatLessThanWellFounded DEF OpToRel, NatLess
<1>2. PICK x \in T : \A y \in T : ~(<<y, x>> \in NatLess)
  BY <1>1, WFMin
<1>3. \A y \in T : ~(y < x)
  BY <1>2 DEF NatLess
<1>4. QED
  BY <1>3

LEMMA SetInduction ==
    ASSUME NEW S, 0 \in S, \A n \in Nat : n \in S => n + 1 \in S
    PROVE  Nat \subseteq S
<1> DEFINE T == Nat \ S
<1>1. SUFFICES ASSUME T # {} PROVE FALSE
  OBVIOUS
<1>2. PICK x \in T : \A y \in T : x <= y
  BY <1>1, LeastNat
<1>3. x - 1 \in Nat /\ x - 1 \in S
  BY <1>2
<1>4. QED
  BY <1>2, <1>3

\* The recursion of Ascent has a solution for every length.
LEMMA WalkExists ==
    ASSUME NEW parent, NEW n \in Nat, NEW x
    PROVE  \E A : IsWalk(A, parent, n, x)
<1> DEFINE S == {m \in Nat : \E A : IsWalk(A, parent, m, x)}
<1>1. 0 \in S
  <2> DEFINE A == [k \in 1..0 |-> x]
  <2>1. IsWalk(A, parent, 0, x)
    BY DEF IsWalk
  <2>2. QED
    BY <2>1
<1>2. ASSUME NEW m \in Nat, m \in S PROVE m + 1 \in S
  <2>1. PICK B : IsWalk(B, parent, m, x)
    BY <1>2
  <2> DEFINE last == IF m = 0 THEN x ELSE IF B[m] = Nowhere THEN Nowhere ELSE parent[B[m]]
             A == [k \in 1..(m + 1) |-> IF k = m + 1 THEN last ELSE B[k]]
  <2>2. \A k \in 1..m :
            B[k] = IF k = 1 THEN x ELSE IF B[k - 1] = Nowhere THEN Nowhere ELSE parent[B[k - 1]]
    BY <2>1 DEF IsWalk
  <2>3. ASSUME NEW k \in 1..(m + 1)
        PROVE  A[k] = IF k = 1 THEN x ELSE IF A[k - 1] = Nowhere THEN Nowhere ELSE parent[A[k - 1]]
    <3>1. CASE k = m + 1
      BY <3>1
    <3>2. CASE k # m + 1
      BY <2>2, <3>2
    <3>3. QED
      BY <3>1, <3>2
  <2>4. IsWalk(A, parent, m + 1, x)
    <3> HIDE DEF A
    <3>1. A = [k \in 1..(m + 1) |-> A[k]]
      BY DEF A
    <3>2. QED
      BY <2>3, <3>1 DEF IsWalk
  <2>5. QED
    BY <2>4
<1>3. n \in S
  BY <1>1, <1>2, SetInduction
<1>4. QED
  BY <1>3

\* Ascent lists the walk as far as it goes.
LEMMA AscentIsWalk ==
    ASSUME NEW parent, NEW n \in Nat, NEW x
    PROVE  \E A : /\ IsWalk(A, parent, n, x)
                  /\ Ascent(parent, n, x) = [k \in {j \in 1..n : A[j] # Nowhere} |-> A[k]]
<1> DEFINE A == CHOOSE A : A = [k \in 1..n |->
                    IF k = 1 THEN x ELSE IF A[k - 1] = Nowhere THEN Nowhere ELSE parent[A[k - 1]]]
<1>1. IsWalk(A, parent, n, x)
  BY WalkExists DEF IsWalk
<1>2. Ascent(parent, n, x) = [k \in {j \in 1..n : A[j] # Nowhere} |-> A[k]]
  BY DEF Ascent
<1>3. QED
  BY <1>1, <1>2

\* A walk stays in a set that holds the parents of its members.
Closed(S, parent) == Nowhere \notin S /\ \A y \in S : parent[y] \in S \cup {Nowhere}

LEMMA WalkStays ==
    ASSUME NEW parent, NEW n \in Nat, NEW S, Closed(S, parent), NEW x \in S, NEW A,
           IsWalk(A, parent, n, x)
    PROVE  \A k \in 1..n : A[k] \in S \cup {Nowhere}
<1> DEFINE T == {k \in Nat : k \in 1..n => A[k] \in S \cup {Nowhere}}
<1>1. \A k \in 1..n :
          A[k] = IF k = 1 THEN x ELSE IF A[k - 1] = Nowhere THEN Nowhere ELSE parent[A[k - 1]]
  BY DEF IsWalk
<1>2. 0 \in T
  OBVIOUS
<1>3. ASSUME NEW k \in Nat, k \in T PROVE k + 1 \in T
  <2>1. SUFFICES ASSUME k + 1 \in 1..n PROVE A[k + 1] \in S \cup {Nowhere}
    OBVIOUS
  <2>2. CASE k = 0
    BY <1>1, <2>1, <2>2
  <2>3. CASE k # 0
    <3>1. k \in 1..n /\ A[k] \in S \cup {Nowhere}
      BY <1>3, <2>1, <2>3
    <3>2. A[k + 1] = IF A[k] = Nowhere THEN Nowhere ELSE parent[A[k]]
      BY <1>1, <2>1, <2>3
    <3>3. QED
      BY <3>1, <3>2 DEF Closed
  <2>4. QED
    BY <2>2, <2>3
<1>4. Nat \subseteq T
  BY <1>2, <1>3, SetInduction
<1>5. QED
  BY <1>4

\* Two walks agree as long as the parents do.
LEMMA AscentAgrees ==
    ASSUME NEW parent, NEW other, NEW n \in Nat, NEW S, Closed(S, parent), NEW x \in S,
           \A y \in S : other[y] = parent[y]
    PROVE  Ascent(other, n, x) = Ascent(parent, n, x)
<1>1. PICK A : /\ IsWalk(A, parent, n, x)
               /\ Ascent(parent, n, x) = [k \in {j \in 1..n : A[j] # Nowhere} |-> A[k]]
  BY AscentIsWalk
<1>2. PICK B : /\ IsWalk(B, other, n, x)
               /\ Ascent(other, n, x) = [k \in {j \in 1..n : B[j] # Nowhere} |-> B[k]]
  BY AscentIsWalk
<1>3. \A k \in 1..n : A[k] \in S \cup {Nowhere}
  BY <1>1, WalkStays
<1>4. \A k \in 1..n :
          A[k] = IF k = 1 THEN x ELSE IF A[k - 1] = Nowhere THEN Nowhere ELSE parent[A[k - 1]]
  BY <1>1 DEF IsWalk
<1>5. \A k \in 1..n :
          B[k] = IF k = 1 THEN x ELSE IF B[k - 1] = Nowhere THEN Nowhere ELSE other[B[k - 1]]
  BY <1>2 DEF IsWalk
<1> DEFINE T == {k \in Nat : k \in 1..n => A[k] = B[k]}
<1>6. 0 \in T
  OBVIOUS
<1>7. ASSUME NEW k \in Nat, k \in T PROVE k + 1 \in T
  <2>1. SUFFICES ASSUME k + 1 \in 1..n PROVE A[k + 1] = B[k + 1]
    OBVIOUS
  <2>2. CASE k = 0
    BY <1>4, <1>5, <2>1, <2>2
  <2>3. CASE k # 0
    <3>1. k \in 1..n /\ A[k] = B[k] /\ A[k] \in S \cup {Nowhere}
      BY <1>3, <1>7, <2>1, <2>3
    <3>2. /\ A[k + 1] = IF A[k] = Nowhere THEN Nowhere ELSE parent[A[k]]
          /\ B[k + 1] = IF B[k] = Nowhere THEN Nowhere ELSE other[B[k]]
      BY <1>4, <1>5, <2>1, <2>3
    <3>3. QED
      BY <3>1, <3>2
  <2>4. QED
    BY <2>2, <2>3
<1>8. Nat \subseteq T
  BY <1>6, <1>7, SetInduction
<1>9. \A k \in 1..n : A[k] = B[k]
  BY <1>8
<1>10. A = B
  BY <1>1, <1>2, <1>9 DEF IsWalk
<1>11. QED
  BY <1>1, <1>2, <1>10

\* A walk that lists a node and its ancestors, each the parent of the one before, to the last of
\* them or as many as it may visit.
Climbs(s, x, n, S, parent) ==
    /\ s \in Seq(S) /\ Len(s) \in 1..n /\ s[1] = x
    /\ \A k \in 1..(Len(s) - 1) : s[k + 1] = parent[s[k]]
    /\ parent[s[Len(s)]] = Nowhere \/ Len(s) = n

LEMMA AscentRises ==
    ASSUME NEW parent, NEW n \in Nat, n # 0, NEW S, Closed(S, parent), NEW x \in S, NEW s,
           s = Ascent(parent, n, x)
    PROVE  Climbs(s, x, n, S, parent)
<1>1. PICK A : /\ IsWalk(A, parent, n, x)
               /\ Ascent(parent, n, x) = [k \in {j \in 1..n : A[j] # Nowhere} |-> A[k]]
  BY AscentIsWalk
<1>2. \A k \in 1..n : A[k] \in S \cup {Nowhere}
  BY <1>1, WalkStays
<1>3. \A k \in 1..n :
          A[k] = IF k = 1 THEN x ELSE IF A[k - 1] = Nowhere THEN Nowhere ELSE parent[A[k - 1]]
  BY <1>1 DEF IsWalk
<1> DEFINE T == {j \in 1..(n + 1) : j = n + 1 \/ A[j] = Nowhere}
<1>4. PICK m \in T : \A y \in T : m <= y
  <2>1. n + 1 \in T /\ T \in SUBSET Nat
    OBVIOUS
  <2>2. QED
    BY <2>1, LeastNat
<1>5. m \in 2..(n + 1)
  <2>1. A[1] = x /\ x # Nowhere
    BY <1>3 DEF Closed
  <2>2. QED
    BY <2>1
<1>6. \A k \in 1..n : k < m => A[k] # Nowhere
  BY <1>4
<1> DEFINE U == {k \in Nat : m + k \in 1..n => A[m + k] = Nowhere}
<1>7. Nat \subseteq U
  <2>1. 0 \in U
    BY <1>4, <1>5
  <2>2. ASSUME NEW k \in Nat, k \in U PROVE k + 1 \in U
    <3>1. SUFFICES ASSUME m + (k + 1) \in 1..n PROVE A[m + (k + 1)] = Nowhere
      OBVIOUS
    <3>2. PICK i \in Int : i = m + k
      BY <1>5
    <3>3. i \in 1..n /\ i + 1 \in 1..n /\ i + 1 # 1 /\ i + 1 = m + (k + 1) /\ (i + 1) - 1 = i
      BY <1>5, <3>1, <3>2
    <3>4. A[i] = Nowhere
      BY <2>2, <3>2, <3>3
    <3>5. A[i + 1] = IF A[i] = Nowhere THEN Nowhere ELSE parent[A[i]]
      BY <1>3, <3>3
    <3>6. QED
      BY <3>3, <3>4, <3>5
  <2>3. QED
    BY <2>1, <2>2, SetInduction
<1>8. \A k \in 1..n : k >= m => A[k] = Nowhere
  <2>1. ASSUME NEW k \in 1..n, k >= m PROVE A[k] = Nowhere
    <3>1. k - m \in Nat /\ m + (k - m) = k
      BY <1>5, <2>1
    <3>2. k - m \in U
      BY <1>7, <3>1
    <3>3. QED
      BY <3>1, <3>2
  <2>2. QED
    BY <2>1
<1>9. {j \in 1..n : A[j] # Nowhere} = 1..(m - 1)
  BY <1>5, <1>6, <1>8
<1>10. s = [k \in 1..(m - 1) |-> A[k]]
  BY <1>1, <1>9
<1>11. m - 1 \in 1..n /\ m - 1 \in Nat
  BY <1>5
<1>12. \A k \in 1..(m - 1) : A[k] \in S
  BY <1>2, <1>6, <1>11
<1>13. s \in Seq(S) /\ Len(s) = m - 1
  BY <1>10, <1>11, <1>12
<1>14. s[1] = x
  BY <1>3, <1>10, <1>11
<1>15. ASSUME NEW k \in 1..(Len(s) - 1) PROVE s[k + 1] = parent[s[k]]
  <2>1. k \in 1..(m - 1) /\ k + 1 \in 1..(m - 1) /\ k + 1 \in 1..n /\ k \in 1..n
    BY <1>11, <1>13
  <2>2. A[k] # Nowhere
    BY <1>12, <2>1 DEF Closed
  <2>3. A[k + 1] = parent[A[k]]
    BY <1>3, <2>1, <2>2
  <2>4. QED
    BY <1>10, <2>1, <2>3
<1>16. ASSUME Len(s) # n PROVE parent[s[Len(s)]] = Nowhere
  <2>1. m \in 1..n /\ m - 1 \in 1..n /\ m # 1 /\ A[m] = Nowhere
    BY <1>4, <1>5, <1>13, <1>16
  <2>2. A[m] = IF A[m - 1] = Nowhere THEN Nowhere ELSE parent[A[m - 1]]
    BY <1>3, <2>1
  <2>3. A[m - 1] # Nowhere /\ s[Len(s)] = A[m - 1]
    BY <1>6, <1>10, <1>11, <1>13, <2>1
  <2>4. QED
    BY <2>1, <2>2, <2>3
<1>17. QED
  BY <1>11, <1>13, <1>14, <1>15, <1>16 DEF Climbs

-----------------------------------------------------------------------------
(* What units and settings become *)

Keys == DOMAIN SettingDefault
SettingsOK == setting = [key \in Keys |-> [s \in Scope |-> setting[key][s]]]

\* The commands that write a unit or a setting.
WritesUnit ==
    \/ \E u \in Unit, parent \in Unit \cup {Nowhere} : CreateUnit(u, parent)
    \/ \E u \in Unit, active \in BOOLEAN : UpdateUnit(u, active)
WritesMode == \E mode : \E s \in Scope : SetFundingMode(s, mode)
WritesDepth == \E n \in 1..2 : ChangeSetting("max_depth", Org, n, TRUE)

LEMMA StructureIs ==
    ASSUME [Next]_vars
    PROVE  /\ UNCHANGED mix
           /\ \/ UNCHANGED <<unit, setting>>
              \/ UNCHANGED <<setting, orgLock, project, request, tx>> /\ WritesUnit
              \/ UNCHANGED <<unit, orgLock, project, request, tx>> /\ (WritesMode \/ WritesDepth)
<1>1. CASE StructureStep
  <2>1. UNCHANGED <<mix, project, request, tx>>
    BY <1>1 DEF StructureStep, documentVars, projectVars, budgetVars
  <2>2. ASSUME NEW s \in Scope, NEW prefix, AddFormat(s, prefix) PROVE UNCHANGED <<unit, setting>>
    BY <2>2 DEF AddFormat
  <2>3. ASSUME NEW c \in Code, NEW active, NEW effective, WriteMaster(c, active, effective)
        PROVE  UNCHANGED <<unit, setting>>
    BY <2>3 DEF WriteMaster
  <2>4. ASSUME WritesUnit PROVE UNCHANGED <<setting, orgLock>>
    BY <2>4 DEF WritesUnit, CreateUnit, UpdateUnit
  <2>5. ASSUME WritesDepth PROVE UNCHANGED <<unit, orgLock>>
    BY <2>5 DEF WritesDepth, ChangeSetting
  <2>6. \/ WritesUnit \/ WritesDepth
        \/ \E s \in Scope, prefix \in Prefix : AddFormat(s, prefix)
        \/ \E c \in Code, active, effective \in BOOLEAN : WriteMaster(c, active, effective)
    BY <1>1, Zenon DEF StructureStep, WritesUnit, WritesDepth
  <2>7. QED
    BY <2>1, <2>2, <2>3, <2>4, <2>5, <2>6
<1>2. CASE CalendarStep
  <2>1. UNCHANGED mix
    BY <1>2 DEF CalendarStep, documentVars
  <2>2. UNCHANGED structureVars
    BY <1>2, Zenon DEF CalendarStep, SetCalendar, EnsureYear, SeekPeriod, GeneratePeriods,
                       ClosePeriod, ReopenPeriod
  <2>3. QED
    BY <2>1, <2>2 DEF structureVars
<1>3. CASE DefinitionStep
  <2>1. UNCHANGED mix
    BY <1>3, Zenon DEF DefinitionStep, documentVars
  <2>2. UNCHANGED organizationVars
    BY <1>3, Zenon DEF DefinitionStep, CreateDefinition, CreateVersion, UpdateVersion, Publish,
                       Retire, ChangeHolders
  <2>3. QED
    BY <2>1, <2>2 DEF organizationVars, structureVars
<1>4. ASSUME DocumentStep \/ UNCHANGED vars PROVE UNCHANGED <<mix, unit, setting>>
  <2>1. UNCHANGED mix /\ UNCHANGED organizationVars
    BY <1>4, Zenon DEF DocumentStep, vars, documentVars
  <2>2. QED
    BY <2>1 DEF organizationVars, structureVars
<1>5. CASE ProjectStep
  <2>1. PICK p \in Project :
              \/ \E code : \E parent \in Project \cup {Nowhere}, u \in Unit :
                    p \in NextProject /\ CreateProject(p, parent, u, code)
              \/ \E ref, code : UpdateProject(p, ref) \/ SubstituteCode(p, code)
              \/ \E to : Transition(p, to)
              \/ SubmitProject(p)
              \/ \E outcome \in Outcome : DecideProject(p, outcome)
    BY <1>5, ProjectStepIs
  <2> USE DEF organizationVars, structureVars
  <2>2. ASSUME NEW parent, NEW u, NEW code, CreateProject(p, parent, u, code)
        PROVE  UNCHANGED <<mix, unit, setting>>
    BY <2>2 DEF CreateProject
  <2>3. ASSUME NEW ref, NEW code, UpdateProject(p, ref) \/ SubstituteCode(p, code)
        PROVE  UNCHANGED <<mix, unit, setting>>
    BY <2>3 DEF UpdateProject, SubstituteCode
  <2>4. ASSUME NEW to, Transition(p, to) PROVE UNCHANGED <<mix, unit, setting>>
    BY <2>4 DEF Transition
  <2>5. ASSUME SubmitProject(p) PROVE UNCHANGED <<mix, unit, setting>>
    BY <2>5, Zenon DEF SubmitProject
  <2>6. ASSUME NEW outcome, DecideProject(p, outcome) PROVE UNCHANGED <<mix, unit, setting>>
    BY <2>6, Zenon DEF DecideProject
  <2>7. QED
    BY <2>1, <2>2, <2>3, <2>4, <2>5, <2>6
<1>6. ASSUME NEW c \in Client,
             \/ \E op \in PlanOp, p \in Project : BeginPlan(c, op, p)
             \/ \E n \in 1..MaxRows, child \in Project \cup {Nowhere} : WritePhase(c, n, child)
             \/ WriteMilestone(c) \/ WriteRisk(c)
      PROVE  UNCHANGED <<mix, unit, setting>>
  BY <1>6, Zenon DEF BeginPlan, WritePhase, WriteMilestone, WriteRisk, organizationVars,
                     structureVars
<1>7. ASSUME NEW c \in Client, NEW r, NEW row, BeginRequest(c, r, row)
      PROVE  UNCHANGED <<mix, unit, setting>>
  BY <1>7 DEF BeginRequest, structureVars
<1>8. ASSUME NEW c \in Client, CommitRequest(c) \/ Rollback(c)
      PROVE  UNCHANGED <<mix, unit, setting>>
  BY <1>8 DEF CommitRequest, Rollback, structureVars
<1>9. ASSUME NEW r \in Request, NEW outcome, DecideRequest(r, outcome)
      PROVE  UNCHANGED <<mix, unit, setting>>
  BY <1>9 DEF DecideRequest, organizationVars, structureVars
<1>10. ASSUME NEW mode, NEW s \in Scope, SetFundingMode(s, mode)
       PROVE  UNCHANGED <<mix, unit, orgLock, project, request, tx>> /\ WritesMode
  BY <1>10 DEF SetFundingMode, WritesMode, ChangeSetting, projectVars, budgetVars
<1>11. QED
  BY <1>1, <1>2, <1>3, <1>4, <1>5, <1>6, <1>7, <1>8, <1>9, <1>10, NextIs DEF Elsewhere

LEMMA UnitRow == ASSUME UnitsOK, NEW u \in Unit
                 PROVE  /\ unit[u].status \in UnitStatus /\ unit[u].parent \in Unit \cup {Nowhere}
                        /\ Above[u] = unit[u].parent
  BY DEF UnitsOK, Above

\* A unit that exists keeps its parent and goes on existing.
LEMMA UnitsStay ==
    ASSUME UnitsOK, UNCHANGED mix, UNCHANGED unit \/ WritesUnit
    PROVE  /\ UnitsOK'
           /\ \A u \in Unit : Exists(u) => Exists(u)' /\ unit'[u].parent = unit[u].parent
<1>1. CASE UNCHANGED unit
  BY <1>1 DEF UnitsOK, Exists
<1>2. ASSUME NEW u \in Unit, NEW parent \in Unit \cup {Nowhere}, CreateUnit(u, parent)
      PROVE  /\ UnitsOK'
             /\ \A v \in Unit : Exists(v) => Exists(v)' /\ unit'[v].parent = unit[v].parent
  <2>1. PICK row : row = [status |-> "active", parent |-> parent]
    OBVIOUS
  <2>2. unit' = [unit EXCEPT ![u] = row] /\ ~Exists(u) /\ (parent # Nowhere => Exists(parent))
    BY <1>2, <2>1 DEF CreateUnit
  <2>3. row \in [status : UnitStatus, parent : Unit \cup {Nowhere}] /\ row.status = "active"
        /\ row.parent = parent
    BY <2>1 DEF UnitStatus
  <2>4. unit' \in [Unit -> [status : UnitStatus, parent : Unit \cup {Nowhere}]]
    BY <2>2, <2>3 DEF UnitsOK
  <2>5. unit'[u] = row /\ \A v \in Unit \ {u} : unit'[v] = unit[v]
    BY <2>2 DEF UnitsOK
  <2>6. \A v \in Unit : Exists(v) => Exists(v)' /\ unit'[v].parent = unit[v].parent
    BY <2>2, <2>5 DEF Exists
  <2>7. \A v \in Unit : unit'[v].status # "none" /\ unit'[v].parent # Nowhere =>
            unit'[unit'[v].parent].status # "none"
    BY <2>2, <2>3, <2>5, <2>6 DEF UnitsOK, Exists
  <2>8. QED
    BY <2>4, <2>6, <2>7 DEF UnitsOK, Exists
<1>3. ASSUME NEW u \in Unit, NEW active \in BOOLEAN, UpdateUnit(u, active)
      PROVE  /\ UnitsOK'
             /\ \A v \in Unit : Exists(v) => Exists(v)' /\ unit'[v].parent = unit[v].parent
  <2>1. PICK s \in {"active", "inactive"} : unit' = [unit EXCEPT ![u].status = s]
    BY <1>3 DEF UpdateUnit
  <2>2. Exists(u) /\ s \in UnitStatus
    BY <1>3, <2>1 DEF UpdateUnit, UnitStatus
  <2>3. unit' \in [Unit -> [status : UnitStatus, parent : Unit \cup {Nowhere}]]
    BY <2>1, <2>2 DEF UnitsOK
  <2>4. /\ unit'[u].status = s /\ unit'[u].parent = unit[u].parent
        /\ \A v \in Unit \ {u} : unit'[v] = unit[v]
    BY <2>1 DEF UnitsOK
  <2>5. \A v \in Unit : unit'[v].parent = unit[v].parent
                        /\ (unit'[v].status # "none" <=> unit[v].status # "none")
    BY <2>2, <2>4 DEF Exists
  <2>6. QED
    BY <2>3, <2>5 DEF UnitsOK, Exists
<1>4. QED
  BY <1>1, <1>2, <1>3 DEF WritesUnit

\* The chain of a unit that exists: units, and the same after a step.
LEMMA ChainIs ==
    ASSUME UnitsOK, NEW u \in Unit, Exists(u)
    PROVE  /\ Chain(u) \in Seq({v \in Unit : Exists(v)}) /\ Len(Chain(u)) \in Nat
           /\ \A k \in 1..Len(Chain(u)) : Chain(u)[k] \in Unit
<1>1. PICK par : par = Above
  OBVIOUS
<1>2. PICK S : S = {v \in Unit : Exists(v)}
  OBVIOUS
<1>3. Closed(S, par) /\ u \in S
  BY <1>1, <1>2, OrganizationAssumption DEF UnitsOK, Above, Closed
<1>4. PICK n \in Nat : n = Cardinality(Unit) /\ n # 0
  BY OrganizationAssumption, FS_CardinalityType, FS_EmptySet
<1>5. PICK s : s = Ascent(par, n, u)
  OBVIOUS
<1>6. s \in Seq(S) /\ Len(s) \in 1..n
  <2>1. Climbs(s, u, n, S, par)
    BY <1>3, <1>4, <1>5, AscentRises, Zenon
  <2>2. QED
    BY <2>1 DEF Climbs
<1>7. s = Chain(u)
  BY <1>1, <1>4, <1>5 DEF Chain
<1>8. \A k \in 1..Len(s) : s[k] \in S
  BY <1>6
<1>9. QED
  BY <1>2, <1>6, <1>7, <1>8

LEMMA ChainStays ==
    ASSUME UnitsOK, UNCHANGED mix, UNCHANGED unit \/ WritesUnit, NEW u \in Unit, Exists(u)
    PROVE  Chain(u)' = Chain(u)
<1>1. PICK par : par = Above
  OBVIOUS
<1>2. PICK oth : oth = Above'
  OBVIOUS
<1>3. PICK S : S = {v \in Unit : Exists(v)}
  OBVIOUS
<1>4. Closed(S, par) /\ u \in S
  BY <1>1, <1>3, OrganizationAssumption DEF UnitsOK, Above, Closed
<1>5. \A v \in S : oth[v] = par[v]
  BY <1>1, <1>2, <1>3, UnitsStay DEF Above
<1>6. PICK n \in Nat : n = Cardinality(Unit)
  BY OrganizationAssumption, FS_CardinalityType
<1>7. Ascent(oth, n, u) = Ascent(par, n, u)
  BY <1>4, <1>5, AscentAgrees
<1>8. QED
  BY <1>1, <1>2, <1>6, <1>7 DEF Chain

-----------------------------------------------------------------------------
(* Funding modes *)

\* One entry of a setting is written.
LEMMA SettingWritten ==
    ASSUME SettingsOK, NEW key \in Keys, NEW scope \in Scope, NEW value,
           setting' = [setting EXCEPT ![key][scope] = value]
    PROVE  /\ SettingsOK' /\ setting'[key][scope] = value
           /\ \A k \in Keys, s \in Scope : k # key \/ s # scope => setting'[k][s] = setting[k][s]
<1>1. PICK row : row = [setting[key] EXCEPT ![scope] = value]
  OBVIOUS
<1>2. setting' = [setting EXCEPT ![key] = row]
  BY <1>1
<1>3. setting[key] = [s \in Scope |-> setting[key][s]]
  BY DEF SettingsOK
<1>4. row = [s \in Scope |-> IF s = scope THEN value ELSE setting[key][s]]
  BY <1>1, <1>3
<1>5. setting' = [k \in Keys |-> IF k = key THEN row ELSE setting[k]]
  BY <1>2 DEF SettingsOK
<1>6. \A k \in Keys : setting'[k] = [s \in Scope |-> setting'[k][s]]
  BY <1>4, <1>5 DEF SettingsOK
<1>7. setting' = [k \in Keys |-> setting'[k]]
  BY <1>5
<1>8. SettingsOK'
  BY <1>6, <1>7 DEF SettingsOK
<1>9. QED
  BY <1>4, <1>5, <1>8

LEMMA ModeKey == "funding_mode" \in Keys /\ "max_depth" \in Keys
  BY DEF Keys, SettingDefault

\* Only the chain of a unit and the organization decide what is in force for it.
LEMMA EffectiveStays ==
    ASSUME UnitsOK, NEW u \in Unit, Exists(u), Chain(u)' = Chain(u),
           \A k \in 1..Len(Chain(u)) :
              setting'["funding_mode"][Chain(u)[k]] = setting["funding_mode"][Chain(u)[k]],
           setting'["funding_mode"][Org] = setting["funding_mode"][Org]
    PROVE  Effective(u, "funding_mode")' = Effective(u, "funding_mode")
<1>1. PICK c : c = Chain(u)
  OBVIOUS
<1>2. Len(c) \in Nat /\ c = Chain(u)'
  BY <1>1, ChainIs
<1> DEFINE old == {k \in 1..Len(c) : setting["funding_mode"][c[k]] # Unset}
           new == {k \in 1..Len(c) : setting'["funding_mode"][c[k]] # Unset}
           first == CHOOSE k \in old : \A j \in old : k <= j
           then == CHOOSE k \in new : \A j \in new : k <= j
<1>3. new = old
  BY <1>1
<1>4. old # {} => first \in old
  <2>1. old \in SUBSET Nat
    BY <1>2
  <2>2. old # {} => \E k \in old : \A j \in old : k <= j
    BY <2>1, LeastNat
  <2>3. QED
    BY <2>2
<1>5. Effective(u, "funding_mode") =
         IF old # {} THEN setting["funding_mode"][c[first]]
         ELSE IF setting["funding_mode"][Org] # Unset THEN setting["funding_mode"][Org]
         ELSE SettingDefault["funding_mode"]
  BY <1>1 DEF Effective
<1>6. Effective(u, "funding_mode")' =
         IF new # {} THEN setting'["funding_mode"][c[then]]
         ELSE IF setting'["funding_mode"][Org] # Unset THEN setting'["funding_mode"][Org]
         ELSE SettingDefault["funding_mode"]
  <2> DEFINE N == {k \in 1..Len(Chain(u)') : setting'["funding_mode"][Chain(u)'[k]] # Unset}
  <2>1. Effective(u, "funding_mode")' =
         IF N # {} THEN setting'["funding_mode"][Chain(u)'[CHOOSE k \in N : \A j \in N : k <= j]]
         ELSE IF setting'["funding_mode"][Org] # Unset THEN setting'["funding_mode"][Org]
         ELSE SettingDefault["funding_mode"]
    BY Zenon DEF Effective
  <2>2. N = new
    BY <1>2
  <2> HIDE DEF N, new
  <2>3. QED
    BY <1>2, <2>1, <2>2
<1>7. then = first
  <2> HIDE DEF old, new
  <2>1. QED
    BY <1>3, Zenon
<1>8. old # {} => setting'["funding_mode"][c[first]] = setting["funding_mode"][c[first]]
  <2>1. old \subseteq 1..Len(c)
    OBVIOUS
  <2> HIDE DEF old, first
  <2>2. QED
    BY <1>1, <1>4, <2>1
<1> HIDE DEF old, new, first, then
<1>9. CASE old = {}
  BY <1>3, <1>5, <1>6, <1>9
<1>10. CASE old # {}
  BY <1>3, <1>5, <1>6, <1>7, <1>8, <1>10
<1>11. QED
  BY <1>9, <1>10

\* The mode of a unit that exists changes only with the settings.
LEMMA ModeStays ==
    ASSUME UnitsOK, UNCHANGED mix, UNCHANGED unit \/ WritesUnit, NEW u \in Unit, Exists(u),
           \/ UNCHANGED setting
           \/ SettingsOK /\ WritesDepth
           \/ \E mode : \E scope \in Scope :
                 SettingsOK /\ SetFundingMode(scope, mode) /\ u \notin Subtree(scope)
    PROVE  Effective(u, "funding_mode")' = Effective(u, "funding_mode")
<1>1. Chain(u)' = Chain(u)
  BY ChainStays
<1>2. \A k \in 1..Len(Chain(u)) : Chain(u)[k] \in Unit
  BY ChainIs
<1>3. CASE UNCHANGED setting
  BY <1>1, <1>3, EffectiveStays
<1>4. CASE SettingsOK /\ WritesDepth
  <2>1. PICK n : setting' = [setting EXCEPT !["max_depth"][Org] = n]
    BY <1>4 DEF WritesDepth, ChangeSetting
  <2>2. \A s \in Scope : setting'["funding_mode"][s] = setting["funding_mode"][s]
    BY <1>4, <2>1, ModeKey, SettingWritten DEF Scope
  <2>3. QED
    BY <1>1, <1>2, <2>2, EffectiveStays DEF Scope
<1>5. ASSUME NEW scope \in Scope, NEW mode, SettingsOK, SetFundingMode(scope, mode),
             u \notin Subtree(scope)
      PROVE  Effective(u, "funding_mode")' = Effective(u, "funding_mode")
  <2>1. setting' = [setting EXCEPT !["funding_mode"][scope] = mode]
    BY <1>5 DEF SetFundingMode, ChangeSetting
  <2>2. \A s \in Scope : s # scope => setting'["funding_mode"][s] = setting["funding_mode"][s]
    BY <1>5, <2>1, ModeKey, SettingWritten
  <2>3. scope # Org
    BY <1>5 DEF Subtree
  <2>4. \A k \in 1..Len(Chain(u)) : Chain(u)[k] # scope
    BY <1>5, <2>3 DEF Subtree
  <2>5. QED
    BY <1>1, <1>2, <2>2, <2>3, <2>4, EffectiveStays DEF Scope
<1>6. QED
  BY <1>3, <1>4, <1>5

-----------------------------------------------------------------------------
(* Trees of projects *)

\* A project is the root of its tree, or one level below its parent in the parent's tree.
InTree(p) ==
    /\ project[p].bu \in Unit /\ Exists(project[p].bu)
    /\ project[p].depth \in 1..ProjectLevels
    /\ project[p].root \in Project /\ Created(project[p].root)
    /\ \/ project[p].depth = 1 /\ project[p].parent = Nowhere /\ project[p].root = p
       \/ /\ project[p].parent \in Project /\ Created(project[p].parent)
          /\ project[p].depth = project[project[p].parent].depth + 1
          /\ project[p].root = project[project[p].parent].root

TreesOK == \A p \in Project : Created(p) => InTree(p)

\* A created project keeps its place.
PlacesKept ==
    \A p \in Project : Created(p) => Created(p)' /\ SamePlace(project[p], project'[p])

\* What a step does to the projects: nothing, an edit in place, or a creation.
Creates(p) ==
    /\ ~Created(p) /\ UNCHANGED <<unit, setting, request, tx>>
    /\ \E parent \in Project \cup {Nowhere}, u \in Unit :
          /\ Exists(u)
          /\ parent # Nowhere => Created(parent) /\ project[parent].depth < ProjectLevels
          /\ \E w : ProjectWritten(p, w) /\ NewDraft(p, parent, u, w)

LEMMA ProjectsMove ==
    ASSUME DocsOK, [Next]_vars
    PROVE  /\ PlacesKept
           /\ UNCHANGED project \/ \E p \in Project : Creates(p) \/ \E w : Rewrites(p, w)
<1>1. ASSUME UNCHANGED project PROVE PlacesKept
  BY <1>1 DEF PlacesKept, Created, SamePlace
<1>2. ASSUME NEW p \in Project, NEW w, Rewrites(p, w) PROVE PlacesKept
  BY <1>2 DEF PlacesKept, Created, SamePlace, Rewrites, ProjectWritten
<1>3. ASSUME NEW p \in Project, NEW w, ProjectWritten(p, w), w.status # "none", ~Created(p)
      PROVE  PlacesKept
  BY <1>3 DEF PlacesKept, Created, SamePlace, ProjectWritten
<1>4. CASE ProjectStep
  <2>1. PICK p \in Project :
              \/ \E code : \E parent \in Project \cup {Nowhere}, u \in Unit :
                    p \in NextProject /\ CreateProject(p, parent, u, code)
              \/ \E ref, code : UpdateProject(p, ref) \/ SubstituteCode(p, code)
              \/ \E to : Transition(p, to)
              \/ SubmitProject(p)
              \/ \E outcome \in Outcome : DecideProject(p, outcome)
    BY <1>4, ProjectStepIs
  <2>2. ASSUME NEW code, NEW parent \in Project \cup {Nowhere}, NEW u \in Unit,
               CreateProject(p, parent, u, code)
        PROVE  PlacesKept /\ (UNCHANGED project \/ Creates(p))
    <3>1. /\ ~Created(p) /\ UNCHANGED <<unit, setting, request, tx>> /\ Exists(u)
          /\ parent # Nowhere => Created(parent) /\ project[parent].depth < ProjectLevels
      BY <2>2 DEF CreateProject, Creatable, budgetVars
    <3>2. ASSUME NEW w, ProjectsOK', ProjectWritten(p, w), NewDraft(p, parent, u, w)
          PROVE  PlacesKept /\ Creates(p)
      <4>1. PlacesKept
        BY <1>3, <3>1, <3>2 DEF NewDraft
      <4>2. QED
        BY <3>1, <3>2, <4>1, Zenon DEF Creates
    <3>3. QED
      BY <1>1, <2>2, <3>2, CreationWrites
  <2>3. ASSUME NEW ref, NEW code, UpdateProject(p, ref) \/ SubstituteCode(p, code)
        PROVE  \E w : Rewrites(p, w)
    BY <2>3, EditWrites
  <2>4. ASSUME NEW to, Transition(p, to) PROVE \E w : Rewrites(p, w)
    BY <2>4, TransitionWrites
  <2>5. ASSUME SubmitProject(p) PROVE \E w : Rewrites(p, w)
    BY <2>5, SubmissionWrites
  <2>6. ASSUME NEW outcome \in Outcome, DecideProject(p, outcome) PROVE \E w : Rewrites(p, w)
    BY <2>6, DecisionWrites
  <2>7. QED
    BY <1>2, <2>1, <2>2, <2>3, <2>4, <2>5, <2>6
<1>5. CASE DocumentStep \/ UNCHANGED vars
  BY <1>1, <1>5 DEF DocumentStep, documentVars, projectVars, vars
<1>6. CASE Elsewhere
  BY <1>1, <1>6, ElsewhereIs DEF docVars
<1>7. ASSUME NEW c \in Client,
             \/ \E op \in PlanOp, p \in Project : BeginPlan(c, op, p)
             \/ \E n \in 1..MaxRows, child \in Project \cup {Nowhere} : WritePhase(c, n, child)
             \/ WriteMilestone(c) \/ WriteRisk(c)
      PROVE  UNCHANGED project
  BY <1>7, Zenon DEF BeginPlan, WritePhase, WriteMilestone, WriteRisk, projectVars
<1>8. ASSUME NEW c \in Client,
             \/ \E r \in NextRequest, row \in Wanted : BeginRequest(c, r, row)
             \/ CommitRequest(c) \/ Rollback(c)
      PROVE  UNCHANGED project
  BY <1>8, Zenon DEF BeginRequest, CommitRequest, Rollback, projectVars
<1>9. ASSUME NEW r \in Request, NEW outcome, DecideRequest(r, outcome) PROVE UNCHANGED project
  BY <1>9 DEF DecideRequest, projectVars
<1>10. QED
  BY <1>1, <1>4, <1>5, <1>6, <1>7, <1>8, <1>9, NextIs

LEMMA TreesStep ==
    ASSUME DocsOK, UnitsOK, TreesOK, [Next]_vars
    PROVE  TreesOK'
<1>1. PlacesKept /\ (UNCHANGED project \/ \E p \in Project : Creates(p) \/ \E w : Rewrites(p, w))
  BY ProjectsMove
<1>2. \A u \in Unit : Exists(u) => Exists(u)'
  BY StructureIs, UnitsStay
<1>3. ASSUME NEW p \in Project, Created(p) PROVE InTree(p)'
  <2>1. InTree(p) /\ Created(p)' /\ SamePlace(project[p], project'[p])
    BY <1>1, <1>3 DEF TreesOK, PlacesKept
  <2>2. project[p].root \in Project /\ Created(project[p].root)
    BY <2>1 DEF InTree
  <2>3. Created(project[p].root)'
    BY <1>1, <2>1, <2>2 DEF PlacesKept, Created, SamePlace
  <2>4. \/ project[p].depth = 1 /\ project[p].parent = Nowhere /\ project[p].root = p
        \/ /\ project[p].parent \in Project /\ project'[project[p].parent].status # "none"
           /\ project[p].depth = project'[project[p].parent].depth + 1
           /\ project[p].root = project'[project[p].parent].root
    BY <1>1, <2>1 DEF InTree, PlacesKept, SamePlace, Created
  <2>5. QED
    BY <1>2, <2>1, <2>2, <2>3, <2>4 DEF InTree, SamePlace, Created
<1>4. CASE UNCHANGED project
  BY <1>3, <1>4 DEF TreesOK, Created
<1>5. ASSUME NEW p \in Project, NEW w, Rewrites(p, w) PROVE TreesOK'
  BY <1>3, <1>5 DEF TreesOK, Created, Rewrites, ProjectWritten
<1>6. ASSUME NEW p \in Project, Creates(p) PROVE TreesOK'
  <2>1. PICK parent \in Project \cup {Nowhere}, u \in Unit :
          /\ Exists(u)
          /\ parent # Nowhere => Created(parent) /\ project[parent].depth < ProjectLevels
          /\ \E w : ProjectWritten(p, w) /\ NewDraft(p, parent, u, w)
    BY <1>6 DEF Creates
  <2>2. PICK w : ProjectWritten(p, w) /\ NewDraft(p, parent, u, w)
    BY <2>1
  <2>3. project'[p] = w /\ w.bu = u /\ Exists(u)' /\ w.status = "draft"
    BY <1>2, <2>1, <2>2 DEF ProjectWritten, NewDraft
  <2>4. CASE parent = Nowhere
    <3>1. w.parent = Nowhere /\ w.depth = 1 /\ w.root = p
      BY <2>2, <2>4 DEF NewDraft
    <3>2. 1 \in 1..ProjectLevels
      BY ProjectsAssumption
    <3>3. InTree(p)'
      BY <2>3, <3>1, <3>2 DEF InTree, Created
    <3>4. QED
      BY <1>3, <2>2, <3>3 DEF TreesOK, ProjectWritten, Created
  <2>5. CASE parent # Nowhere
    <3>1. /\ parent \in Project /\ Created(parent) /\ InTree(parent) /\ parent # p
          /\ w.parent = parent /\ w.depth = project[parent].depth + 1
          /\ w.root = project[parent].root /\ project[parent].depth < ProjectLevels
      BY <1>6, <2>1, <2>2, <2>5 DEF NewDraft, TreesOK, Creates
    <3>2. project'[parent] = project[parent]
      BY <2>2, <3>1 DEF ProjectWritten
    <3>3. w.depth \in 1..ProjectLevels
      BY <3>1, ProjectsAssumption DEF InTree
    <3>4. w.root \in Project /\ project'[w.root].status # "none"
      BY <1>1, <3>1 DEF InTree, PlacesKept, Created
    <3>5. InTree(p)'
      BY <2>3, <3>1, <3>2, <3>3, <3>4 DEF InTree, Created
    <3>6. QED
      BY <1>3, <2>2, <3>5 DEF TreesOK, ProjectWritten, Created
  <2>6. QED
    BY <2>4, <2>5
<1>7. QED
  BY <1>1, <1>4, <1>5, <1>6

-----------------------------------------------------------------------------
(* Pending plans *)

\* The row of a request: about a project that exists, drawing on the parent of now.
Standing(v) == v.project \in Project /\ Created(v.project)
Drawing(v) == v.kind = "allocation" => v.from = PlannedParent(v.project)

RequestsPlanned ==
    /\ \A r \in Request : request[r].status # "none" => Standing(request[r])
    /\ \A c \in Client : tx[c].op = "request" => Standing(tx[c].row) /\ Drawing(tx[c].row)

\* The unit whose mode a project follows.
ModeUnit(p) == project[project[p].root].bu

LEMMA PlannedStays ==
    ASSUME DocsOK, UnitsOK, TreesOK, [Next]_vars, NEW p \in Project, Created(p),
           \/ UNCHANGED setting
           \/ SettingsOK /\ WritesDepth
           \/ \E mode : \E scope \in Scope :
                 SettingsOK /\ SetFundingMode(scope, mode) /\ ModeUnit(p) \notin Subtree(scope)
    PROVE  PlannedParent(p)' = PlannedParent(p)
<1>1. InTree(p) /\ project[p].root \in Project /\ Created(project[p].root)
  BY DEF TreesOK, InTree
<1>2. InTree(project[p].root)
  BY <1>1 DEF TreesOK
<1>3. PICK u \in Unit : u = ModeUnit(p) /\ Exists(u)
  BY <1>2 DEF InTree, ModeUnit
<1>4. PlacesKept
  BY ProjectsMove
<1>5. /\ SamePlace(project[p], project'[p])
      /\ SamePlace(project[project[p].root], project'[project[p].root])
  BY <1>1, <1>4 DEF PlacesKept
<1>6. ModeUnit(p)' = u
  BY <1>3, <1>5 DEF ModeUnit, SamePlace
<1>7. UNCHANGED mix /\ (UNCHANGED unit \/ WritesUnit)
  BY StructureIs
<1>8. Effective(u, "funding_mode")' = Effective(u, "funding_mode")
  BY <1>3, <1>7, ModeStays
<1>9. ModeFor(p) = Effective(u, "funding_mode")
  BY <1>3 DEF ModeFor, ModeUnit
<1>10. ModeFor(p)' = Effective(u, "funding_mode")'
  BY <1>6 DEF ModeFor, ModeUnit
<1>11. QED
  BY <1>5, <1>8, <1>9, <1>10 DEF PlannedParent, SamePlace

\* While a request is under way nobody changes a mode; afterwards its project guards it.
LEMMA PlansKeep ==
    ASSUME DocsOK, UnitsOK, TreesOK, SettingsOK, RequestsPlanned, [Next]_vars, NEW p \in Project,
           Created(p),
           \/ \E c \in Client : orgLock = c
           \/ \E r \in Request : /\ request[r].status = "pending" /\ request[r].kind = "allocation"
                                 /\ request[r].project = p
    PROVE  PlannedParent(p)' = PlannedParent(p)
<1>1. \/ UNCHANGED setting \/ WritesMode \/ WritesDepth
  BY StructureIs
<1>2. ASSUME NEW mode, NEW scope \in Scope, SetFundingMode(scope, mode), ~UNCHANGED setting
      PROVE  ModeUnit(p) \notin Subtree(scope)
  <2>1. orgLock = Nowhere /\ setting' = [setting EXCEPT !["funding_mode"][scope] = mode]
        /\ (setting["funding_mode"][scope] # mode => FundingModeGuard(scope))
    BY <1>2 DEF SetFundingMode, ChangeSetting, Unlocked
  <2>2. setting["funding_mode"][scope] # mode
    <3>1. SUFFICES ASSUME setting["funding_mode"][scope] = mode PROVE setting' = setting
      BY <1>2
    <3>2. /\ SettingsOK' /\ setting'["funding_mode"][scope] = mode
          /\ \A k \in Keys, s \in Scope :
                k # "funding_mode" \/ s # scope => setting'[k][s] = setting[k][s]
      BY <2>1, ModeKey, SettingWritten
    <3>3. SettingsOK' /\ \A k \in Keys, s \in Scope : setting'[k][s] = setting[k][s]
      BY <3>1, <3>2
    <3>4. \A k \in Keys : [s \in Scope |-> setting'[k][s]] = [s \in Scope |-> setting[k][s]]
      BY <3>3
    <3>5. QED
      BY <3>3, <3>4, Zenon DEF SettingsOK
  <2>3. PICK r \in Request : /\ request[r].status = "pending" /\ request[r].kind = "allocation"
                             /\ request[r].project = p
    BY <2>1, OrganizationAssumption
  <2>4. {project[p].bu, project[project[p].root].bu} \cap Subtree(scope) = {}
    BY <2>1, <2>2, <2>3 DEF FundingModeGuard
  <2>5. QED
    BY <2>4 DEF ModeUnit
<1>3. QED
  BY <1>1, <1>2, PlannedStays DEF WritesMode

\* What a step does to a request and to the transactions under way.
RequestMoves ==
    \/ UNCHANGED request
    \/ \E s : \E r \in Request, row \in RequestRow :
          /\ RequestWritten(r, row, s)
          /\ \/ row = request[r] /\ row.status = "pending"
             \/ \E c \in Client : tx[c].op = "request" /\ row = tx[c].row
TxMoves ==
    \A c \in Client : tx'[c].op = "request" =>
        \/ tx'[c] = tx[c]
        \/ /\ UNCHANGED <<project, unit, setting>>
           /\ \E row \in Wanted : RowPlanned(row, tx'[c].row)

LEMMA RequestsMove == ASSUME DocsOK, [Next]_vars PROVE RequestMoves /\ TxMoves
<1>1. ASSUME NEW c \in Client, NEW r \in NextRequest, NEW row \in Wanted, BeginRequest(c, r, row)
      PROVE  RequestMoves /\ TxMoves
  <2>1. PICK t \in Transaction : /\ tx' = [tx EXCEPT ![c] = t] /\ t.op = "request"
                                 /\ t.request = r /\ RowPlanned(row, t.row)
    BY <1>1, BeginWrites
  <2>2. UNCHANGED <<project, unit, setting, request>>
    BY <1>1 DEF BeginRequest, projectVars, budgetVars, structureVars
  <2>3. tx'[c] = t /\ \A b \in Client \ {c} : tx'[b] = tx[b]
    BY <2>1 DEF DocsOK, TablesOK, TransactionsOK
  <2>4. QED
    BY <2>1, <2>2, <2>3 DEF RequestMoves, TxMoves
<1>2. ASSUME NEW c \in Client, tx' = [tx EXCEPT ![c] = Idle] PROVE TxMoves
  <2>1. tx'[c] = Idle /\ \A b \in Client \ {c} : tx'[b] = tx[b]
    BY <1>2 DEF DocsOK, TablesOK, TransactionsOK
  <2>2. QED
    BY <2>1, IdleTyped DEF TxMoves
<1>3. ASSUME UNCHANGED tx PROVE TxMoves
  BY <1>3 DEF TxMoves
<1>4. ASSUME NEW c \in Client, CommitRequest(c) PROVE RequestMoves /\ TxMoves
  <2>1. PICK r : r = tx[c].request
    OBVIOUS
  <2>2. /\ tx[c].op = "request" /\ StartApproval(r, project[tx[c].row.project].bu)
        /\ RequestOutcome(r, tx[c].row, instance'[r].status) /\ tx' = [tx EXCEPT ![c] = Idle]
    BY <1>4, <2>1 DEF CommitRequest
  <2>3. r \in Request /\ tx[c].row.status = "pending" /\ r \in Doc /\ InstancesOK /\ RequestsOK
    BY <2>1, <2>2, ProjectsAssumption DEF DocsOK, RequestsHeld, TablesOK
  <2>4. PICK s \in {"running", "approved"} : Judged(r, s)
    BY <2>2, <2>3, Started
  <2>5. PICK row \in RequestRow : row = tx[c].row
    BY DEF DocsOK, TablesOK, TransactionsOK, Transaction
  <2>6. s \in {"running"} \cup Outcome
    BY <2>4 DEF Outcome
  <2>7. RequestOutcome(r, row, s) /\ row.status = "pending"
    BY <2>2, <2>3, <2>4, <2>5 DEF Judged
  <2>8. RequestWritten(r, row, RequestAfter(s))
    BY <2>3, <2>6, <2>7, RequestDecided
  <2>9. RequestMoves
    BY <2>2, <2>3, <2>5, <2>8 DEF RequestMoves
  <2>10. QED
    BY <1>2, <2>2, <2>9
<1>5. ASSUME NEW r \in Request, NEW outcome \in Outcome, DecideRequest(r, outcome)
      PROVE  RequestMoves /\ TxMoves
  <2>1. /\ request[r].status = "pending" /\ Decide(r, outcome) /\ UNCHANGED tx
        /\ RequestOutcome(r, request[r], instance'[r].status)
    BY <1>5 DEF DecideRequest
  <2>2. r \in Doc /\ InstancesOK /\ RequestsOK
    BY ProjectsAssumption DEF DocsOK, TablesOK
  <2>3. PICK s \in {"running"} \cup Outcome : Judged(r, s)
    BY <2>1, <2>2, Decided
  <2>4. PICK row \in RequestRow : row = request[r]
    BY <2>2 DEF RequestsOK
  <2>5. RequestOutcome(r, row, s) /\ row.status = "pending"
    BY <2>1, <2>3, <2>4 DEF Judged
  <2>6. RequestWritten(r, row, RequestAfter(s))
    BY <2>2, <2>5, RequestDecided
  <2>7. RequestMoves
    BY <2>4, <2>5, <2>6 DEF RequestMoves
  <2>8. QED
    BY <1>3, <2>1, <2>7
<1>6. CASE ProjectStep
  <2>1. PICK p \in Project :
              \/ \E code : \E parent \in Project \cup {Nowhere}, u \in Unit :
                    p \in NextProject /\ CreateProject(p, parent, u, code)
              \/ \E ref, code : UpdateProject(p, ref) \/ SubstituteCode(p, code)
              \/ \E to : Transition(p, to)
              \/ SubmitProject(p)
              \/ \E outcome \in Outcome : DecideProject(p, outcome)
    BY <1>6, ProjectStepIs
  <2>2. UNCHANGED request /\ UNCHANGED tx
    <3> USE DEF budgetVars
    <3>1. ASSUME NEW parent, NEW u, NEW code, CreateProject(p, parent, u, code)
          PROVE  UNCHANGED request /\ UNCHANGED tx
      BY <3>1 DEF CreateProject
    <3>2. ASSUME NEW ref, NEW code, UpdateProject(p, ref) \/ SubstituteCode(p, code)
          PROVE  UNCHANGED request /\ UNCHANGED tx
      BY <3>2 DEF UpdateProject, SubstituteCode
    <3>3. ASSUME NEW to, Transition(p, to) PROVE UNCHANGED request /\ UNCHANGED tx
      BY <3>3 DEF Transition
    <3>4. ASSUME SubmitProject(p) PROVE UNCHANGED request /\ UNCHANGED tx
      BY <3>4 DEF SubmitProject
    <3>5. ASSUME NEW outcome, DecideProject(p, outcome) PROVE UNCHANGED request /\ UNCHANGED tx
      BY <3>5 DEF DecideProject
    <3>6. QED
      BY <2>1, <3>1, <3>2, <3>3, <3>4, <3>5
  <2>3. QED
    BY <1>3, <2>2 DEF RequestMoves
<1>7. ASSUME NEW c \in Client, Rollback(c) PROVE RequestMoves /\ TxMoves
  <2>1. UNCHANGED request /\ tx' = [tx EXCEPT ![c] = Idle]
    BY <1>7 DEF Rollback, budgetVars
  <2>2. QED
    BY <1>2, <2>1 DEF RequestMoves
<1>8. ASSUME NEW c \in Client, NEW op \in PlanOp, NEW p \in Project, BeginPlan(c, op, p)
      PROVE  RequestMoves /\ TxMoves
  <2>1. PICK t : t = [Idle EXCEPT !.op = op, !.project = HeldRow(op, p), !.row.to = p]
    OBVIOUS
  <2>2. UNCHANGED request /\ tx' = [tx EXCEPT ![c] = t]
    BY <1>8, <2>1 DEF BeginPlan, budgetVars
  <2>3. t.op = op /\ op # "request"
    BY <2>1 DEF Idle, PlanOp
  <2>4. tx'[c] = t /\ \A b \in Client \ {c} : tx'[b] = tx[b]
    BY <2>2 DEF DocsOK, TablesOK, TransactionsOK
  <2>5. QED
    BY <2>2, <2>3, <2>4 DEF RequestMoves, TxMoves
<1>9. ASSUME NEW c \in Client,
             \/ \E n \in 1..MaxRows, child \in Project \cup {Nowhere} : WritePhase(c, n, child)
             \/ WriteMilestone(c) \/ WriteRisk(c)
      PROVE  RequestMoves /\ TxMoves
  <2>1. UNCHANGED request /\ tx' = [tx EXCEPT ![c] = Idle]
    BY <1>9, PlanStepWrites
  <2>2. QED
    BY <1>2, <2>1 DEF RequestMoves
<1>10. CASE DocumentStep \/ UNCHANGED vars
  <2>1. UNCHANGED request /\ UNCHANGED tx
    BY <1>10 DEF DocumentStep, documentVars, budgetVars, vars
  <2>2. QED
    BY <1>3, <2>1 DEF RequestMoves
<1>11. CASE Elsewhere
  BY <1>3, <1>11, ElsewhereIs DEF docVars, RequestMoves
<1>12. QED
  BY <1>1, <1>4, <1>5, <1>6, <1>7, <1>8, <1>9, <1>10, <1>11, NextIs, Zenon

LEMMA SettingsStep ==
    ASSUME SettingsOK, [Next]_vars
    PROVE  SettingsOK'
<1>1. CASE UNCHANGED setting
  BY <1>1 DEF SettingsOK
<1>2. CASE WritesMode
  <2>1. PICK mode : \E s \in Scope : setting' = [setting EXCEPT !["funding_mode"][s] = mode]
    BY <1>2 DEF WritesMode, SetFundingMode, ChangeSetting
  <2>2. QED
    BY <2>1, ModeKey, SettingWritten
<1>3. CASE WritesDepth
  <2>1. PICK n : setting' = [setting EXCEPT !["max_depth"][Org] = n]
    BY <1>3 DEF WritesDepth, ChangeSetting
  <2>2. Org \in Scope
    BY DEF Scope
  <2>3. QED
    BY <2>1, <2>2, ModeKey, SettingWritten
<1>4. QED
  BY <1>1, <1>2, <1>3, StructureIs

\* A row that stands goes on standing, and drawing on its parent while the mode is guarded.
LEMMA RowStands ==
    ASSUME DocsOK, UnitsOK, TreesOK, SettingsOK, RequestsPlanned, [Next]_vars, NEW v, Standing(v)
    PROVE  /\ Standing(v)'
           /\ Drawing(v) /\ \/ \E c \in Client : orgLock = c
                            \/ \E r \in Request : v = request[r] /\ v.status = "pending"
              => Drawing(v)'
<1>1. PICK p \in Project : p = v.project /\ Created(p)
  BY DEF Standing
<1>2. Created(p)'
  BY <1>1, ProjectsMove DEF PlacesKept
<1>3. Standing(v)'
  BY <1>1, <1>2 DEF Standing
<1>4. ASSUME v.kind = "allocation", v.from = PlannedParent(p),
             \/ \E c \in Client : orgLock = c
             \/ \E r \in Request : v = request[r] /\ v.status = "pending"
      PROVE  v.from = PlannedParent(p)'
  BY <1>1, <1>4, PlansKeep
<1>5. Drawing(v) <=> (v.kind = "allocation" => v.from = PlannedParent(p))
  BY <1>1 DEF Drawing
<1>6. Drawing(v)' <=> (v.kind = "allocation" => v.from = PlannedParent(p)')
  BY <1>1 DEF Drawing
<1>7. QED
  BY <1>3, <1>4, <1>5, <1>6

\* Plans stand in every step.
LEMMA PlansStep ==
    ASSUME DocsOK, UnitsOK, TreesOK, SettingsOK, RequestsPlanned, PlansStand, [Next]_vars
    PROVE  RequestsPlanned' /\ PlansStand'
<1>1. RequestMoves /\ TxMoves
  BY RequestsMove
<1>2. \A r \in Request : request[r].status = "pending" => Drawing(request[r])
  BY DEF PlansStand, Drawing
<1>3. ASSUME NEW r \in Request, NEW v, v = request'[r]
      PROVE  /\ v.status # "none" => Standing(v)'
             /\ v.status = "pending" => Drawing(v)'
  <2>1. CASE v = request[r]
    <3>1. v.status # "none" => Standing(v)
      BY <2>1 DEF RequestsPlanned
    <3>2. v.status = "pending" => Drawing(v)
      BY <1>2, <2>1
    <3>3. QED
      BY <2>1, <3>1, <3>2, RowStands
  <2>2. ASSUME NEW row, NEW s, RequestWritten(r, row, s),
               \/ row = request[r] /\ row.status = "pending"
               \/ \E c \in Client : tx[c].op = "request" /\ row = tx[c].row
        PROVE  Standing(v)' /\ Drawing(v)'
    <3>1. Standing(row) /\ Drawing(row)
      BY <1>2, <2>2 DEF RequestsPlanned
    <3>2. \/ \E c \in Client : orgLock = c
          \/ \E q \in Request : row = request[q] /\ row.status = "pending"
      BY <2>2 DEF DocsOK, RequestsHeld
    <3>3. Standing(row)' /\ Drawing(row)'
      BY <3>1, <3>2, RowStands
    <3>4. v.project = row.project /\ v.kind = row.kind /\ v.from = row.from
      BY <1>3, <2>2 DEF RequestWritten
    <3>5. QED
      BY <3>3, <3>4 DEF Standing, Drawing
  <2>3. \/ v = request[r]
        \/ \E row, s : /\ RequestWritten(r, row, s)
                       /\ \/ row = request[r] /\ row.status = "pending"
                          \/ \E c \in Client : tx[c].op = "request" /\ row = tx[c].row
    BY <1>1, <1>3 DEF RequestMoves, RequestWritten
  <2>4. QED
    BY <2>1, <2>2, <2>3
<1>4. ASSUME NEW c \in Client, NEW t, t = tx'[c], t.op = "request", NEW v, v = t.row
      PROVE  Standing(v)' /\ Drawing(v)'
  <2>1. CASE t = tx[c]
    <3>1. Standing(v) /\ Drawing(v) /\ orgLock = c
      BY <1>4, <2>1 DEF RequestsPlanned, DocsOK, RequestsHeld
    <3>2. QED
      BY <3>1, RowStands
  <2>2. ASSUME UNCHANGED <<project, unit, setting>>, NEW row \in Wanted, RowPlanned(row, v)
        PROVE  Standing(v)' /\ Drawing(v)'
    <3>1. PICK p \in Project : p = row.project /\ Created(p)
      BY WantedRow DEF Created
    <3>2. v.project = p /\ v.kind = row.kind /\ (v.kind = "allocation" => v.from = PlannedParent(p))
      BY <2>2, <3>1 DEF RowPlanned
    <3>3. PlannedParent(p)' = PlannedParent(p)
      BY <2>2, <3>1, PlannedStays
    <3>4. Standing(v)'
      BY <2>2, <3>1, <3>2 DEF Standing, Created
    <3>5. Drawing(v)' <=> (v.kind = "allocation" => v.from = PlannedParent(p)')
      BY <3>2 DEF Drawing
    <3>6. QED
      BY <3>2, <3>3, <3>4, <3>5
  <2>3. QED
    BY <1>1, <1>4, <2>1, <2>2 DEF TxMoves
<1>5. RequestsPlanned'
  BY <1>3, <1>4 DEF RequestsPlanned
<1>6. PlansStand'
  BY <1>3 DEF PlansStand, Drawing
<1>7. QED
  BY <1>5, <1>6

-----------------------------------------------------------------------------
(* The invariant *)

\* Every command that is not of the calendar leaves it alone.
LEMMA CalendarElsewhere ==
    ASSUME [Next]_vars
    PROVE  CalendarStep \/ UNCHANGED calendarVars
<1>1. CASE StructureStep
  BY <1>1, Zenon DEF StructureStep, CreateUnit, UpdateUnit, AddFormat, WriteMaster, ChangeSetting
<1>2. CASE DefinitionStep
  <2>1. UNCHANGED organizationVars
    BY <1>2, Zenon DEF DefinitionStep, CreateDefinition, CreateVersion, UpdateVersion, Publish,
                       Retire, ChangeHolders
  <2>2. QED
    BY <2>1 DEF organizationVars
<1>3. ASSUME DocumentStep \/ UNCHANGED vars PROVE UNCHANGED calendarVars
  <2>1. UNCHANGED organizationVars
    BY <1>3, Zenon DEF DocumentStep, vars
  <2>2. QED
    BY <2>1 DEF organizationVars
<1>4. CASE ProjectStep
  <2>1. PICK p \in Project :
              \/ \E code : \E parent \in Project \cup {Nowhere}, u \in Unit :
                    p \in NextProject /\ CreateProject(p, parent, u, code)
              \/ \E ref, code : UpdateProject(p, ref) \/ SubstituteCode(p, code)
              \/ \E to : Transition(p, to)
              \/ SubmitProject(p)
              \/ \E outcome \in Outcome : DecideProject(p, outcome)
    BY <1>4, ProjectStepIs
  <2>2. ASSUME NEW parent, NEW u, NEW code, CreateProject(p, parent, u, code)
        PROVE  UNCHANGED calendarVars
    BY <2>2, Zenon DEF CreateProject
  <2>3. ASSUME NEW ref, NEW code, UpdateProject(p, ref) \/ SubstituteCode(p, code)
        PROVE  UNCHANGED calendarVars
    BY <2>3 DEF UpdateProject, SubstituteCode, organizationVars
  <2>4. ASSUME NEW to, Transition(p, to) PROVE UNCHANGED calendarVars
    BY <2>4 DEF Transition, organizationVars
  <2>5. ASSUME SubmitProject(p) PROVE UNCHANGED calendarVars
    BY <2>5, Zenon DEF SubmitProject, organizationVars
  <2>6. ASSUME NEW outcome, DecideProject(p, outcome) PROVE UNCHANGED calendarVars
    BY <2>6, Zenon DEF DecideProject, organizationVars
  <2>7. QED
    BY <2>1, <2>2, <2>3, <2>4, <2>5, <2>6
<1>5. ASSUME NEW c \in Client,
             \/ \E op \in PlanOp, p \in Project : BeginPlan(c, op, p)
             \/ \E n \in 1..MaxRows, child \in Project \cup {Nowhere} : WritePhase(c, n, child)
             \/ WriteMilestone(c) \/ WriteRisk(c)
      PROVE  UNCHANGED calendarVars
  BY <1>5, Zenon DEF BeginPlan, WritePhase, WriteMilestone, WriteRisk, organizationVars
<1>6. ASSUME NEW c \in Client, NEW r, NEW row, BeginRequest(c, r, row) PROVE UNCHANGED calendarVars
  BY <1>6, Zenon DEF BeginRequest
<1>7. ASSUME NEW c \in Client, CommitRequest(c) \/ Rollback(c) PROVE UNCHANGED calendarVars
  BY <1>7, Zenon DEF CommitRequest, Rollback
<1>8. ASSUME NEW r \in Request, NEW outcome, DecideRequest(r, outcome) PROVE UNCHANGED calendarVars
  BY <1>8 DEF DecideRequest, organizationVars
<1>9. ASSUME NEW mode, NEW s \in Scope, SetFundingMode(s, mode) PROVE UNCHANGED calendarVars
  BY <1>9, Zenon DEF SetFundingMode, ChangeSetting
<1>10. QED
  BY <1>1, <1>2, <1>3, <1>4, <1>5, <1>6, <1>7, <1>8, <1>9, NextIs DEF Elsewhere

\* The invariant of Projects: what its theorems rest on.
IInv ==
    /\ CalendarOK /\ LookupsOK
    /\ DocsOK
    /\ UnitsOK /\ SettingsOK /\ TreesOK
    /\ RequestsPlanned /\ PlansStand

LEMMA InvInit == Init => IInv
<1> SUFFICES ASSUME Init PROVE IInv
  OBVIOUS
<1>1. CalendarOK /\ LookupsOK
  <2>1. startMonth = 1 /\ period = {} /\ asked = {} /\ seeking = [c \in Client |-> Nowhere]
    BY DEF Init, OrganizationInit
  <2>2. 1 \in 1..Months
    BY OrganizationAssumption
  <2>3. QED
    BY <2>1, <2>2 DEF CalendarOK, LookupsOK
<1>2. UnitsOK
  <2>1. mix \in Mixes /\ unit = mix.unit
    BY DEF Init
  <2>2. /\ mix.unit \in [Unit -> [status : UnitStatus, parent : Unit \cup {Nowhere}]]
        /\ \A u \in Unit : mix.unit[u].status # "none" /\ mix.unit[u].parent # Nowhere =>
              mix.unit[mix.unit[u].parent].status # "none"
    BY <2>1, ProjectsAssumption
  <2>3. QED
    BY <2>1, <2>2 DEF UnitsOK, Exists
<1>3. SettingsOK
  <2>1. setting = [key \in Keys |-> [s \in Scope |-> Unset]]
    BY DEF Init, OrganizationInit, Keys
  <2>2. \A key \in Keys, s \in Scope : setting[key][s] = Unset
    BY <2>1
  <2>3. QED
    BY <2>1, <2>2 DEF SettingsOK
<1>4. /\ \A p \in Project : ~Created(p)
      /\ \A r \in Request : request[r].status = "none"
      /\ \A c \in Client : tx[c].op = "none"
  BY DEF Init, Created, NoProject, NoRequest, Idle
<1>5. TreesOK /\ RequestsPlanned /\ PlansStand
  BY <1>4 DEF TreesOK, RequestsPlanned, PlansStand
<1>6. QED
  BY <1>1, <1>2, <1>3, <1>5, DocsInit DEF IInv

LEMMA InvStep == IInv /\ [Next]_vars => IInv'
<1> SUFFICES ASSUME IInv, [Next]_vars PROVE IInv'
  OBVIOUS
<1>1. CalendarOK' /\ LookupsOK'
  BY CalendarElsewhere, CalendarStays, CalendarMoves DEF IInv
<1>2. DocsOK'
  BY DocsStep DEF IInv
<1>3. UnitsOK'
  BY StructureIs, UnitsStay DEF IInv
<1>4. SettingsOK' /\ TreesOK'
  BY SettingsStep, TreesStep DEF IInv
<1>5. RequestsPlanned' /\ PlansStand'
  BY PlansStep DEF IInv
<1>6. QED
  BY <1>1, <1>2, <1>3, <1>4, <1>5 DEF IInv

\* IInv holds in every state: the tables are typed, every unit and project has its parents, and
\* what is under way is what the locks and the guards say.
THEOREM ProjectsInvariant == Spec => []IInv
  BY InvInit, InvStep, PTL DEF Spec

\* The fiscal calendar holds together, for any number of months and clients (set_calendar,
\* ensure_year, period_for, transition).
THEOREM CalendarIsSound == Spec => []CalendarHolds
<1>1. IInv => CalendarHolds
  BY MonthsApart DEF IInv, CalendarHolds, CalendarOK, LookupsOK
<1>2. QED
  BY <1>1, ProjectsInvariant, PTL

\* A project or a budget change and its approval never part (transition, approval_outcome,
\* request_change, on_outcome).
THEOREM DocumentsFollow == Spec => []DocumentsFollowApprovals
<1>1. IInv => DocumentsFollowApprovals
  BY DEF IInv, DocsOK
<1>2. QED
  BY <1>1, ProjectsInvariant, PTL

\* A pending allocation draws on the parent its requester was allowed to draw on
\* (request_change, _funding_mode_guard, on_outcome).
THEOREM PlansAreStanding == Spec => []PlansStand
<1>1. IInv => PlansStand
  BY DEF IInv
<1>2. QED
  BY <1>1, ProjectsInvariant, PTL

\* The steps that write no plan leave every plan alone.
LEMMA PlansElsewhere ==
    ASSUME [Next]_vars
    PROVE  \/ UNCHANGED plan
           \/ \E c \in Client :
                 \/ \E n \in 1..MaxRows, child \in Project \cup {Nowhere} : WritePhase(c, n, child)
                 \/ WriteMilestone(c) \/ WriteRisk(c)
<1> USE DEF projectVars
<1>1. CASE Elsewhere
  BY <1>1, ElsewhereIs DEF docVars
<1>2. CASE DocumentStep \/ UNCHANGED vars
  BY <1>2, Zenon DEF DocumentStep, documentVars, vars
<1>3. CASE ProjectStep
  BY <1>3, Zenon DEF ProjectStep, CreateProject, UpdateProject, SubstituteCode, Transition,
                     SubmitProject, DecideProject
<1>4. ASSUME NEW c \in Client, NEW op, NEW p, BeginPlan(c, op, p) PROVE UNCHANGED plan
  BY <1>4 DEF BeginPlan
<1>5. ASSUME NEW c \in Client, NEW r, NEW row, BeginRequest(c, r, row) PROVE UNCHANGED plan
  BY <1>5 DEF BeginRequest
<1>6. ASSUME NEW c \in Client, CommitRequest(c) \/ Rollback(c) PROVE UNCHANGED plan
  BY <1>6 DEF CommitRequest, Rollback
<1>7. ASSUME NEW r \in Request, NEW outcome, DecideRequest(r, outcome) PROVE UNCHANGED plan
  BY <1>7 DEF DecideRequest
<1>8. QED
  BY <1>1, <1>2, <1>3, <1>4, <1>5, <1>6, <1>7, NextIs

\* Nobody writes the schedule or a risk of a project that has ended, although its status was
\* read a step before (Schedule.write, RiskService.write).
THEOREM EndedPlansLeftAlone == Spec => EndedPlansStand
<1>1. ASSUME IInv, [Next]_vars
      PROVE  \A p \in Project : project[p].status \in Ended => plan'[p] = plan[p]
  <2>1. DocsOK
    BY <1>1 DEF IInv
  <2>2. QED
    BY <1>1, <2>1, PlansElsewhere, PlanStepWrites DEF PlanWritten
<1>2. QED
  BY <1>1, ProjectsInvariant, PTL DEF Spec, EndedPlansStand

-----------------------------------------------------------------------------
(* The way between two projects *)

\* Projects in trees: their parents, depths and roots.
Forest(S, par, dep, rt) ==
    /\ Closed(S, par)
    /\ \A y \in S : dep[y] \in 1..ProjectLevels
    /\ \A y \in S : par[y] = Nowhere => dep[y] = 1 /\ rt[y] = y
    /\ \A y \in S : par[y] # Nowhere => dep[y] = dep[par[y]] + 1 /\ rt[y] = rt[par[y]]

\* The way up from x to the root of its tree: one level at a time, nobody left out.
Rise(s, x, S, par, dep, rt) ==
    /\ s \in Seq(S) /\ Len(s) \in Nat \ {0} /\ s[1] = x /\ s[Len(s)] = rt[x]
    /\ \A k \in 1..Len(s) : s[k] \in S
    /\ \A k \in 1..(Len(s) - 1) : s[k + 1] = par[s[k]]
    /\ \A j, k \in 1..Len(s) : s[j] = s[k] => j = k
    /\ \A k \in 1..Len(s) : rt[s[k]] = rt[x]

LEMMA AscentReachesRoot ==
    ASSUME NEW S, NEW par, NEW dep, NEW rt, Forest(S, par, dep, rt), NEW x \in S, NEW s,
           s = Ascent(par, WalkGuard, x)
    PROVE  Rise(s, x, S, par, dep, rt)
<1>1. PICK n \in Nat : n = WalkGuard /\ n # 0 /\ ProjectLevels <= n /\ ProjectLevels \in Nat
  BY ProjectsAssumption
<1>2. /\ s \in Seq(S) /\ Len(s) \in 1..n /\ s[1] = x
      /\ \A k \in 1..(Len(s) - 1) : s[k + 1] = par[s[k]]
      /\ par[s[Len(s)]] = Nowhere \/ Len(s) = n
  <2>1. Closed(S, par) /\ s = Ascent(par, n, x)
    BY <1>1 DEF Forest
  <2>2. Climbs(s, x, n, S, par)
    BY <1>1, <2>1, AscentRises, Zenon
  <2>3. QED
    BY <2>2 DEF Climbs
<1>3. PICK l \in Nat \ {0} : l = Len(s)
  BY <1>2
<1>4. \A k \in 1..l : s[k] \in S
  BY <1>2, <1>3
<1> DEFINE T == {k \in Nat : k \in 1..l => dep[s[k]] = dep[x] - k + 1 /\ rt[s[k]] = rt[x]}
<1>5. 0 \in T
  OBVIOUS
<1>6. ASSUME NEW k \in Nat, k \in T PROVE k + 1 \in T
  <2>1. SUFFICES ASSUME k + 1 \in 1..l
                 PROVE  dep[s[k + 1]] = dep[x] - (k + 1) + 1 /\ rt[s[k + 1]] = rt[x]
    OBVIOUS
  <2>2. dep[x] \in Int
    BY DEF Forest
  <2>3. CASE k = 0
    BY <1>2, <2>2, <2>3
  <2>4. CASE k # 0
    <3>1. k \in 1..l /\ k \in 1..(l - 1)
      BY <2>1, <2>4
    <3>2. PICK y \in S : y = s[k]
      BY <1>4, <3>1
    <3>3. PICK z : z = s[k + 1] /\ z \in S /\ z = par[y]
      BY <1>2, <1>3, <1>4, <2>1, <3>1, <3>2
    <3>4. z # Nowhere
      BY <3>3 DEF Forest, Closed
    <3>5. dep[y] = dep[z] + 1 /\ rt[y] = rt[z] /\ dep[z] \in Int
      BY <3>2, <3>3, <3>4 DEF Forest
    <3>6. dep[y] = dep[x] - k + 1 /\ rt[y] = rt[x]
      BY <1>6, <3>1, <3>2
    <3>7. QED
      BY <2>2, <3>3, <3>5, <3>6
  <2>5. QED
    BY <2>3, <2>4
<1>7. \A k \in 1..l : dep[s[k]] = dep[x] - k + 1 /\ rt[s[k]] = rt[x]
  <2>1. Nat \subseteq T
    BY <1>5, <1>6, SetInduction
  <2>2. QED
    BY <2>1
<1>8. PICK z \in S : z = s[l]
  BY <1>3, <1>4
<1>9. dep[x] \in 1..n /\ dep[z] \in 1..n /\ dep[z] = dep[x] - l + 1 /\ rt[z] = rt[x]
  BY <1>1, <1>3, <1>7, <1>8 DEF Forest
<1>10. par[z] = Nowhere
  <2>1. SUFFICES ASSUME l = n, par[z] # Nowhere PROVE FALSE
    BY <1>2, <1>3, <1>8
  <2>2. dep[z] = 1
    BY <1>9, <2>1
  <2>3. PICK y \in S : y = par[z]
    BY <2>1 DEF Forest, Closed
  <2>4. dep[z] = dep[y] + 1 /\ dep[y] \in 1..ProjectLevels
    BY <2>1, <2>3 DEF Forest
  <2>5. QED
    BY <1>1, <2>2, <2>4
<1>11. s[Len(s)] = rt[x]
  BY <1>3, <1>8, <1>9, <1>10 DEF Forest
<1>12. ASSUME NEW j \in 1..l, NEW k \in 1..l, s[j] = s[k] PROVE j = k
  <2>1. dep[x] - j + 1 = dep[x] - k + 1
    BY <1>7, <1>12
  <2>2. QED
    BY <1>9, <2>1
<1>13. QED
  BY <1>2, <1>3, <1>4, <1>7, <1>11, <1>12 DEF Rise

\* The part of a way before its k-th project.
Distinct(s, n) == \A i, j \in 1..n : s[i] = s[j] => i = j
Before(u, s, k, S) == u \in Seq(S) /\ Len(u) = k - 1 /\ \A i \in 1..(k - 1) : u[i] = s[i]

LEMMA UptoIs ==
    ASSUME NEW s, NEW n \in Nat, n = Len(s), NEW S, s \in Seq(S), NEW k \in 1..n,
           Distinct(s, n), NEW u, u = Upto(s, s[k])
    PROVE  Before(u, s, k, S)
<1> USE DEF Distinct
<1> DEFINE c == CHOOSE j \in 1..n : s[j] = s[k]
<1>1. c \in 1..n /\ s[c] = s[k]
  OBVIOUS
<1>2. c = k
  BY <1>1
<1>3. Upto(s, s[k]) = SubSeq(s, 1, c - 1)
  BY DEF Upto
<1> HIDE DEF c
<1>4. Upto(s, s[k]) = SubSeq(s, 1, k - 1)
  BY <1>2, <1>3
<1>5. SubSeq(s, 1, k - 1) \in Seq(S)
  OBVIOUS
<1>6. Len(SubSeq(s, 1, k - 1)) = k - 1
  OBVIOUS
<1>7. \A i \in 1..(k - 1) : SubSeq(s, 1, k - 1)[i] = s[i]
  OBVIOUS
<1>8. QED
  BY <1>4, <1>5, <1>6, <1>7 DEF Before

\* Where two ways up meet for the first time, and the way over from one to the other.
Shared(sa, sb) == {k \in 1..Len(sa) : \E j \in 1..Len(sb) : sb[j] = sa[k]}
Backwards(s) == [k \in 1..Len(s) |-> s[Len(s) + 1 - k]]
First(above) == CHOOSE k \in above : \A j \in above : k <= j
MeetAt(sa, sb, m, j) ==
    /\ m \in 1..Len(sa) /\ j \in 1..Len(sb) /\ sb[j] = sa[m]
    /\ \A i \in 1..Len(sa), h \in 1..Len(sb) : sb[h] = sa[i] => m <= i
Over(whole, sa, sb, m, j) ==
    /\ Len(whole) = m + j - 1
    /\ \A i \in 1..m : whole[i] = sa[i]
    /\ \A t \in 0..(j - 1) : whole[m + t] = sb[j - t]
Crossing(whole, up, sa, sb, m, j) == Over(whole, sa, sb, m, j) /\ Len(up) = m - 1

\* The ways up from two projects of a tree meet.
LEMMA WaysMeet ==
    ASSUME NEW S, NEW par, NEW dep, NEW rt, NEW a, NEW b, NEW sa, NEW sb,
           Rise(sa, a, S, par, dep, rt), Rise(sb, b, S, par, dep, rt), rt[a] = rt[b],
           NEW above, above = Shared(sa, sb)
    PROVE  above # {} /\ \E m, j : m = First(above) /\ MeetAt(sa, sb, m, j)
<1> USE DEF Shared
<1>1. Len(sa) \in above
  <2>1. Len(sa) \in 1..Len(sa) /\ Len(sb) \in 1..Len(sb) /\ sb[Len(sb)] = sa[Len(sa)]
    BY DEF Rise
  <2>2. QED
    BY <2>1
<1>2. above \in SUBSET Nat
  BY DEF Rise
<1>3. \E k \in above : \A i \in above : k <= i
  BY <1>1, <1>2, LeastNat
<1> DEFINE m == CHOOSE k \in above : \A i \in above : k <= i
<1>4. m \in above /\ \A i \in above : m <= i
  BY <1>3
<1> HIDE DEF m
<1>5. PICK j \in 1..Len(sb) : sb[j] = sa[m]
  BY <1>4
<1>6. \A i \in 1..Len(sa), h \in 1..Len(sb) : sb[h] = sa[i] => m <= i
  BY <1>4
<1>7. m \in 1..Len(sa)
  BY <1>4
<1>8. m = First(above)
  BY DEF m, First
<1>9. above # {}
  BY <1>1
<1>10. MeetAt(sa, sb, m, j)
  BY <1>5, <1>6, <1>7, Zenon DEF MeetAt
<1>11. QED
  BY <1>8, <1>9, <1>10, Zenon

\* Up to the meeting point and down again.
LEMMA WayOver ==
    ASSUME NEW S, NEW par, NEW dep, NEW rt, NEW a, NEW b, NEW sa, NEW sb,
           Rise(sa, a, S, par, dep, rt), Rise(sb, b, S, par, dep, rt),
           NEW m, NEW j, MeetAt(sa, sb, m, j),
           NEW up, NEW way, NEW down, NEW whole, up = Upto(sa, sa[m]), way = Upto(sb, sb[j]),
           down = Backwards(way),
           whole = up \o <<sa[m]>> \o down
    PROVE  Crossing(whole, up, sa, sb, m, j)
<1>1. PICK na \in Nat, nb \in Nat : na = Len(sa) /\ nb = Len(sb) /\ m \in 1..na /\ j \in 1..nb
  BY DEF Rise, MeetAt
<1>2. sb[j] = sa[m]
  BY DEF MeetAt
<1>3. sa \in Seq(S) /\ sb \in Seq(S) /\ Distinct(sa, na) /\ Distinct(sb, nb)
  BY <1>1 DEF Rise, Distinct
<1>4. Before(up, sa, m, S)
  BY <1>1, <1>3, UptoIs, Zenon
<1>5. Before(way, sb, j, S)
  BY <1>1, <1>3, UptoIs, Zenon
<1>6. m \in Int /\ j \in Int /\ m - 1 \in Nat /\ j - 1 \in Nat
  BY <1>1
<1>7. up \in Seq(S) /\ Len(up) = m - 1 /\ \A i \in 1..(m - 1) : up[i] = sa[i]
  BY <1>4 DEF Before
<1>8. way \in Seq(S) /\ Len(way) = j - 1 /\ \A i \in 1..(j - 1) : way[i] = sb[i]
  BY <1>5 DEF Before
<1>9. down = [k \in 1..(j - 1) |-> way[j - k]]
  BY <1>1, <1>8 DEF Backwards
<1>10. \A k \in 1..(j - 1) : j - k \in 1..(j - 1)
  BY <1>1
<1>11. \A k \in 1..(j - 1) : way[j - k] \in S
  BY <1>1, <1>8, <1>10
<1>12. down \in Seq(S) /\ Len(down) = j - 1 /\ \A k \in 1..(j - 1) : down[k] = sb[j - k]
  <2>1. j - 1 \in Nat
    BY <1>1
  <2>2. down \in Seq(S) /\ Len(down) = j - 1
    BY <1>9, <1>11, <2>1
  <2>3. QED
    BY <1>8, <1>9, <1>10, <2>2
<1>13. PICK q \in S : q = sa[m]
  BY <1>1 DEF Rise
<1>14. PICK front : front = up \o <<q>>
  OBVIOUS
<1>15. front \in Seq(S) /\ Len(front) = m
  BY <1>1, <1>7, <1>13, <1>14
<1>16. \A i \in 1..m : front[i] = sa[i]
  BY <1>1, <1>7, <1>13, <1>14
<1>17. whole = front \o down
  BY <1>13, <1>14
<1>18. Len(whole) = m + (j - 1)
  BY <1>12, <1>15, <1>17, <1>6
<1>19. \A i \in 1..m : whole[i] = sa[i]
  BY <1>12, <1>15, <1>16, <1>17, <1>6
<1>20. ASSUME NEW t \in 0..(j - 1) PROVE whole[m + t] = sb[j - t]
  <2>1. CASE t = 0
    <3>1. m + t = m /\ j - t = j /\ m \in 1..m
      BY <1>1, <1>6, <2>1
    <3>2. whole[m] = sa[m]
      BY <1>19, <3>1
    <3>3. QED
      BY <1>2, <3>1, <3>2
  <2>2. CASE t # 0
    <3>1. t \in 1..(j - 1) /\ m + t \in 1..Len(whole)
      BY <1>1, <1>18, <2>2
    <3>2. whole[m + t] = down[t]
      BY <1>1, <1>12, <1>15, <1>17, <3>1
    <3>3. QED
      BY <1>12, <3>1, <3>2
  <2>3. QED
    BY <2>1, <2>2
<1>21. m + (j - 1) = m + j - 1
  BY <1>1
<1>22. QED
  BY <1>7, <1>18, <1>19, <1>20, <1>21, Zenon DEF Over, Crossing

\* The way over lists nobody twice and takes one level at a time.
Steps(whole, n, m, a, b, S, par) ==
    /\ n \in Nat /\ whole[1] = a /\ whole[n] = b
    /\ \A i \in 1..(n - 1) : IF i <= m - 1 THEN par[whole[i]] = whole[i + 1]
                             ELSE par[whole[i + 1]] = whole[i]
    /\ \A i, k \in 1..n : whole[i] = whole[k] => i = k
    /\ \A i \in 1..n : whole[i] \in S

LEMMA WayIsStepwise ==
    ASSUME NEW S, NEW par, NEW dep, NEW rt, NEW a, NEW b, NEW sa, NEW sb,
           Rise(sa, a, S, par, dep, rt), Rise(sb, b, S, par, dep, rt),
           NEW m, NEW j, MeetAt(sa, sb, m, j), NEW whole, NEW n, n = Len(whole),
           Over(whole, sa, sb, m, j)
    PROVE  Steps(whole, n, m, a, b, S, par)
<1>1. PICK na \in Nat, nb \in Nat : na = Len(sa) /\ nb = Len(sb) /\ m \in 1..na /\ j \in 1..nb
  BY DEF Rise, MeetAt
<1>2. /\ sb[j] = sa[m] /\ n = m + j - 1
      /\ \A i \in 1..Len(sa), h \in 1..Len(sb) : sb[h] = sa[i] => m <= i
  BY DEF MeetAt, Over
<1>3. \A i \in 1..m : whole[i] = sa[i]
  BY DEF Over
<1>4. \A t \in 0..(j - 1) : whole[m + t] = sb[j - t]
  BY DEF Over
<1>5. m \in Int /\ j \in Int /\ m >= 1 /\ j >= 1 /\ n \in Nat
  BY <1>2, <1>1
<1>6. \A i \in (m + 1)..n : j - (i - m) \in 1..(j - 1) /\ whole[i] = sb[j - (i - m)]
  <2>1. ASSUME NEW i \in (m + 1)..n PROVE j - (i - m) \in 1..(j - 1) /\ whole[i] = sb[j - (i - m)]
    <3>1. i - m \in 0..(j - 1) /\ m + (i - m) = i /\ j - (i - m) \in 1..(j - 1)
      BY <1>2, <1>5, <2>1
    <3>2. whole[m + (i - m)] = sb[j - (i - m)]
      BY <1>4, <3>1
    <3>3. QED
      BY <3>1, <3>2
  <2>2. QED
    BY <2>1
<1>7. \A i \in 1..n : i \in 1..m \/ i \in (m + 1)..n
  BY <1>2, <1>5
<1>8. whole[1] = a
  <2>1. 1 \in 1..m /\ sa[1] = a
    BY <1>5 DEF Rise
  <2>2. QED
    BY <1>3, <2>1
<1>9. whole[n] = b
  <2>1. j - 1 \in 0..(j - 1) /\ m + (j - 1) = n /\ j - (j - 1) = 1
    BY <1>2, <1>5
  <2>2. whole[m + (j - 1)] = sb[j - (j - 1)]
    BY <1>4, <2>1
  <2>3. QED
    BY <2>1, <2>2 DEF Rise
<1>10. ASSUME NEW i \in 1..n PROVE whole[i] \in S
  <2>1. CASE i \in 1..m
    <3>1. i \in 1..Len(sa) /\ whole[i] = sa[i]
      BY <1>1, <1>3, <2>1
    <3>2. QED
      BY <3>1 DEF Rise
  <2>2. CASE i \in (m + 1)..n
    <3>1. PICK h \in Int : h = j - (i - m)
      BY <1>5
    <3>2. h \in 1..(j - 1) /\ whole[i] = sb[h]
      BY <1>6, <2>2, <3>1
    <3>3. h \in 1..Len(sb)
      BY <1>1, <3>2
    <3>4. QED
      BY <3>2, <3>3 DEF Rise
  <2>3. QED
    BY <1>7, <2>1, <2>2
<1>11. ASSUME NEW i \in 1..(n - 1)
       PROVE  IF i <= m - 1 THEN par[whole[i]] = whole[i + 1] ELSE par[whole[i + 1]] = whole[i]
  <2>1. CASE i <= m - 1
    <3>1. i \in 1..m /\ i + 1 \in 1..m /\ i \in 1..(Len(sa) - 1)
      BY <1>1, <1>5, <2>1
    <3>2. whole[i] = sa[i] /\ whole[i + 1] = sa[i + 1]
      BY <1>3, <3>1
    <3>3. sa[i + 1] = par[sa[i]]
      BY <3>1 DEF Rise
    <3>4. QED
      BY <2>1, <3>2, <3>3
  <2>2. CASE ~(i <= m - 1)
    <3>1. PICK h \in Int : h = j - (i + 1 - m)
      BY <1>5
    <3>2. /\ i - m \in 0..(j - 1) /\ m + (i - m) = i /\ j - (i - m) = h + 1
          /\ i + 1 - m \in 0..(j - 1) /\ m + (i + 1 - m) = i + 1 /\ h \in 1..(nb - 1)
      BY <1>2, <1>1, <1>5, <2>2, <3>1
    <3>3. whole[m + (i - m)] = sb[j - (i - m)] /\ whole[m + (i + 1 - m)] = sb[j - (i + 1 - m)]
      BY <1>4, <3>2
    <3>4. whole[i] = sb[h + 1] /\ whole[i + 1] = sb[h]
      BY <3>1, <3>2, <3>3
    <3>5. sb[h + 1] = par[sb[h]]
      BY <1>1, <3>2 DEF Rise
    <3>6. QED
      BY <2>2, <3>4, <3>5
  <2>3. QED
    BY <2>1, <2>2
<1>12. \A i, k \in 1..m : sa[i] = sa[k] => i = k
  <2>1. 1..m \subseteq 1..Len(sa) /\ \A i, k \in 1..Len(sa) : sa[i] = sa[k] => i = k
    BY <1>1 DEF Rise
  <2>2. QED
    BY <2>1
<1>13. \A h, k \in 1..j : sb[h] = sb[k] => h = k
  <2>1. \A h, k \in 1..Len(sb) : sb[h] = sb[k] => h = k
    BY DEF Rise
  <2>2. 1..j \subseteq 1..Len(sb)
    BY <1>1
  <2>3. QED
    BY <2>1, <2>2, Zenon
\* Below the meeting point the two ways share nobody.
<1>14. ASSUME NEW i \in 1..m, NEW h \in 1..(j - 1) PROVE sa[i] # sb[h]
  <2>1. SUFFICES ASSUME sa[i] = sb[h] PROVE FALSE
    OBVIOUS
  <2>2. i \in 1..Len(sa) /\ h \in 1..Len(sb) /\ h \in 1..j /\ j \in 1..j
    BY <1>1, <1>5
  <2>3. i = m
    BY <1>2, <1>5, <2>1, <2>2
  <2>4. sb[h] = sb[j]
    BY <1>2, <2>1, <2>3
  <2>5. h = j
    BY <1>13, <2>2, <2>4
  <2>6. QED
    BY <1>5, <2>5
<1>15. ASSUME NEW i \in 1..n, NEW k \in 1..n, whole[i] = whole[k] PROVE i = k
  <2>1. CASE i \in 1..m /\ k \in 1..m
    BY <1>12, <1>15, <1>3, <2>1
  <2>2. CASE i \in 1..m /\ k \in (m + 1)..n
    BY <1>6, <1>14, <1>15, <1>3, <2>2
  <2>3. CASE i \in (m + 1)..n /\ k \in 1..m
    BY <1>6, <1>14, <1>15, <1>3, <2>3
  <2>4. CASE i \in (m + 1)..n /\ k \in (m + 1)..n
    <3>1. PICK g \in Int, h \in Int : g = j - (i - m) /\ h = j - (k - m)
      BY <1>5
    <3>2. /\ g \in 1..(j - 1) /\ whole[i] = sb[g]
          /\ h \in 1..(j - 1) /\ whole[k] = sb[h]
      BY <1>6, <2>4, <3>1
    <3>3. 1..(j - 1) \subseteq 1..j
      BY <1>5
    <3>4. g = h
      BY <1>13, <1>15, <3>2, <3>3, Zenon
    <3>5. i = j + m - g /\ k = j + m - h
      BY <1>5, <3>1
    <3>6. QED
      BY <3>4, <3>5
  <2>5. QED
    BY <1>7, <2>1, <2>2, <2>3, <2>4
<1>16. QED
  BY <1>5, <1>8, <1>9, <1>10, <1>11, <1>15 DEF Steps

\* What the invariant says of the projects there are: they are a forest.
LEMMA MadeIsForest ==
    ASSUME IInv, NEW S, S = Made, NEW par, par = ParentOf,
           NEW dep, dep = [p \in Project |-> project[p].depth],
           NEW rt, rt = [p \in Project |-> project[p].root]
    PROVE  Forest(S, par, dep, rt)
<1>1. \A p \in S : /\ p \in Project /\ InTree(p) /\ par[p] = project[p].parent
                   /\ dep[p] = project[p].depth /\ rt[p] = project[p].root
  BY DEF IInv, TreesOK, Made, ParentOf
<1>2. Nowhere \notin S
  BY ProjectsAssumption DEF Made
<1>3. ASSUME NEW p \in S
      PROVE  /\ par[p] \in S \cup {Nowhere} /\ dep[p] \in 1..ProjectLevels
             /\ par[p] = Nowhere => dep[p] = 1 /\ rt[p] = p
             /\ par[p] # Nowhere => dep[p] = dep[par[p]] + 1 /\ rt[p] = rt[par[p]]
  <2>1. InTree(p)
    BY <1>1
  <2>2. CASE project[p].depth = 1 /\ project[p].parent = Nowhere /\ project[p].root = p
    BY <1>1, <2>1, <2>2 DEF InTree
  <2>3. CASE /\ project[p].parent \in Project /\ Created(project[p].parent)
             /\ project[p].depth = project[project[p].parent].depth + 1
             /\ project[p].root = project[project[p].parent].root
    <3>1. PICK q \in S : q = project[p].parent
      BY <2>3 DEF Made
    <3>2. q # Nowhere /\ par[p] = q
      BY <1>1, <1>2, <3>1
    <3>3. dep[p] = dep[q] + 1 /\ rt[p] = rt[q]
      BY <1>1, <2>3, <3>1
    <3>4. dep[p] \in 1..ProjectLevels
      BY <1>1, <2>1 DEF InTree
    <3>5. QED
      BY <3>1, <3>2, <3>3, <3>4
  <2>4. QED
    BY <2>1, <2>2, <2>3 DEF InTree
<1>4. QED
  BY <1>2, <1>3 DEF Forest, Closed

\* What PathsMeet says of one path.
Connects(a, b, path, whole) ==
    IF project[a].root # project[b].root THEN path.lca = Nowhere
    ELSE /\ path.lca # Nowhere
         /\ whole[1] = a /\ whole[Len(whole)] = b
         /\ \A i \in 1..(Len(whole) - 1) :
               IF i <= Len(path.up) THEN project[whole[i]].parent = whole[i + 1]
               ELSE project[whole[i + 1]].parent = whole[i]
         /\ \A i, j \in 1..Len(whole) : whole[i] = whole[j] => i = j

\* CommonPath, with the ways up and the levels they share named.
WayBy(sa, sb, m) == [up |-> Upto(sa, sa[m]), lca |-> sa[m], down |-> Backwards(Upto(sb, sa[m]))]

LEMMA CommonPathIs ==
    ASSUME NEW a, NEW b, NEW sa, NEW sb, sa = Upward(a), sb = Upward(b)
    PROVE  CommonPath(a, b) = IF Shared(sa, sb) = {}
                              THEN [up |-> <<>>, lca |-> Nowhere, down |-> <<>>]
                              ELSE WayBy(sa, sb, First(Shared(sa, sb)))
<1>1. CommonPath(a, b) = IF Shared(Upward(a), Upward(b)) = {}
                         THEN [up |-> <<>>, lca |-> Nowhere, down |-> <<>>]
                         ELSE WayBy(Upward(a), Upward(b), First(Shared(Upward(a), Upward(b))))
  BY Zenon DEF CommonPath, Shared, WayBy, First, Backwards
<1>2. QED
  BY <1>1, Zenon

LEMMA PathsFound == IInv => PathsMeet
<1> SUFFICES ASSUME IInv, NEW a \in Made, NEW b \in Made
             PROVE  Connects(a, b, CommonPath(a, b), CommonPath(a, b).up \o <<CommonPath(a, b).lca>>
                                                        \o CommonPath(a, b).down)
  BY Zenon DEF PathsMeet, Connects
<1>1. PICK path, whole : path = CommonPath(a, b) /\ whole = path.up \o <<path.lca>> \o path.down
  OBVIOUS
<1>2. PICK S, par, dep, rt : /\ S = Made /\ par = ParentOf
                             /\ dep = [p \in Project |-> project[p].depth]
                             /\ rt = [p \in Project |-> project[p].root]
  OBVIOUS
<1>3. Forest(S, par, dep, rt)
  BY <1>2, MadeIsForest
<1>4. PICK sa, sb : sa = Upward(a) /\ sb = Upward(b)
  OBVIOUS
<1>5. Rise(sa, a, S, par, dep, rt) /\ Rise(sb, b, S, par, dep, rt)
  BY <1>2, <1>3, <1>4, AscentReachesRoot DEF Upward
<1>6. PICK above : above = Shared(sa, sb)
  OBVIOUS
<1>7. /\ rt[a] = project[a].root /\ rt[b] = project[b].root
      /\ \A p \in S : par[p] = project[p].parent
  BY <1>2 DEF Made, ParentOf
<1>8. CASE project[a].root # project[b].root
  <2>1. above = {}
    <3>1. SUFFICES ASSUME NEW k \in 1..Len(sa), NEW j \in 1..Len(sb), sb[j] = sa[k] PROVE FALSE
      BY <1>6 DEF Shared
    <3>2. rt[sa[k]] = rt[a] /\ rt[sb[j]] = rt[b]
      BY <1>5 DEF Rise
    <3>3. QED
      BY <1>7, <1>8, <3>1, <3>2
  <2>2. path.lca = Nowhere
    <3>1. path = [up |-> <<>>, lca |-> Nowhere, down |-> <<>>]
      BY <1>1, <1>4, <1>6, <2>1, CommonPathIs, Zenon
    <3>2. QED
      BY <3>1
  <2>3. QED
    BY <1>1, <1>8, <2>2, Zenon DEF Connects
<1>9. CASE project[a].root = project[b].root
  <2>1. above # {} /\ \E m, j : m = First(above) /\ MeetAt(sa, sb, m, j)
    BY <1>5, <1>6, <1>7, <1>9, WaysMeet, Zenon
  <2>2. PICK m, j : m = First(above) /\ MeetAt(sa, sb, m, j)
    BY <2>1
  <2>3. PICK up, way : up = Upto(sa, sa[m]) /\ way = Upto(sb, sb[j])
    OBVIOUS
  <2>4. PICK down : down = Backwards(way)
    OBVIOUS
  <2>5. path = [up |-> up, lca |-> sa[m], down |-> down]
    <3>1. path = WayBy(sa, sb, m)
      BY <1>1, <1>4, <1>6, <2>1, <2>2, CommonPathIs, Zenon
    <3>2. way = Upto(sb, sa[m]) /\ down = Backwards(way)
      BY <2>2, <2>3, <2>4, Zenon DEF MeetAt
    <3>3. QED
      BY <2>3, <3>1, <3>2, Zenon DEF WayBy
  <2>6. path.up = up /\ path.lca = sa[m] /\ path.down = down
    BY <2>5
  <2>7. whole = up \o <<sa[m]>> \o down
    BY <1>1, <2>6, Zenon
  <2>8. Over(whole, sa, sb, m, j) /\ Len(up) = m - 1
    <3>1. Crossing(whole, up, sa, sb, m, j)
      BY <1>5, <2>2, <2>3, <2>4, <2>7, WayOver, Zenon
    <3>2. QED
      BY <3>1 DEF Crossing
  <2>9. PICK n : n = Len(whole)
    OBVIOUS
  <2>10. Steps(whole, n, m, a, b, S, par)
    BY <1>5, <2>2, <2>8, <2>9, WayIsStepwise, Zenon
  <2>11. sa[m] \in S /\ Nowhere \notin S
    BY <1>3, <1>5, <2>2 DEF Rise, Forest, Closed, MeetAt
  <2>12. ASSUME NEW i \in 1..(n - 1)
         PROVE  IF i <= Len(path.up) THEN project[whole[i]].parent = whole[i + 1]
                ELSE project[whole[i + 1]].parent = whole[i]
    <3>1. i \in 1..n /\ i + 1 \in 1..n
      BY <2>10 DEF Steps
    <3>2. whole[i] \in S /\ whole[i + 1] \in S
      BY <2>10, <3>1 DEF Steps
    <3>3. /\ par[whole[i]] = project[whole[i]].parent
          /\ par[whole[i + 1]] = project[whole[i + 1]].parent
      BY <1>7, <3>2
    <3>4. Len(path.up) = m - 1
      BY <2>6, <2>8
    <3>5. QED
      BY <2>10, <3>3, <3>4, Zenon DEF Steps
  <2>13. QED
    <3>1. Connects(a, b, path, whole)
      BY <1>9, <2>6, <2>9, <2>10, <2>11, <2>12, Zenon DEF Connects, Steps
    <3>2. QED
      BY <1>1, <3>1, Zenon
<1>10. QED
  BY <1>8, <1>9

\* The path between two projects of one tree is found, for any number of projects and levels, by
\* walks that visit no more nodes than there are levels (Hierarchy.walk, common_path).
THEOREM PathsAreFound == Spec => []PathsMeet
  BY PathsFound, ProjectsInvariant, PTL

-----------------------------------------------------------------------------
(* What the edges of a graph lead to *)

\* A recursion over the naturals that stays in a set has a solution.
Iterates(f, T, x, step, n) ==
    f \in [0..n -> T] /\ \A k \in 0..n : f[k] = IF k = 0 THEN x ELSE step[f[k - 1]]

LEMMA Recursion ==
    ASSUME NEW T, NEW x \in T, NEW step \in [T -> T], NEW n \in Nat
    PROVE  \E f : Iterates(f, T, x, step, n)
<1> DEFINE S == {m \in Nat : \E f \in [0..m -> T] :
                    \A k \in 0..m : f[k] = IF k = 0 THEN x ELSE step[f[k - 1]]}
<1>1. 0 \in S
  <2> DEFINE f == [k \in 0..0 |-> x]
  <2>1. f \in [0..0 -> T] /\ \A k \in 0..0 : f[k] = IF k = 0 THEN x ELSE step[f[k - 1]]
    OBVIOUS
  <2>2. QED
    BY <2>1
<1>2. ASSUME NEW m \in Nat, m \in S PROVE m + 1 \in S
  <2>1. PICK g \in [0..m -> T] : \A k \in 0..m : g[k] = IF k = 0 THEN x ELSE step[g[k - 1]]
    BY <1>2
  <2> DEFINE f == [k \in 0..(m + 1) |-> IF k = m + 1 THEN step[g[m]] ELSE g[k]]
  <2>2. f \in [0..(m + 1) -> T]
    BY <2>1
  <2>3. ASSUME NEW k \in 0..(m + 1) PROVE f[k] = IF k = 0 THEN x ELSE step[f[k - 1]]
    <3>1. CASE k = m + 1
      BY <3>1
    <3>2. CASE k # m + 1
      BY <2>1, <3>2
    <3>3. QED
      BY <3>1, <3>2
  <2>4. QED
    <3> HIDE DEF f
    <3>1. m + 1 \in Nat
      OBVIOUS
    <3>2. QED
      BY <2>2, <2>3, <3>1
<1>3. n \in S
  BY <1>1, <1>2, SetInduction
<1>4. QED
  BY <1>3 DEF Iterates

Size == Cardinality(Node)
Leads(edges, S) == {e.to : e \in {f \in edges : f.from \in S}}

LEMMA SizeIs == Size \in Nat \ {0} /\ IsFiniteSet(Node) /\ Start \in Node /\ Kind[Start] = "start"
<1>1. IsFiniteSet(Node) /\ Start \in Node /\ Kind[Start] = "start"
  BY WorkflowsAssumption
<1>2. QED
  BY <1>1, FS_CardinalityType, FS_EmptySet DEF Size

IsReach(R, edges, seeds, n) ==
    R = [k \in 0..n |-> IF k = 0 THEN seeds ELSE R[k - 1] \cup Leads(edges, R[k - 1])]
Reaching(R, edges, seeds) ==
    /\ R[0] = seeds
    /\ \A k \in Nat : k + 1 <= Size => R[k + 1] = R[k] \cup Leads(edges, R[k])

LEMMA ReachExists ==
    ASSUME NEW edges, \A e \in edges : e.to \in Node, NEW seeds \in SUBSET Node
    PROVE  \E R : IsReach(R, edges, seeds, Size)
<1> DEFINE step == [S \in SUBSET Node |-> S \cup Leads(edges, S)]
<1>1. step \in [SUBSET Node -> SUBSET Node]
  BY DEF Leads
<1> HIDE DEF step
<1>2. Size \in Nat
  BY SizeIs
<1>3. PICK R : Iterates(R, SUBSET Node, seeds, step, Size)
  BY <1>1, <1>2, Recursion
<1>4. /\ R \in [0..Size -> SUBSET Node]
      /\ \A k \in 0..Size : R[k] = IF k = 0 THEN seeds ELSE step[R[k - 1]]
  BY <1>3 DEF Iterates
<1>5. ASSUME NEW k \in 0..Size
      PROVE  R[k] = IF k = 0 THEN seeds ELSE R[k - 1] \cup Leads(edges, R[k - 1])
  <2>1. k # 0 => k - 1 \in 0..Size
    BY SizeIs
  <2>2. QED
    BY <1>4, <2>1 DEF step
<1>6. R = [k \in 0..Size |-> R[k]]
  BY <1>4
<1>7. IsReach(R, edges, seeds, Size)
  BY <1>5, <1>6 DEF IsReach
<1>8. QED
  BY <1>7

LEMMA ReachIs ==
    ASSUME NEW edges, \A e \in edges : e.to \in Node, NEW seeds \in SUBSET Node
    PROVE  \E R : Reaching(R, edges, seeds) /\ Reach(edges, seeds) = R[Size]
<1> DEFINE R == CHOOSE g : IsReach(g, edges, seeds, Size)
<1>1. IsReach(R, edges, seeds, Size)
  BY ReachExists
<1>2. Reach(edges, seeds) = R[Size]
  BY DEF Reach, IsReach, Size, Leads
<1> HIDE DEF R
<1>3. \A k \in 0..Size : R[k] = IF k = 0 THEN seeds ELSE R[k - 1] \cup Leads(edges, R[k - 1])
  BY <1>1 DEF IsReach
<1>4. R[0] = seeds
  <2>1. 0 \in 0..Size
    BY SizeIs
  <2>2. QED
    BY <1>3, <2>1
<1>5. ASSUME NEW k \in Nat, k + 1 <= Size PROVE R[k + 1] = R[k] \cup Leads(edges, R[k])
  <2>1. k + 1 \in 0..Size /\ k + 1 # 0 /\ (k + 1) - 1 = k
    BY <1>5, SizeIs
  <2>2. QED
    BY <1>3, <2>1
<1>6. QED
  BY <1>2, <1>4, <1>5 DEF Reaching

\* The least set that has the seeds and all that the edges lead to.
IsClosure(C, edges, seeds) ==
    /\ seeds \subseteq C /\ Leads(edges, C) \subseteq C
    /\ \A S : seeds \subseteq S /\ Leads(edges, S) \subseteq S => C \subseteq S

LEMMA ReachIsClosure ==
    ASSUME NEW edges, \A e \in edges : e.to \in Node, NEW seeds \in SUBSET Node
    PROVE  IsClosure(Reach(edges, seeds), edges, seeds) /\ Reach(edges, seeds) \subseteq Node
<1>1. PICK R : Reaching(R, edges, seeds) /\ Reach(edges, seeds) = R[Size]
  BY ReachIs
<1>2. R[0] = seeds /\ \A k \in Nat : k + 1 <= Size => R[k + 1] = R[k] \cup Leads(edges, R[k])
  BY <1>1 DEF Reaching
<1>3. ASSUME NEW S, seeds \subseteq S, Leads(edges, S) \subseteq S
      PROVE  R[Size] \subseteq S
  <2> DEFINE T == {k \in Nat : k <= Size => R[k] \subseteq S}
  <2>1. 0 \in T
    BY <1>2, <1>3
  <2>2. ASSUME NEW k \in Nat, k \in T PROVE k + 1 \in T
    <3>1. SUFFICES ASSUME k + 1 <= Size PROVE R[k + 1] \subseteq S
      OBVIOUS
    <3>2. k <= Size /\ R[k] \subseteq S
      BY <2>2, <3>1, SizeIs
    <3>3. Leads(edges, R[k]) \subseteq Leads(edges, S)
      BY <3>2 DEF Leads
    <3>4. QED
      BY <1>2, <1>3, <3>1, <3>2, <3>3
  <2>3. Size \in T
    BY <2>1, <2>2, SetInduction, SizeIs
  <2>4. QED
    BY <2>3, SizeIs
<1>4. Leads(edges, Node) \subseteq Node
  BY DEF Leads
<1>5. R[Size] \subseteq Node
  BY <1>3, <1>4
<1>6. \A k \in Nat : k <= Size => seeds \subseteq R[k] /\ R[k] \in SUBSET Node
  <2> DEFINE T == {k \in Nat : k <= Size => seeds \subseteq R[k] /\ R[k] \in SUBSET Node}
  <2>1. 0 \in T
    BY <1>2
  <2>2. ASSUME NEW k \in Nat, k \in T PROVE k + 1 \in T
    <3>1. SUFFICES ASSUME k + 1 <= Size PROVE seeds \subseteq R[k + 1] /\ R[k + 1] \in SUBSET Node
      OBVIOUS
    <3>2. k <= Size /\ seeds \subseteq R[k] /\ R[k] \in SUBSET Node
      BY <2>2, <3>1, SizeIs
    <3>3. Leads(edges, R[k]) \subseteq Node
      BY DEF Leads
    <3>4. QED
      BY <1>2, <3>1, <3>2, <3>3
  <2>3. Nat \subseteq T
    BY <2>1, <2>2, SetInduction
  <2>4. QED
    BY <2>3
\* Every round adds a node until one adds none.
<1>7. Leads(edges, R[Size]) \subseteq R[Size]
  <2> DEFINE T == {k \in Nat : k <= Size => \/ Leads(edges, R[k]) \subseteq R[k]
                                            \/ Cardinality(R[k]) >= k}
  <2>1. 0 \in T
    <3>1. IsFiniteSet(R[0])
      BY <1>2, SizeIs, FS_Subset
    <3>2. Cardinality(R[0]) \in Nat
      BY <3>1, FS_CardinalityType
    <3>3. QED
      BY <3>2
  <2>2. ASSUME NEW k \in Nat, k \in T PROVE k + 1 \in T
    <3>1. SUFFICES ASSUME k + 1 <= Size
                   PROVE  \/ Leads(edges, R[k + 1]) \subseteq R[k + 1]
                          \/ Cardinality(R[k + 1]) >= k + 1
      OBVIOUS
    <3>2. k <= Size /\ R[k + 1] = R[k] \cup Leads(edges, R[k])
      BY <1>2, <3>1, SizeIs
    <3>3. CASE Leads(edges, R[k]) \subseteq R[k]
      <4>1. R[k + 1] = R[k]
        BY <3>2, <3>3
      <4>2. QED
        BY <3>3, <4>1
    <3>4. CASE ~(Leads(edges, R[k]) \subseteq R[k])
      <4>1. Cardinality(R[k]) >= k
        BY <2>2, <3>2, <3>4
      <4>2. R[k] \subseteq R[k + 1] /\ R[k] # R[k + 1]
        BY <3>2, <3>4
      <4>3. IsFiniteSet(R[k + 1])
        BY <1>6, <3>1, SizeIs, FS_Subset
      <4>4. Cardinality(R[k]) \in Nat /\ Cardinality(R[k + 1]) \in Nat
        BY <4>2, <4>3, FS_Subset, FS_CardinalityType
      <4>5. Cardinality(R[k]) < Cardinality(R[k + 1])
        <5>1. Cardinality(R[k]) <= Cardinality(R[k + 1])
          BY <4>2, <4>3, FS_Subset
        <5>2. Cardinality(R[k]) # Cardinality(R[k + 1])
          BY <4>2, <4>3, FS_Subset
        <5>3. QED
          BY <4>4, <5>1, <5>2
      <4>6. QED
        BY <4>1, <4>4, <4>5
    <3>5. QED
      BY <3>3, <3>4
  <2>3. Size \in T
    BY <2>1, <2>2, SetInduction, SizeIs
  <2>4. \/ Leads(edges, R[Size]) \subseteq R[Size]
        \/ Cardinality(R[Size]) >= Size
    BY <2>3, SizeIs
  <2>5. CASE Cardinality(R[Size]) >= Size
    <3>1. R[Size] = Node
      <4>1. Cardinality(R[Size]) \in Nat /\ Cardinality(R[Size]) <= Size
        BY <1>5, SizeIs, FS_Subset, FS_CardinalityType DEF Size
      <4>2. Cardinality(R[Size]) = Cardinality(Node)
        BY <2>5, <4>1, SizeIs DEF Size
      <4>3. QED
        BY <1>5, <4>2, SizeIs, FS_Subset
    <3>2. QED
      BY <1>4, <3>1
  <2>6. QED
    BY <2>4, <2>5
<1>8. seeds \subseteq R[Size]
  BY <1>6, SizeIs
<1>9. IsClosure(R[Size], edges, seeds)
  BY <1>3, <1>7, <1>8 DEF IsClosure
<1>10. QED
  BY <1>1, <1>5, <1>9

\* Both directions of the edges of a well-formed graph.
LEMMA WithinNodes ==
    ASSUME NEW g, WellFormed(g), NEW n
    PROVE  /\ Next1(g, n) \subseteq g.nodes /\ Next1(g, n) \in SUBSET Node
           /\ g.nodes \subseteq Node /\ Start \in g.nodes
           /\ \A e \in g.edges : e.to \in Node
  BY DEF WellFormed, Next1

Beyond(g, n) == Reach(g.edges, Next1(g, n))
Rank(g, n) == Cardinality(Beyond(g, n))
Acyclic(g) == WellFormed(g) /\ ~Cyclic(g)

LEMMA BeyondIs ==
    ASSUME NEW g, WellFormed(g), NEW n
    PROVE  IsClosure(Beyond(g, n), g.edges, Next1(g, n)) /\ Beyond(g, n) \subseteq Node
  BY WithinNodes, ReachIsClosure DEF Beyond

\* What is beyond a node that is beyond another is beyond that other.
LEMMA BeyondBeyond ==
    ASSUME NEW g, WellFormed(g), NEW n, NEW c \in Beyond(g, n)
    PROVE  Beyond(g, c) \subseteq Beyond(g, n)
<1>1. IsClosure(Beyond(g, n), g.edges, Next1(g, n)) /\ IsClosure(Beyond(g, c), g.edges, Next1(g, c))
  BY BeyondIs
<1>2. Leads(g.edges, Beyond(g, n)) \subseteq Beyond(g, n)
  BY <1>1 DEF IsClosure
<1>3. Next1(g, c) \subseteq Leads(g.edges, Beyond(g, n))
  BY DEF Next1, Leads
<1>4. Next1(g, c) \subseteq Beyond(g, n)
  BY <1>2, <1>3
<1>5. QED
  BY <1>1, <1>2, <1>4 DEF IsClosure

\* Along an edge of a graph without cycles fewer nodes lie ahead.
LEMMA RanksFall ==
    ASSUME NEW g, Acyclic(g), NEW n, NEW c \in Next1(g, n)
    PROVE  /\ c \in Beyond(g, n) /\ Beyond(g, c) \subseteq Beyond(g, n)
           /\ c \in g.nodes
           /\ Rank(g, c) \in Nat /\ Rank(g, n) \in Nat /\ Rank(g, c) < Rank(g, n)
<1>1. WellFormed(g) /\ c \in g.nodes
  BY WithinNodes DEF Acyclic
<1>2. IsClosure(Beyond(g, n), g.edges, Next1(g, n)) /\ Beyond(g, n) \subseteq Node
  BY <1>1, BeyondIs
<1>3. c \in Beyond(g, n)
  BY <1>2 DEF IsClosure
<1>4. Beyond(g, c) \subseteq Beyond(g, n)
  BY <1>1, <1>3, BeyondBeyond
<1>5. c \notin Beyond(g, c)
  BY <1>1 DEF Acyclic, Cyclic, Beyond
<1>6. IsFiniteSet(Beyond(g, n))
  BY <1>2, SizeIs, FS_Subset
<1>7. Rank(g, c) \in Nat /\ Rank(g, n) \in Nat
  BY <1>4, <1>6, FS_Subset, FS_CardinalityType DEF Rank
<1>8. Rank(g, c) <= Rank(g, n)
  BY <1>4, <1>6, FS_Subset DEF Rank
<1>9. Rank(g, c) # Rank(g, n)
  <2>1. Beyond(g, n) # Beyond(g, c)
    BY <1>3, <1>5
  <2>2. QED
    BY <2>1, <1>4, <1>6, FS_Subset DEF Rank
<1>10. QED
  BY <1>1, <1>3, <1>4, <1>7, <1>8, <1>9

LEMMA RankBounded ==
    ASSUME NEW g, WellFormed(g), NEW n
    PROVE  Rank(g, n) \in 0..Size
<1>1. Beyond(g, n) \subseteq Node
  BY BeyondIs
<1>2. IsFiniteSet(Beyond(g, n)) /\ Cardinality(Beyond(g, n)) <= Size
  BY <1>1, SizeIs, FS_Subset DEF Size
<1>3. Cardinality(Beyond(g, n)) \in Nat
  BY <1>2, FS_CardinalityType
<1>4. QED
  BY <1>2, <1>3, SizeIs DEF Rank

-----------------------------------------------------------------------------
(* The most approvals on a way *)

LEMMA LongestIs ==
    ASSUME NEW b \in Nat, NEW ways \in SUBSET (0..b)
    PROVE  Longest(ways) \in 0..b /\ \A y \in ways : y <= Longest(ways)
<1>1. CASE ways = {}
  BY <1>1 DEF Longest
<1>2. CASE ways # {}
  <2> DEFINE T == {k \in Nat : \A y \in ways : y <= k}
  <2>1. b \in T /\ T \in SUBSET Nat
    OBVIOUS
  <2>2. PICK x \in T : \A y \in T : x <= y
    BY <2>1, LeastNat
  <2>3. \A y \in ways : y <= x
    BY <2>2
  <2>4. x \in ways
    <3>1. SUFFICES ASSUME x \notin ways PROVE FALSE
      OBVIOUS
    <3>2. \A y \in ways : y < x
      BY <2>2, <2>3, <3>1
    <3>3. x # 0
      <4>1. PICK y : y \in ways
        BY <1>2
      <4>2. y \in Nat /\ y < x
        BY <3>2, <4>1
      <4>3. QED
        BY <4>2
    <3>4. x - 1 \in T
      BY <2>2, <3>2, <3>3
    <3>5. QED
      BY <2>2, <3>4
  <2>5. \E y \in ways : \A z \in ways : z <= y
    BY <2>3, <2>4
  <2>6. PICK y : y = CHOOSE v \in ways : \A z \in ways : z <= v
    OBVIOUS
  <2>7. y \in ways /\ \A z \in ways : z <= y
    BY <2>5, <2>6
  <2>8. Longest(ways) = y
    BY <1>2, <2>6 DEF Longest
  <2>9. QED
    BY <2>7, <2>8
<1>3. QED
  BY <1>1, <1>2

Own(n) == IF Kind[n] = "approval" THEN 1 ELSE 0
Onward(g, n) == Next1(g, n) \cap Finishes(g)
\* One more round of the longest ways.
Longer(g, f) == [m \in Node |-> Own(m) + Longest({f[c] : c \in Onward(g, m)})]
Alone == [m \in Node |-> Own(m) + Longest({})]

IsDepth(D, g) ==
    D = [k \in 0..Size |->
           [m \in Node |->
               Own(m) + Longest(IF k = 0 THEN {} ELSE {D[k - 1][c] : c \in Onward(g, m)})]]

LEMMA DepthExists ==
    ASSUME NEW g, WellFormed(g)
    PROVE  \E D : IsDepth(D, g)
<1> DEFINE T == [Node -> Nat]
           Sound(f) == \E b \in Nat : \A m \in Node : f[m] <= b
           U == {f \in T : Sound(f)}
           step == [f \in U |-> Longer(g, f)]
<1>1. Alone \in U
  <2>1. Longest({}) = 0
    BY DEF Longest
  <2>2. QED
    BY <2>1 DEF Alone, Own
<1>2. ASSUME NEW f \in U PROVE Longer(g, f) \in U
  <2>1. PICK b \in Nat : \A m \in Node : f[m] <= b
    BY <1>2
  <2>2. ASSUME NEW m \in Node
        PROVE  Longest({f[c] : c \in Onward(g, m)}) \in 0..b
    <3>1. Onward(g, m) \subseteq Node
      BY WithinNodes DEF Onward
    <3>2. {f[c] : c \in Onward(g, m)} \in SUBSET (0..b)
      BY <2>1, <3>1
    <3>3. QED
      BY <3>2, LongestIs
  <2>3. \A m \in Node : Longer(g, f)[m] \in 0..(b + 1)
    BY <2>2 DEF Longer, Own
  <2>4. Longer(g, f) \in T
    BY <2>3 DEF Longer
  <2>5. b + 1 \in Nat
    BY <2>1
  <2>6. QED
    BY <2>3, <2>4, <2>5
<1> HIDE DEF U
<1>3. step \in [U -> U]
  BY <1>2
<1> HIDE DEF step
<1>4. Size \in Nat
  BY SizeIs
<1>5. PICK D : Iterates(D, U, Alone, step, Size)
  BY <1>1, <1>3, <1>4, Recursion
<1>6. D \in [0..Size -> U] /\ \A k \in 0..Size : D[k] = IF k = 0 THEN Alone ELSE step[D[k - 1]]
  BY <1>5 DEF Iterates
<1>7. ASSUME NEW k \in 0..Size
      PROVE  D[k] = [m \in Node |-> Own(m) + Longest(IF k = 0 THEN {}
                                                     ELSE {D[k - 1][c] : c \in Onward(g, m)})]
  <2>1. CASE k = 0
    BY <1>6, <2>1 DEF Alone
  <2>2. CASE k # 0
    <3>1. D[k - 1] \in U
      BY <1>4, <1>6, <2>2
    <3>2. D[k] = Longer(g, D[k - 1])
      BY <1>6, <2>2, <3>1 DEF step
    <3>3. QED
      BY <2>2, <3>2 DEF Longer
  <2>3. QED
    BY <2>1, <2>2
<1>8. D = [k \in 0..Size |-> D[k]]
  BY <1>6
<1>9. IsDepth(D, g)
  BY <1>7, <1>8 DEF IsDepth
<1>10. QED
  BY <1>9

\* How the longest ways of so many edges are counted.
Counting(D, g) ==
    /\ D[0] = Alone
    /\ \A k \in Nat : k + 1 <= Size => D[k + 1] = Longer(g, D[k])

LEMMA DepthIs ==
    ASSUME NEW g, WellFormed(g)
    PROVE  \E D : Counting(D, g) /\ \A n : Depth(g, n) = D[Size][n]
<1> DEFINE D == CHOOSE f : IsDepth(f, g)
<1>1. IsDepth(D, g)
  BY DepthExists
<1>2. \A n : Depth(g, n) = D[Size][n]
  BY DEF Depth, IsDepth, Size, Own, Onward
<1> HIDE DEF D
<1>3. \A k \in 0..Size : D[k] =
        [m \in Node |-> Own(m) + Longest(IF k = 0 THEN {} ELSE {D[k - 1][c] : c \in Onward(g, m)})]
  BY <1>1 DEF IsDepth
<1>4. D[0] = Alone
  <2>1. 0 \in 0..Size
    BY SizeIs
  <2>2. QED
    BY <1>3, <2>1 DEF Alone
<1>5. ASSUME NEW k \in Nat, k + 1 <= Size PROVE D[k + 1] = Longer(g, D[k])
  <2>1. k + 1 \in 0..Size /\ k + 1 # 0 /\ (k + 1) - 1 = k
    BY <1>5, SizeIs
  <2>2. D[k + 1] = [m \in Node |-> Own(m) + Longest(IF k + 1 = 0 THEN {}
                                      ELSE {D[(k + 1) - 1][c] : c \in Onward(g, m)})]
    BY <1>3, <2>1
  <2>3. QED
    BY <2>1, <2>2 DEF Longer
<1>6. QED
  BY <1>2, <1>4, <1>5 DEF Counting

\* A way of k edges has at most k + 1 approvals.
LEMMA CountsBounded ==
    ASSUME NEW g, WellFormed(g), NEW D, Counting(D, g), NEW k \in Nat, k <= Size
    PROVE  \A m \in Node : D[k][m] \in 0..(k + 1)
<1> DEFINE T == {j \in Nat : j <= Size => \A m \in Node : D[j][m] \in 0..(j + 1)}
<1>1. 0 \in T
  <2>1. D[0] = Alone /\ Longest({}) = 0
    BY DEF Counting, Longest
  <2>2. QED
    BY <2>1 DEF Alone, Own
<1>2. ASSUME NEW j \in Nat, j \in T PROVE j + 1 \in T
  <2>1. SUFFICES ASSUME j + 1 <= Size, NEW m \in Node PROVE D[j + 1][m] \in 0..(j + 2)
    OBVIOUS
  <2>2. \A c \in Node : D[j][c] \in 0..(j + 1)
    BY <1>2, <2>1, SizeIs
  <2>3. Onward(g, m) \subseteq Node
    BY WithinNodes DEF Onward
  <2>4. {D[j][c] : c \in Onward(g, m)} \in SUBSET (0..(j + 1))
    BY <2>2, <2>3
  <2>5. Longest({D[j][c] : c \in Onward(g, m)}) \in 0..(j + 1)
    <3>1. j + 1 \in Nat
      OBVIOUS
    <3>2. QED
      BY <2>4, <3>1, LongestIs
  <2>6. D[j + 1] = Longer(g, D[j])
    BY <2>1 DEF Counting
  <2>7. D[j + 1][m] = Own(m) + Longest({D[j][c] : c \in Onward(g, m)})
    BY <2>6 DEF Longer
  <2>8. QED
    BY <2>5, <2>7 DEF Own
<1>3. k \in T
  BY <1>1, <1>2, SetInduction
<1>4. QED
  BY <1>3

\* With as many edges as there are nodes ahead, the longest way is counted in full.
LEMMA CountsSettle ==
    ASSUME NEW g, Acyclic(g), NEW D, Counting(D, g), NEW k \in Nat, k + 1 <= Size
    PROVE  \A m \in Node : Rank(g, m) <= k => D[k + 1][m] = D[k][m]
<1> DEFINE T == {j \in Nat : j + 1 <= Size =>
                    \A m \in Node : Rank(g, m) <= j => D[j + 1][m] = D[j][m]}
<1>1. WellFormed(g)
  BY DEF Acyclic
<1>2. 0 \in T
  <2>1. SUFFICES ASSUME NEW m \in Node, Rank(g, m) <= 0, 0 + 1 <= Size PROVE D[0 + 1][m] = D[0][m]
    OBVIOUS
  <2>2. Next1(g, m) = {}
    <3>1. ASSUME NEW c \in Next1(g, m) PROVE FALSE
      BY <2>1, RanksFall
    <3>2. QED
      BY <3>1
  <2>3. {D[0][c] : c \in Onward(g, m)} = {}
    BY <2>2 DEF Onward
  <2>4. D[0] = Alone /\ D[0 + 1] = Longer(g, D[0])
    BY <2>1 DEF Counting
  <2>5. QED
    BY <2>3, <2>4 DEF Alone, Longer
<1>3. ASSUME NEW j \in Nat, j \in T PROVE j + 1 \in T
  <2>1. SUFFICES ASSUME (j + 1) + 1 <= Size, NEW m \in Node, Rank(g, m) <= j + 1
                 PROVE  D[(j + 1) + 1][m] = D[j + 1][m]
    OBVIOUS
  <2>2. j + 1 <= Size
    BY <2>1, SizeIs
  <2>3. ASSUME NEW c \in Onward(g, m) PROVE D[j + 1][c] = D[j][c]
    <3>1. c \in Next1(g, m) /\ c \in Node
      BY <1>1, WithinNodes DEF Onward
    <3>2. Rank(g, c) \in Nat /\ Rank(g, m) \in Nat /\ Rank(g, c) < Rank(g, m)
      BY <3>1, RanksFall
    <3>3. Rank(g, c) <= j
      BY <2>1, <3>2
    <3>4. QED
      BY <1>3, <2>2, <3>1, <3>3
  <2>4. {D[j + 1][c] : c \in Onward(g, m)} = {D[j][c] : c \in Onward(g, m)}
    BY <2>3
  <2>5. D[(j + 1) + 1] = Longer(g, D[j + 1]) /\ D[j + 1] = Longer(g, D[j])
    BY <2>1, <2>2 DEF Counting
  <2>6. QED
    BY <2>4, <2>5 DEF Longer
<1>4. k \in T
  BY <1>2, <1>3, SetInduction
<1>5. QED
  BY <1>4

\* On along an edge towards an end, no more approvals are ahead than were left.
LEMMA DepthFalls ==
    ASSUME NEW g, Acyclic(g), NEW n \in Node, NEW c \in Onward(g, n)
    PROVE  Depth(g, n) \in Nat /\ Depth(g, c) \in Nat /\ Own(n) + Depth(g, c) <= Depth(g, n)
<1>1. WellFormed(g)
  BY DEF Acyclic
<1>2. PICK D : Counting(D, g) /\ \A m : Depth(g, m) = D[Size][m]
  BY <1>1, DepthIs
<1>3. PICK k \in Nat : Size = k + 1
  <2>1. Size - 1 \in Nat /\ Size = (Size - 1) + 1
    BY SizeIs
  <2>2. QED
    BY <2>1
<1>4. c \in Next1(g, n) /\ c \in Node /\ Onward(g, n) \subseteq Node
  BY <1>1, WithinNodes DEF Onward
<1>5. Rank(g, c) <= k
  <2>1. Rank(g, c) \in Nat /\ Rank(g, n) \in Nat /\ Rank(g, c) < Rank(g, n)
    BY <1>4, RanksFall
  <2>2. Rank(g, n) <= Size
    BY <1>1, RankBounded
  <2>3. QED
    BY <1>3, <2>1, <2>2
<1>6. D[Size][c] = D[k][c]
  BY <1>2, <1>3, <1>4, <1>5, CountsSettle
<1>7. \A m \in Node : D[k][m] \in 0..(k + 1) /\ D[Size][m] \in 0..(Size + 1)
  BY <1>1, <1>2, <1>3, CountsBounded
<1>8. {D[k][m] : m \in Onward(g, n)} \in SUBSET (0..(k + 1))
  BY <1>4, <1>7
<1>9. D[k][c] <= Longest({D[k][m] : m \in Onward(g, n)})
      /\ Longest({D[k][m] : m \in Onward(g, n)}) \in 0..(k + 1)
  <2>1. k + 1 \in Nat
    BY <1>3
  <2>2. D[k][c] \in {D[k][m] : m \in Onward(g, n)}
    OBVIOUS
  <2>3. QED
    BY <1>8, <2>1, <2>2, LongestIs
<1>10. D[Size][n] = Own(n) + Longest({D[k][m] : m \in Onward(g, n)})
  <2>1. D[Size] = Longer(g, D[k])
    BY <1>2, <1>3 DEF Counting
  <2>2. QED
    BY <2>1 DEF Longer
<1>11. Depth(g, n) = D[Size][n] /\ Depth(g, c) = D[Size][c]
  BY <1>2
<1>12. D[Size][n] \in Nat /\ D[Size][c] \in Nat
  BY <1>3, <1>4, <1>7
<1>13. QED
  BY <1>4, <1>6, <1>7, <1>9, <1>10, <1>11, <1>12 DEF Own

\* Every node counts, with itself if it is an approval.
LEMMA DepthCounts ==
    ASSUME NEW g, WellFormed(g), NEW n \in Node
    PROVE  Depth(g, n) \in Nat /\ Own(n) <= Depth(g, n)
<1>1. PICK D : Counting(D, g) /\ \A m : Depth(g, m) = D[Size][m]
  BY DepthIs
<1>2. PICK k \in Nat : Size = k + 1
  <2>1. Size - 1 \in Nat /\ Size = (Size - 1) + 1
    BY SizeIs
  <2>2. QED
    BY <2>1
<1>3. \A m \in Node : D[k][m] \in 0..(k + 1)
  BY <1>1, <1>2, CountsBounded
<1>4. {D[k][m] : m \in Onward(g, n)} \in SUBSET (0..(k + 1))
  BY <1>3, WithinNodes DEF Onward
<1>5. Longest({D[k][m] : m \in Onward(g, n)}) \in 0..(k + 1)
  <2>1. k + 1 \in Nat
    BY <1>2
  <2>2. QED
    BY <1>4, <2>1, LongestIs
<1>6. D[Size][n] = Own(n) + Longest({D[k][m] : m \in Onward(g, n)})
  <2>1. D[Size] = Longer(g, D[k])
    BY <1>1, <1>2 DEF Counting
  <2>2. QED
    BY <2>1 DEF Longer
<1>7. QED
  BY <1>1, <1>5, <1>6 DEF Own

-----------------------------------------------------------------------------
(* The walk through a published graph *)

\* What publication has checked of a graph.
Sound(g) == Acyclic(g) /\ BadEdges(g) = {} /\ Astray(g) = {}

LEMMA SoundNode ==
    ASSUME NEW g, Sound(g), NEW n \in g.nodes
    PROVE  /\ WellFormed(g) /\ Acyclic(g) /\ n \in Node
           /\ n \in Reached(g) /\ Onward(g, n) = Next1(g, n)
           /\ Kind[n] # "end" => Next1(g, n) # {}
           /\ Kind[n] = "condition" => Defaults(g, n) # {}
<1>1. WellFormed(g) /\ Acyclic(g) /\ n \in Node
  BY WithinNodes DEF Sound, Acyclic
<1>2. n \notin Astray(g) /\ n \notin BadEdges(g)
  BY DEF Sound
<1>3. n \in Reached(g) /\ n \in Finishes(g) /\ (Kind[n] # "end" => Next1(g, n) # {})
  BY <1>2 DEF Astray
<1>4. \A c \in Next1(g, n) : c \in g.nodes /\ c \notin Astray(g)
  BY <1>1, WithinNodes DEF Sound
<1>5. \A c \in Next1(g, n) : c \in Finishes(g)
  BY <1>4 DEF Astray
<1>6. Onward(g, n) = Next1(g, n)
  BY <1>5 DEF Onward
<1>7. ASSUME Kind[n] = "condition" PROVE Defaults(g, n) # {}
  <2>1. Cardinality(Defaults(g, n)) = 1
    BY <1>2, <1>7 DEF BadEdges
  <2>2. QED
    BY <2>1, FS_EmptySet
<1>8. QED
  BY <1>1, <1>3, <1>6, <1>7

\* Nothing leads back to the start.
LEMMA StartFirst ==
    ASSUME NEW g, Sound(g), NEW n \in g.nodes, NEW x \in Beyond(g, n)
    PROVE  x # Start
<1>1. WellFormed(g) /\ Acyclic(g) /\ n \in Reached(g)
  BY SoundNode
<1>2. SUFFICES ASSUME Start \in Beyond(g, n) PROVE Start \in Beyond(g, Start)
  BY <1>1, WithinNodes DEF Acyclic, Cyclic, Beyond
<1>3. IsClosure(Beyond(g, Start), g.edges, Next1(g, Start))
  BY <1>1, BeyondIs
<1>4. n \in {Start} \cup Beyond(g, Start)
  <2> DEFINE C == {Start} \cup Beyond(g, Start)
  <2>1. {Start} \in SUBSET Node /\ \A e \in g.edges : e.to \in Node
    BY <1>1, SizeIs, WithinNodes
  <2>2. IsClosure(Reached(g), g.edges, {Start})
    BY <2>1, ReachIsClosure DEF Reached
  <2>3. Leads(g.edges, C) \subseteq C
    <3>1. Leads(g.edges, C) = Next1(g, Start) \cup Leads(g.edges, Beyond(g, Start))
      BY DEF Leads, Next1
    <3>2. QED
      BY <1>3, <3>1 DEF IsClosure
  <2>4. {Start} \subseteq C
    OBVIOUS
  <2>5. Reached(g) \subseteq C
    BY <2>2, <2>3, <2>4 DEF IsClosure
  <2>6. QED
    BY <1>1, <2>5
<1>5. CASE n = Start
  BY <1>2, <1>5
<1>6. CASE n \in Beyond(g, Start)
  BY <1>1, <1>2, <1>6, BeyondBeyond
<1>7. QED
  BY <1>4, <1>5, <1>6

\* One more round: conditions are left, the others stay.
MoveOn(g, S) == UNION {IF Kind[n] = "condition" THEN Taken(g, n) ELSE {n} : n \in S}
IsRounds(W, g, from) ==
    W = [k \in 0..Size |-> IF k = 0 THEN Taken(g, from) ELSE MoveOn(g, W[k - 1])]
Rounds(W, g, from) ==
    /\ W[0] = Taken(g, from)
    /\ \A k \in Nat : k + 1 <= Size => W[k + 1] = MoveOn(g, W[k])
Stuck(W, g, from, met) ==
    \/ Halts(g, from) \/ \E n \in met : Kind[n] = "condition" /\ Halts(g, n)
    \/ \E n \in W[Size] : Kind[n] = "condition"
Ends(W, g, from, met) ==
    {n \in met : Kind[n] # "condition"} \cup IF Stuck(W, g, from, met) THEN {Nowhere} ELSE {}

LEMMA TakenIs == ASSUME NEW g, NEW n PROVE Taken(g, n) \subseteq Next1(g, n)
  BY DEF Taken, Next1

LEMMA RoundsExist ==
    ASSUME NEW g, WellFormed(g), NEW from
    PROVE  \E W : IsRounds(W, g, from)
<1> DEFINE step == [S \in SUBSET Node |-> MoveOn(g, S)]
<1>1. step \in [SUBSET Node -> SUBSET Node]
  <2>1. ASSUME NEW S \in SUBSET Node PROVE MoveOn(g, S) \in SUBSET Node
    <3>1. \A n \in S : (IF Kind[n] = "condition" THEN Taken(g, n) ELSE {n}) \in SUBSET Node
      BY TakenIs, WithinNodes
    <3>2. QED
      BY <3>1 DEF MoveOn
  <2>2. QED
    BY <2>1
<1>2. Size \in Nat /\ Taken(g, from) \in SUBSET Node
  BY SizeIs, TakenIs, WithinNodes
<1> HIDE DEF step
<1>3. PICK W : Iterates(W, SUBSET Node, Taken(g, from), step, Size)
  BY <1>1, <1>2, Recursion
<1>4. /\ W \in [0..Size -> SUBSET Node]
      /\ \A k \in 0..Size : W[k] = IF k = 0 THEN Taken(g, from) ELSE step[W[k - 1]]
  BY <1>3 DEF Iterates
<1>5. ASSUME NEW k \in 0..Size PROVE W[k] = IF k = 0 THEN Taken(g, from) ELSE MoveOn(g, W[k - 1])
  <2>1. k # 0 => W[k - 1] \in SUBSET Node
    BY <1>2, <1>4
  <2>2. QED
    BY <1>4, <2>1 DEF step
<1>6. W = [k \in 0..Size |-> W[k]]
  BY <1>4
<1>7. IsRounds(W, g, from)
  BY <1>5, <1>6 DEF IsRounds
<1>8. QED
  BY <1>7

LEMMA WalkIs ==
    ASSUME NEW g, WellFormed(g), NEW from
    PROVE  \E W : /\ Rounds(W, g, from)
                  /\ Walk(g, from) = Ends(W, g, from, UNION {W[k] : k \in 0..Size})
<1> DEFINE W == CHOOSE f : IsRounds(f, g, from)
<1>1. IsRounds(W, g, from)
  BY RoundsExist
<1>2. Walk(g, from) = Ends(W, g, from, UNION {W[k] : k \in DOMAIN W})
  BY DEF Walk, Ends, Stuck, IsRounds, MoveOn, Size
<1> HIDE DEF W
<1>3. DOMAIN W = 0..Size
      /\ \A k \in 0..Size : W[k] = IF k = 0 THEN Taken(g, from) ELSE MoveOn(g, W[k - 1])
  BY <1>1 DEF IsRounds
<1>4. W[0] = Taken(g, from)
  <2>1. 0 \in 0..Size
    BY SizeIs
  <2>2. QED
    BY <1>3, <2>1
<1>5. ASSUME NEW k \in Nat, k + 1 <= Size PROVE W[k + 1] = MoveOn(g, W[k])
  <2>1. k + 1 \in 0..Size /\ k + 1 # 0 /\ (k + 1) - 1 = k
    BY <1>5, SizeIs
  <2>2. QED
    BY <1>3, <2>1
<1>6. QED
  BY <1>2, <1>3, <1>4, <1>5 DEF Rounds

\* What a walk from a step meets: it has fewer nodes ahead and no more approvals than were left.
Ahead(g, from, x, k) ==
    /\ x \in g.nodes /\ x \in Beyond(g, from)
    /\ Own(from) + Depth(g, x) <= Depth(g, from)
    /\ Kind[x] = "condition" => Rank(g, x) + k < Rank(g, from)

LEMMA StepAhead ==
    ASSUME NEW g, Sound(g), NEW from \in g.nodes, NEW x \in Next1(g, from)
    PROVE  Ahead(g, from, x, 0)
<1>1. Acyclic(g) /\ WellFormed(g) /\ from \in Node /\ Onward(g, from) = Next1(g, from)
  BY SoundNode
<1>2. /\ x \in Beyond(g, from) /\ x \in g.nodes
      /\ Rank(g, x) \in Nat /\ Rank(g, x) < Rank(g, from)
  BY <1>1, RanksFall
<1>3. Own(from) + Depth(g, x) <= Depth(g, from)
  BY <1>1, DepthFalls
<1>4. Rank(g, x) + 0 < Rank(g, from)
  BY <1>2
<1>5. QED
  BY <1>2, <1>3, <1>4 DEF Ahead

LEMMA ConditionAhead ==
    ASSUME NEW g, Sound(g), NEW from \in g.nodes, NEW k \in Nat, NEW n, Ahead(g, from, n, k),
           Kind[n] = "condition", NEW x \in Next1(g, n)
    PROVE  Ahead(g, from, x, k + 1)
<1>1. n \in g.nodes /\ n \in Beyond(g, from) /\ Rank(g, n) + k < Rank(g, from)
      /\ Own(from) + Depth(g, n) <= Depth(g, from)
  BY DEF Ahead
<1>2. Acyclic(g) /\ WellFormed(g) /\ from \in Node /\ n \in Node /\ Onward(g, n) = Next1(g, n)
  BY <1>1, SoundNode
<1>3. /\ x \in Beyond(g, n) /\ x \in g.nodes
      /\ Rank(g, x) \in Nat /\ Rank(g, n) \in Nat /\ Rank(g, x) < Rank(g, n)
  BY <1>2, RanksFall
<1>4. x \in Beyond(g, from)
  BY <1>1, <1>2, <1>3, BeyondBeyond
<1>5. Depth(g, n) \in Nat /\ Depth(g, x) \in Nat /\ Own(n) + Depth(g, x) <= Depth(g, n)
  BY <1>2, DepthFalls
<1>6. Depth(g, from) \in Nat
  BY <1>2, DepthCounts
<1>7. Own(from) + Depth(g, x) <= Depth(g, from)
  BY <1>1, <1>5, <1>6 DEF Own
<1>8. Rank(g, from) \in Nat
  BY <1>2, RankBounded, SizeIs
<1>9. Rank(g, x) + (k + 1) < Rank(g, from)
  BY <1>1, <1>3, <1>8
<1>10. QED
  BY <1>3, <1>4, <1>7, <1>9 DEF Ahead

LEMMA RoundsAhead ==
    ASSUME NEW g, Sound(g), NEW from \in g.nodes, NEW W, Rounds(W, g, from),
           NEW k \in Nat, k <= Size
    PROVE  \A x \in W[k] : Ahead(g, from, x, k)
<1> DEFINE T == {j \in Nat : j <= Size => \A x \in W[j] : Ahead(g, from, x, j)}
<1>1. 0 \in T
  BY StepAhead, TakenIs DEF Rounds
<1>2. ASSUME NEW j \in Nat, j \in T PROVE j + 1 \in T
  <2>1. SUFFICES ASSUME j + 1 <= Size, NEW x \in W[j + 1] PROVE Ahead(g, from, x, j + 1)
    OBVIOUS
  <2>2. \A n \in W[j] : Ahead(g, from, n, j)
    BY <1>2, <2>1, SizeIs
  <2>3. W[j + 1] = MoveOn(g, W[j])
    BY <2>1 DEF Rounds
  <2>4. PICK n \in W[j] : x \in IF Kind[n] = "condition" THEN Taken(g, n) ELSE {n}
    BY <2>3 DEF MoveOn
  <2>5. CASE Kind[n] = "condition"
    BY <2>2, <2>4, <2>5, ConditionAhead, TakenIs
  <2>6. CASE Kind[n] # "condition"
    <3>1. x = n
      BY <2>4, <2>6
    <3>2. QED
      BY <2>2, <2>6, <3>1 DEF Ahead
  <2>7. QED
    BY <2>5, <2>6
<1>3. k \in T
  BY <1>1, <1>2, SetInduction
<1>4. QED
  BY <1>3

\* From a start or an approval of a published graph the route always goes on, to an approval or
\* an end; and with it go no more approvals than were left, less the one that is done.
Arrival(g, from, x) ==
    /\ x \in g.nodes /\ Kind[x] \in {"approval", "end"}
    /\ Own(from) + Depth(g, x) <= Depth(g, from)

LEMMA WalkGoesOn ==
    ASSUME NEW g, Sound(g), NEW from \in g.nodes, Kind[from] \in {"start", "approval"}
    PROVE  Nowhere \notin Walk(g, from) /\ \A x \in Walk(g, from) : Arrival(g, from, x)
<1>1. WellFormed(g) /\ Next1(g, from) # {}
  BY SoundNode
<1>2. PICK W : Rounds(W, g, from)
               /\ Walk(g, from) = Ends(W, g, from, UNION {W[k] : k \in 0..Size})
  BY <1>1, WalkIs
<1>3. PICK met : met = UNION {W[k] : k \in 0..Size}
  OBVIOUS
<1>4. \A x \in met : \E k \in Nat : Ahead(g, from, x, k)
  <2>1. \A k \in 0..Size : k \in Nat /\ k <= Size
    BY SizeIs
  <2>2. QED
    BY <1>2, <1>3, <2>1, RoundsAhead
<1>5. ~Stuck(W, g, from, met)
  <2>1. ~Halts(g, from)
    BY <1>1 DEF Halts, Taken
  <2>2. ASSUME NEW n \in met, Kind[n] = "condition" PROVE ~Halts(g, n)
    <3>1. n \in g.nodes
      BY <1>4, <2>2 DEF Ahead
    <3>2. Defaults(g, n) # {}
      BY <2>2, <3>1, SoundNode
    <3>3. QED
      BY <2>2, <3>2 DEF Halts
  <2>3. ASSUME NEW n \in W[Size], Kind[n] = "condition" PROVE FALSE
    <3>1. Size \in Nat /\ Size <= Size
      BY SizeIs
    <3>2. Ahead(g, from, n, Size)
      BY <1>2, <2>3, <3>1, RoundsAhead
    <3>3. Rank(g, n) + Size < Rank(g, from)
      BY <2>3, <3>2 DEF Ahead
    <3>4. Rank(g, n) \in 0..Size /\ Rank(g, from) \in 0..Size
      BY <1>1, RankBounded
    <3>5. QED
      BY <3>1, <3>3, <3>4
  <2>4. QED
    BY <2>1, <2>2, <2>3 DEF Stuck
<1>6. Walk(g, from) = {n \in met : Kind[n] # "condition"}
  BY <1>2, <1>3, <1>5 DEF Ends
<1>7. ASSUME NEW x \in Walk(g, from) PROVE Arrival(g, from, x)
  <2>1. x \in met /\ Kind[x] # "condition"
    BY <1>6
  <2>2. /\ x \in g.nodes /\ x \in Beyond(g, from)
        /\ Own(from) + Depth(g, x) <= Depth(g, from)
    BY <1>4, <2>1 DEF Ahead
  <2>3. x \in Node /\ x # Start
    BY <2>2, SoundNode, StartFirst
  <2>4. Kind[x] \in {"start", "condition", "approval", "end"} /\ Kind[x] # "start"
    BY <2>3, WorkflowsAssumption
  <2>5. QED
    BY <2>1, <2>2, <2>4 DEF Arrival
<1>8. Nowhere \notin Walk(g, from)
  <2>1. \A x \in Walk(g, from) : x \in Node
    BY <1>1, <1>7, WithinNodes DEF Arrival
  <2>2. QED
    BY <2>1, WorkflowsAssumption
<1>9. QED
  BY <1>7, <1>8

-----------------------------------------------------------------------------
(* Definitions and what runs on them *)

DefinitionsOK ==
    /\ definition = [w \in Definition |-> definition[w]]
    /\ \A w \in Definition : IsDefinition(definition[w])

LimitOK == setting["max_depth"][Org] \in Nat \cup {Unset}

\* A version that is no draft stays as it is, but for its status.
Kept(v, u) == v.status # "draft" => u.status # "draft" /\ u.graph = v.graph /\ u.limit = v.limit
RowKept(r, q) ==
    /\ Len(r.versions) <= Len(q.versions)
    /\ \A k \in 1..Len(r.versions) : Kept(r.versions[k], q.versions[k])
VersionsKept == \A w \in Definition : RowKept(definition[w], definition'[w])

\* An approval that runs, or may be resumed, is at an approval of a version in force or once in
\* force, and the approvals it has done and has ahead are within the limit of that version.
Pinned(i) ==
    /\ i.of \in Definition /\ i.version \in 1..Len(definition[i.of].versions)
    /\ definition[i.of].versions[i.version].status # "draft"
    /\ i.node \in Graph(i).nodes /\ Kind[i.node] = "approval"
    /\ i.done \in Nat
    /\ i.done + Depth(Graph(i), i.node) <= definition[i.of].versions[i.version].limit
PinsOK == \A d \in Doc : instance[d].status \in {"running", "returned"} => Pinned(instance[d])

RoutesOK == DefinitionsOK /\ LimitOK /\ PinsOK

\* A list of versions.
Listed(s) ==
    /\ Len(s) \in Nat /\ s = [k \in 1..Len(s) |-> s[k]]
    /\ \A k \in 1..Len(s) : IsVersion(s[k])

LEMMA DefinitionRow ==
    ASSUME NEW r, IsDefinition(r)
    PROVE  DOMAIN r = {"status", "type", "scope", "versions"} /\ Listed(r.versions)
<1>1. r = [status |-> r.status, type |-> r.type, scope |-> r.scope, versions |-> r.versions]
  BY DEF IsDefinition
<1>2. QED
  BY <1>1 DEF IsDefinition, Listed

LEMMA Appended ==
    ASSUME NEW s, Listed(s), NEW v
    PROVE  /\ Len(Append(s, v)) = Len(s) + 1
           /\ Append(s, v) = [k \in 1..(Len(s) + 1) |-> IF k = Len(s) + 1 THEN v ELSE s[k]]
<1>1. PICK n : n = Len(s) /\ n \in Nat /\ s = [k \in 1..n |-> s[k]]
  BY DEF Listed
<1>2. PICK T : T = {s[k] : k \in 1..n} \cup {v}
  OBVIOUS
<1>3. \A k \in 1..n : s[k] \in T
  BY <1>2
<1>4. s \in Seq(T) /\ v \in T
  BY <1>1, <1>2, <1>3
<1>5. Append(s, v) \in Seq(T) /\ Len(Append(s, v)) = n + 1
  BY <1>1, <1>4
<1>6. \A k \in 1..(n + 1) : Append(s, v)[k] = IF k = n + 1 THEN v ELSE s[k]
  BY <1>1, <1>4
<1>7. Append(s, v) = [k \in 1..(n + 1) |-> Append(s, v)[k]]
  BY <1>1, <1>5
<1>8. QED
  BY <1>1, <1>5, <1>6, <1>7

\* A definition with other versions.
VersionsFollow(s, vs) ==
    Len(s) <= Len(vs) /\ \A k \in 1..Len(s) : Kept(s[k], vs[k])

LEMMA VersionsWritten ==
    ASSUME NEW r, IsDefinition(r), r.status # "none",
           NEW vs, Listed(vs), VersionsFollow(r.versions, vs),
           NEW q, q = [r EXCEPT !.versions = vs]
    PROVE  IsDefinition(q) /\ RowKept(r, q)
<1>1. DOMAIN r = {"status", "type", "scope", "versions"}
  BY DefinitionRow
<1>2. q.versions = vs /\ q.status = r.status
  BY <1>1
<1>3. q = [status |-> q.status, type |-> q.type, scope |-> q.scope, versions |-> q.versions]
  BY <1>1
<1>4. QED
  BY <1>2, <1>3 DEF IsDefinition, RowKept, Listed, VersionsFollow

LEMMA RowStays == ASSUME NEW r, IsDefinition(r) PROVE RowKept(r, r)
  BY DEF IsDefinition, RowKept, Kept

LEMMA DefinitionWritten ==
    ASSUME DefinitionsOK, NEW w \in Definition, NEW q, IsDefinition(q), RowKept(definition[w], q),
           definition' = [definition EXCEPT ![w] = q]
    PROVE  DefinitionsOK' /\ VersionsKept
<1>1. definition' = [v \in Definition |-> IF v = w THEN q ELSE definition[v]]
  BY DEF DefinitionsOK
<1>2. definition' = [v \in Definition |-> definition'[v]]
  BY <1>1
<1>3. \A v \in Definition : IsDefinition(definition[v]) /\ RowKept(definition[v], definition[v])
  <2>1. \A v \in Definition : IsDefinition(definition[v])
    BY DEF DefinitionsOK
  <2>2. QED
    BY <2>1, RowStays
<1>4. \A v \in Definition : definition'[v] = IF v = w THEN q ELSE definition[v]
  BY <1>1
<1>5. QED
  BY <1>2, <1>3, <1>4 DEF DefinitionsOK, VersionsKept

LEMMA CreateKeeps ==
    ASSUME DefinitionsOK, NEW w \in Definition, NEW type, NEW scope,
           CreateDefinition(w, type, scope)
    PROVE  DefinitionsOK' /\ VersionsKept
<1>1. PICK q : q = [NoDefinition EXCEPT !.status = "live", !.type = type, !.scope = scope]
  OBVIOUS
<1>2. definition' = [definition EXCEPT ![w] = q] /\ definition[w].status = "none"
  BY <1>1 DEF CreateDefinition
<1>3. q = [status |-> "live", type |-> type, scope |-> scope, versions |-> <<>>]
  BY <1>1 DEF NoDefinition
<1>4. q.versions = <<>> /\ q.status = "live" /\ Len(q.versions) = 0
  BY <1>3
<1>5. q = [status |-> q.status, type |-> q.type, scope |-> q.scope, versions |-> q.versions]
  BY <1>3
<1>6. <<>> = [k \in 1..0 |-> <<>>[k]]
  OBVIOUS
<1>7. IsDefinition(q)
  BY <1>4, <1>5, <1>6 DEF IsDefinition
<1>8. Len(definition[w].versions) = 0
  BY <1>2 DEF DefinitionsOK, IsDefinition
<1>9. RowKept(definition[w], q)
  BY <1>4, <1>8 DEF RowKept
<1>10. QED
  BY <1>2, <1>7, <1>9, DefinitionWritten

LEMMA RetireKeeps ==
    ASSUME DefinitionsOK, NEW w \in Definition, Retire(w)
    PROVE  DefinitionsOK' /\ VersionsKept
<1>1. PICK r : r = definition[w] /\ IsDefinition(r)
  BY DEF DefinitionsOK
<1>2. PICK q : q = [r EXCEPT !.status = "retired"]
  OBVIOUS
<1>3. definition' = [definition EXCEPT ![w] = q]
  BY <1>1, <1>2 DEF Retire
<1>4. DOMAIN r = {"status", "type", "scope", "versions"}
  BY <1>1, DefinitionRow
<1>5. q.versions = r.versions /\ q.status = "retired"
  BY <1>2, <1>4
<1>6. q = [status |-> q.status, type |-> q.type, scope |-> q.scope, versions |-> q.versions]
  BY <1>2, <1>4
<1>7. IsDefinition(q) /\ RowKept(r, q)
  BY <1>1, <1>5, <1>6 DEF IsDefinition, RowKept, Kept
<1>8. QED
  BY <1>1, <1>3, <1>7, DefinitionWritten

LEMMA DraftKeeps ==
    ASSUME DefinitionsOK, NEW w \in Definition, NEW g, WellFormed(g), CreateVersion(w, g)
    PROVE  DefinitionsOK' /\ VersionsKept
<1>1. PICK r : r = definition[w] /\ IsDefinition(r) /\ r.status # "none"
  BY DEF DefinitionsOK, CreateVersion
<1>2. PICK v : v = [status |-> "draft", graph |-> g, limit |-> 0]
  OBVIOUS
<1>3. IsVersion(v)
  BY <1>2 DEF IsVersion
<1>4. PICK s : s = r.versions
  OBVIOUS
<1>5. Listed(s)
  BY <1>1, <1>4, DefinitionRow
<1>6. PICK vs : vs = Append(s, v)
  OBVIOUS
<1>7. vs = [k \in 1..(Len(s) + 1) |-> IF k = Len(s) + 1 THEN v ELSE s[k]] /\ Len(vs) = Len(s) + 1
  BY <1>5, <1>6, Appended
<1>8. Len(s) \in Nat /\ \A k \in 1..Len(s) : IsVersion(s[k])
  BY <1>5 DEF Listed
<1>9. Listed(vs)
  <2>1. \A k \in 1..Len(vs) : IsVersion(vs[k])
    BY <1>3, <1>7, <1>8
  <2>2. Len(vs) \in Nat /\ vs = [k \in 1..Len(vs) |-> vs[k]]
    BY <1>7, <1>8
  <2>3. QED
    BY <2>1, <2>2 DEF Listed
<1>10. VersionsFollow(r.versions, vs)
  BY <1>4, <1>7, <1>8 DEF VersionsFollow, Kept
<1>11. PICK q : q = [r EXCEPT !.versions = vs]
  OBVIOUS
<1>12. definition' = [definition EXCEPT ![w] = q]
  BY <1>1, <1>2, <1>4, <1>6, <1>11 DEF CreateVersion
<1>13. IsDefinition(q) /\ RowKept(r, q)
  BY <1>1, <1>9, <1>10, <1>11, VersionsWritten
<1>14. QED
  BY <1>1, <1>12, <1>13, DefinitionWritten

\* A definition with drafts has been created.
LEMMA DraftIs ==
    ASSUME DefinitionsOK, NEW w \in Definition, NEW k \in Drafts(w)
    PROVE  /\ IsDefinition(definition[w]) /\ definition[w].status # "none"
           /\ k \in 1..Len(definition[w].versions)
           /\ definition[w].versions[k].status = "draft" /\ IsVersion(definition[w].versions[k])
<1>1. IsDefinition(definition[w])
  BY DEF DefinitionsOK
<1>2. k \in 1..Len(definition[w].versions) /\ definition[w].versions[k].status = "draft"
  BY DEF Drafts, Versions
<1>3. QED
  BY <1>1, <1>2 DEF IsDefinition

LEMMA UpdateKeeps ==
    ASSUME DefinitionsOK, NEW w \in Definition, NEW g, WellFormed(g), UpdateVersion(w, g)
    PROVE  DefinitionsOK' /\ VersionsKept
<1>1. PICK k \in Drafts(w) : definition' = [definition EXCEPT ![w].versions[k].graph = g]
  BY DEF UpdateVersion, Editable
<1>2. PICK r, s : r = definition[w] /\ s = r.versions
  OBVIOUS
<1>3. /\ IsDefinition(r) /\ r.status # "none" /\ k \in 1..Len(s) /\ s[k].status = "draft"
      /\ IsVersion(s[k])
  BY <1>1, <1>2, DraftIs
<1>4. Len(s) \in Nat /\ s = [j \in 1..Len(s) |-> s[j]] /\ \A j \in 1..Len(s) : IsVersion(s[j])
  BY <1>2, <1>3 DEF IsDefinition
<1>5. PICK v : v = [s[k] EXCEPT !.graph = g]
  OBVIOUS
<1>6. IsVersion(v) /\ v.status = "draft"
  <2>1. s[k] = [status |-> s[k].status, graph |-> s[k].graph, limit |-> s[k].limit]
        /\ s[k].limit \in Nat
    BY <1>3 DEF IsVersion
  <2>2. v = [status |-> "draft", graph |-> g, limit |-> s[k].limit]
    BY <1>3, <1>5, <2>1
  <2>3. QED
    BY <2>1, <2>2 DEF IsVersion
<1>7. PICK vs : vs = [s EXCEPT ![k] = v]
  OBVIOUS
<1>8. vs = [j \in 1..Len(s) |-> IF j = k THEN v ELSE s[j]]
  BY <1>4, <1>7
<1>9. Len(vs) = Len(s) /\ vs = [j \in 1..Len(vs) |-> vs[j]]
  BY <1>4, <1>8
<1>10. (\A j \in 1..Len(vs) : IsVersion(vs[j])) /\ \A j \in 1..Len(s) : Kept(s[j], vs[j])
  BY <1>3, <1>4, <1>6, <1>8, <1>9 DEF Kept
<1>11. PICK q : q = [r EXCEPT !.versions = vs]
  OBVIOUS
<1>12. definition' = [definition EXCEPT ![w] = q]
  BY <1>1, <1>2, <1>5, <1>7, <1>11
<1>13. IsDefinition(q) /\ RowKept(r, q)
  <2>1. Listed(vs)
    BY <1>4, <1>9, <1>10 DEF Listed
  <2>2. VersionsFollow(r.versions, vs)
    BY <1>2, <1>4, <1>9, <1>10 DEF VersionsFollow
  <2>3. QED
    BY <1>3, <1>11, <2>1, <2>2, VersionsWritten
<1>14. QED
  BY <1>2, <1>12, <1>13, DefinitionWritten

LEMMA LimitIs == ASSUME LimitOK PROVE MaxDepth \in Nat
  BY DEF LimitOK, MaxDepth, SettingDefault

\* A published version has passed the checks against the limit it keeps.
LEMMA PublishKeeps ==
    ASSUME DefinitionsOK, LimitOK, NEW w \in Definition, NEW acknowledged, Publish(w, acknowledged)
    PROVE  DefinitionsOK' /\ VersionsKept
<1>1. PICK r, s : r = definition[w] /\ s = r.versions
  OBVIOUS
<1> DEFINE Turned(k) == [j \in DOMAIN s |->
                  CASE j = k -> [s[j] EXCEPT !.status = "published", !.limit = MaxDepth]
                    [] j # k /\ s[j].status = "published" -> [s[j] EXCEPT !.status = "superseded"]
                    [] OTHER -> s[j]]
<1>2. PICK k \in Drafts(w) :
           /\ ~Flawed(Versions(w)[k].graph)
           /\ definition' = [definition EXCEPT ![w].versions =
                [j \in DOMAIN @ |->
                    CASE j = k -> [@[j] EXCEPT !.status = "published", !.limit = MaxDepth]
                      [] j # k /\ @[j].status = "published" -> [@[j] EXCEPT !.status = "superseded"]
                      [] OTHER -> @[j]]]
  BY Zenon DEF Publish
<1>3. /\ IsDefinition(r) /\ r.status # "none" /\ k \in 1..Len(s) /\ s[k].status = "draft"
      /\ IsVersion(s[k])
  BY <1>1, <1>2, DraftIs
<1>4. Len(s) \in Nat /\ s = [j \in 1..Len(s) |-> s[j]] /\ \A j \in 1..Len(s) : IsVersion(s[j])
  BY <1>1, <1>3 DEF IsDefinition
<1>5. PICK vs : vs = Turned(k)
  OBVIOUS
<1>6. PICK v, limit : v = [s[k] EXCEPT !.status = "published", !.limit = limit] /\ limit = MaxDepth
  OBVIOUS
<1>7. IsVersion(v)
  <2>1. s[k] = [status |-> s[k].status, graph |-> s[k].graph, limit |-> s[k].limit]
        /\ WellFormed(s[k].graph)
    BY <1>3 DEF IsVersion
  <2>2. v = [status |-> "published", graph |-> s[k].graph, limit |-> limit]
    BY <1>6, <2>1
  <2>3. ~Flawed(s[k].graph)
    BY <1>1, <1>2 DEF Versions
  <2>4. /\ ~Cyclic(s[k].graph) /\ BadEdges(s[k].graph) = {} /\ Astray(s[k].graph) = {}
        /\ ~(Depth(s[k].graph, Start) > MaxDepth)
    BY <2>3 DEF Flawed
  <2>5. Depth(s[k].graph, Start) \in Nat /\ limit \in Nat
    BY <1>6, <2>1, SizeIs, DepthCounts, LimitIs
  <2>6. Depth(s[k].graph, Start) <= limit
    BY <1>6, <2>4, <2>5
  <2>7. QED
    BY <2>1, <2>2, <2>4, <2>5, <2>6 DEF IsVersion
<1>8. vs = [j \in 1..Len(s) |->
              CASE j = k -> v
                [] j # k /\ s[j].status = "published" -> [s[j] EXCEPT !.status = "superseded"]
                [] OTHER -> s[j]]
  <2>1. DOMAIN s = 1..Len(s)
    BY <1>4
  <2>2. QED
    BY <1>5, <1>6, <2>1
<1>9. Len(vs) = Len(s) /\ vs = [j \in 1..Len(vs) |-> vs[j]]
  <2>1. DOMAIN vs = 1..Len(s) /\ Len(s) \in Nat
    BY <1>4, <1>8
  <2>2. Len(vs) = Len(s)
    BY <2>1
  <2>3. QED
    BY <1>8, <2>2
<1>10. ASSUME NEW j \in 1..Len(s) PROVE IsVersion(vs[j]) /\ Kept(s[j], vs[j])
  <2>1. CASE j = k
    BY <1>3, <1>7, <1>8, <2>1 DEF Kept
  <2>2. CASE j # k /\ s[j].status = "published"
    <3>1. s[j] = [status |-> s[j].status, graph |-> s[j].graph, limit |-> s[j].limit]
          /\ IsVersion(s[j])
      BY <1>4 DEF IsVersion
    <3>2. vs[j] = [s[j] EXCEPT !.status = "superseded"]
      BY <1>8, <2>2
    <3>3. vs[j] = [status |-> "superseded", graph |-> s[j].graph, limit |-> s[j].limit]
      BY <3>1, <3>2
    <3>4. QED
      BY <2>2, <3>1, <3>3 DEF IsVersion, Kept
  <2>3. CASE j # k /\ s[j].status # "published"
    BY <1>4, <1>8, <2>3 DEF Kept
  <2>4. QED
    BY <2>1, <2>2, <2>3
<1>11. PICK q : q = [r EXCEPT !.versions = vs]
  OBVIOUS
<1>12. definition' = [definition EXCEPT ![w] = q]
  BY <1>1, <1>2, <1>5, <1>11
<1>13. IsDefinition(q) /\ RowKept(r, q)
  <2>1. Listed(vs)
    BY <1>4, <1>9, <1>10 DEF Listed
  <2>2. VersionsFollow(r.versions, vs)
    BY <1>1, <1>4, <1>9, <1>10 DEF VersionsFollow
  <2>3. QED
    BY <1>3, <1>11, <2>1, <2>2, VersionsWritten
<1>14. QED
  BY <1>1, <1>12, <1>13, DefinitionWritten

LEMMA GraphsFormed ==
    ASSUME UnitsOK
    PROVE  mix.names \subseteq Definition /\ \A g \in mix.graphs : WellFormed(g)
<1>1. mix \in Mixes
  BY DEF UnitsOK
<1>2. QED
  BY <1>1, ProjectsAssumption

LEMMA DefinitionsStep ==
    ASSUME UnitsOK, DefinitionsOK, LimitOK, DefinitionStep
    PROVE  DefinitionsOK' /\ VersionsKept
<1>1. mix.names \subseteq Definition /\ \A g \in mix.graphs : WellFormed(g)
  BY GraphsFormed
<1>2. \/ UNCHANGED definition
      \/ \E w \in mix.names :
           \/ \E type, scope : CreateDefinition(w, type, scope)
           \/ \E g \in mix.graphs : CreateVersion(w, g) \/ UpdateVersion(w, g)
           \/ \E acknowledged : Publish(w, acknowledged)
           \/ Retire(w)
  <2>1. ASSUME NEW rule, ChangeHolders(rule) PROVE UNCHANGED definition
    BY <2>1 DEF ChangeHolders
  <2>2. \/ \E w \in mix.names, type \in mix.types, s \in Scope : CreateDefinition(w, type, s)
        \/ \E w \in mix.names, g \in mix.graphs : CreateVersion(w, g) \/ UpdateVersion(w, g)
        \/ \E w \in mix.names, acknowledged \in BOOLEAN : Publish(w, acknowledged)
        \/ \E w \in mix.names : Retire(w)
        \/ \E rule \in {"managers", "board"} : ChangeHolders(rule)
    BY Zenon DEF DefinitionStep
  <2>3. QED
    BY <2>1, <2>2, Zenon
<1>3. CASE UNCHANGED definition
  <2>1. DefinitionsOK'
    BY <1>3 DEF DefinitionsOK
  <2>2. \A w \in Definition : IsDefinition(definition[w]) /\ definition'[w] = definition[w]
    BY <1>3 DEF DefinitionsOK
  <2>3. VersionsKept
    BY <2>2, RowStays DEF VersionsKept
  <2>4. QED
    BY <2>1, <2>3
<1>4. ASSUME NEW w \in Definition,
             \/ \E type, scope : CreateDefinition(w, type, scope)
             \/ \E g \in mix.graphs : CreateVersion(w, g) \/ UpdateVersion(w, g)
             \/ \E acknowledged : Publish(w, acknowledged)
             \/ Retire(w)
      PROVE  DefinitionsOK' /\ VersionsKept
  BY <1>1, <1>4, CreateKeeps, DraftKeeps, UpdateKeeps, PublishKeeps, RetireKeeps, Zenon
<1>5. QED
  BY <1>1, <1>2, <1>3, <1>4

\* What is pinned stays pinned while versions are kept.
LEMMA PinStays ==
    ASSUME DefinitionsOK, VersionsKept, NEW i, Pinned(i)
    PROVE  Pinned(i)'
<1>1. PICK w, k : w = i.of /\ k = i.version
  OBVIOUS
<1>2. PICK r, q : r = definition[w] /\ q = definition'[w]
  OBVIOUS
<1>3. /\ w \in Definition /\ k \in 1..Len(r.versions) /\ r.versions[k].status # "draft"
      /\ Len(r.versions) \in Nat
  BY <1>1, <1>2 DEF Pinned, DefinitionsOK, IsDefinition
<1>4. RowKept(r, q)
  BY <1>2, <1>3 DEF VersionsKept
<1>5. /\ k \in 1..Len(q.versions) /\ q.versions[k].status # "draft"
      /\ q.versions[k].graph = r.versions[k].graph /\ q.versions[k].limit = r.versions[k].limit
  <2>1. Len(r.versions) <= Len(q.versions) /\ Kept(r.versions[k], q.versions[k])
    BY <1>3, <1>4 DEF RowKept
  <2>2. k \in 1..Len(q.versions)
    BY <1>3, <2>1
  <2>3. QED
    BY <1>3, <2>1, <2>2 DEF Kept
<1>6. Graph(i)' = Graph(i)
  BY <1>1, <1>2, <1>5 DEF Graph
<1>7. QED
  BY <1>1, <1>2, <1>3, <1>5, <1>6 DEF Pinned

LEMMA PinnedGraph ==
    ASSUME DefinitionsOK, NEW i, i.of \in Definition,
           i.version \in 1..Len(definition[i.of].versions),
           definition[i.of].versions[i.version].status # "draft"
    PROVE  /\ Sound(Graph(i)) /\ Start \in Graph(i).nodes
           /\ definition[i.of].versions[i.version].limit \in Nat
           /\ Depth(Graph(i), Start) <= definition[i.of].versions[i.version].limit
<1>1. PICK v : v = definition[i.of].versions[i.version]
  OBVIOUS
<1>2. IsVersion(v) /\ v.status # "draft"
  BY <1>1 DEF DefinitionsOK, IsDefinition
<1>3. v.graph = Graph(i)
  BY <1>1 DEF Graph
<1>4. QED
  BY <1>1, <1>2, <1>3 DEF IsVersion, Sound, Acyclic, WellFormed

LEMMA ResolvedIs ==
    ASSUME DefinitionsOK, NEW type, NEW bu, NEW w, w = Resolve(type, bu), w # Nowhere
    PROVE  w \in Definition /\ Published(w) # {}
<1>1. PICK found : found # {} /\ w \in found /\ \E s : found = Bound(type, s)
  <2> DEFINE near == Bound(type, bu)
             found == IF near # {} THEN near ELSE Bound(type, Org)
  <2>1. Resolve(type, bu) = IF found = {} THEN Nowhere ELSE CHOOSE x \in found : TRUE
    BY DEF Resolve
  <2> HIDE DEF found
  <2>2. found # {} /\ w \in found
    BY <2>1
  <2>3. \E s : found = Bound(type, s)
    BY DEF found
  <2>4. QED
    BY <2>2, <2>3
<1>2. QED
  BY <1>1 DEF Bound

\* An approval that arrives somewhere on its way is over, or goes on from an approval.
LEMMA ArrivalPins ==
    ASSUME DefinitionsOK, NEW i, IsInstance(i), i.status = "running", i.of \in Definition,
           i.version \in 1..Len(definition[i.of].versions),
           definition[i.of].versions[i.version].status # "draft",
           i.done \in Nat, NEW from,
           NEW n, Arrival(Graph(i), from, n), from \in Graph(i).nodes,
           NEW before \in Nat, i.done = before + Own(from),
           before + Depth(Graph(i), from) <= definition[i.of].versions[i.version].limit,
           NEW x, x = Arrived(i, n)
    PROVE  /\ IsInstance(x) /\ x.status \in {"running", "approved"}
           /\ x.status = "running" => Pinned(x)
<1>1. /\ IsInstance(x) /\ x.node = n /\ x.of = i.of /\ x.version = i.version /\ x.done = i.done
      /\ x.status = IF Kind[n] = "end" THEN "approved" ELSE "running"
  BY InstanceArrives
<1>2. PICK g, limit : g = Graph(i) /\ limit = definition[i.of].versions[i.version].limit
  OBVIOUS
<1>3. Graph(x) = g
  BY <1>1, <1>2 DEF Graph
<1>4. n \in g.nodes /\ Kind[n] \in {"approval", "end"} /\ Own(from) + Depth(g, n) <= Depth(g, from)
  BY <1>2 DEF Arrival
<1>5. Sound(g) /\ limit \in Nat
  BY <1>2, PinnedGraph
<1>6. Depth(g, n) \in Nat /\ Depth(g, from) \in Nat
  BY <1>2, <1>4, <1>5, SoundNode, DepthCounts
<1>7. before + Depth(g, from) <= limit
  BY <1>2
<1>8. i.done + Depth(g, n) <= limit
  BY <1>4, <1>5, <1>6, <1>7 DEF Own
<1>9. ASSUME x.status = "running" PROVE Pinned(x)
  <2>1. Kind[n] = "approval"
    BY <1>1, <1>4, <1>9
  <2>2. QED
    BY <1>1, <1>2, <1>3, <1>4, <1>8, <2>1 DEF Pinned
<1>10. QED
  BY <1>1, <1>9

\* What start makes of an instance.
LEMMA Begun ==
    ASSUME NEW w, NEW k
    PROVE  [NoInstance EXCEPT !.status = "running", !.of = w, !.version = k]
           = [status |-> "running", of |-> w, version |-> k, node |-> Start, done |-> 0]
<1>1. PICK i : i = [NoInstance EXCEPT !.status = "running", !.of = w, !.version = k]
  OBVIOUS
<1>2. i = [status |-> "running", of |-> w, version |-> k, node |-> Start, done |-> 0]
  BY <1>1 DEF NoInstance
<1>3. QED
  BY <1>1, <1>2

LEMMA StartPins ==
    ASSUME DefinitionsOK, InstancesOK, NEW d \in Doc, NEW bu, StartApproval(d, bu)
    PROVE  \E x : /\ instance' = [instance EXCEPT ![d] = x] /\ IsInstance(x)
                  /\ x.status \in {"running", "approved"} /\ (x.status = "running" => Pinned(x))
<1> DEFINE w == Resolve(TypeOf[d], bu)
           k == CHOOSE j \in Published(w) : TRUE
           i == [NoInstance EXCEPT !.status = "running", !.of = w, !.version = k]
<1>1. \E n \in Walk(Graph(i), Start) \ {Nowhere} :
         instance' = [instance EXCEPT ![d] = Arrived(i, n)]
  BY DEF StartApproval
<1>2. w # Nowhere
  BY DEF StartApproval
<1>3. w \in Definition /\ Published(w) # {}
  BY <1>2, ResolvedIs
<1> HIDE DEF w
<1>4. k \in 1..Len(definition[w].versions) /\ definition[w].versions[k].status # "draft"
  BY <1>3 DEF Published, Versions
<1> HIDE DEF k
<1>5. i = [status |-> "running", of |-> w, version |-> k, node |-> Start, done |-> 0]
  BY Begun
<1> HIDE DEF i
<1>6. IsInstance(i) /\ i.status = "running" /\ i.of = w /\ i.version = k /\ i.done = 0
  BY <1>5 DEF IsInstance
<1>7. /\ Sound(Graph(i)) /\ Start \in Graph(i).nodes
      /\ Depth(Graph(i), Start) <= definition[i.of].versions[i.version].limit
      /\ definition[i.of].versions[i.version].limit \in Nat
  BY <1>3, <1>4, <1>6, PinnedGraph
<1>8. PICK n \in Walk(Graph(i), Start) : instance' = [instance EXCEPT ![d] = Arrived(i, n)]
  BY <1>1
<1>9. Arrival(Graph(i), Start, n)
  BY <1>7, <1>8, SizeIs, WalkGoesOn
<1>10. PICK x : x = Arrived(i, n)
  OBVIOUS
<1>11. Own(Start) = 0 /\ Depth(Graph(i), Start) \in Nat
  BY <1>7, SizeIs, SoundNode, DepthCounts DEF Own
<1>12. /\ 0 \in Nat /\ i.done \in Nat /\ i.done = 0 + Own(Start)
       /\ 0 + Depth(Graph(i), Start) <= definition[i.of].versions[i.version].limit
       /\ i.of \in Definition /\ i.version \in 1..Len(definition[i.of].versions)
       /\ definition[i.of].versions[i.version].status # "draft"
  BY <1>3, <1>4, <1>6, <1>7, <1>11
<1>13. IsInstance(x) /\ x.status \in {"running", "approved"} /\ (x.status = "running" => Pinned(x))
  BY <1>6, <1>7, <1>9, <1>10, <1>12, ArrivalPins
<1>14. QED
  BY <1>8, <1>10, <1>13

LEMMA DecisionPins ==
    ASSUME DefinitionsOK, InstancesOK, NEW d \in Doc, Pinned(instance[d]), Decide(d, "approved")
    PROVE  \E x : /\ instance' = [instance EXCEPT ![d] = x] /\ IsInstance(x)
                  /\ x.status \in {"running", "approved"} /\ (x.status = "running" => Pinned(x))
<1>1. PICK v, i : v = instance[d] /\ i = [v EXCEPT !.done = v.done + 1]
  OBVIOUS
<1>2. IsInstance(v) /\ v.status = "running"
  BY <1>1 DEF InstancesOK, Decide
<1>3. Pinned(v)
  BY <1>1
<1>4. DOMAIN v = {"status", "of", "version", "node", "done"}
  BY <1>2 DEF IsInstance
<1>5. /\ IsInstance(i) /\ i.status = "running" /\ i.of = v.of /\ i.version = v.version
      /\ i.done = v.done + 1
  BY <1>1, <1>2, <1>4 DEF IsInstance
<1>6. Graph(i) = Graph(v)
  BY <1>5 DEF Graph
<1>7. PICK n \in Walk(Graph(v), v.node) : instance' = [instance EXCEPT ![d] = Arrived(i, n)]
  BY <1>1 DEF Decide
<1>8. /\ v.of \in Definition /\ v.version \in 1..Len(definition[v.of].versions)
      /\ definition[v.of].versions[v.version].status # "draft"
      /\ v.node \in Graph(v).nodes /\ Kind[v.node] = "approval" /\ v.done \in Nat
      /\ v.done + Depth(Graph(v), v.node) <= definition[v.of].versions[v.version].limit
  BY <1>3 DEF Pinned
<1>9. Sound(Graph(v))
  BY <1>8, PinnedGraph
<1>10. Arrival(Graph(v), v.node, n)
  BY <1>7, <1>8, <1>9, WalkGoesOn
<1>11. PICK x : x = Arrived(i, n)
  OBVIOUS
<1>12. i.done \in Nat /\ i.done = v.done + Own(v.node)
  BY <1>5, <1>8 DEF Own
<1>13. /\ i.of \in Definition /\ i.version \in 1..Len(definition[i.of].versions)
       /\ definition[i.of].versions[i.version].status # "draft"
       /\ v.node \in Graph(i).nodes /\ Arrival(Graph(i), v.node, n)
       /\ v.done + Depth(Graph(i), v.node) <= definition[i.of].versions[i.version].limit
  BY <1>5, <1>6, <1>8, <1>10
<1>14. IsInstance(x) /\ x.status \in {"running", "approved"} /\ (x.status = "running" => Pinned(x))
  BY <1>5, <1>8, <1>11, <1>12, <1>13, ArrivalPins
<1>15. QED
  BY <1>7, <1>11, <1>14

\* Another status, of an approval that runs or is resumed.
LEMMA StatusPins ==
    ASSUME DefinitionsOK, InstancesOK, NEW d \in Doc, NEW s \in InstanceStatus,
           instance' = [instance EXCEPT ![d].status = s], UNCHANGED definition,
           instance[d].status \in {"running", "returned"}, PinsOK
    PROVE  PinsOK'
<1>1. PICK v, x : v = instance[d] /\ x = [v EXCEPT !.status = s]
  OBVIOUS
<1>2. IsInstance(v) /\ Pinned(v)
  BY <1>1 DEF InstancesOK, PinsOK
<1>3. DOMAIN v = {"status", "of", "version", "node", "done"}
  BY <1>2 DEF IsInstance
<1>4. x.of = v.of /\ x.version = v.version /\ x.node = v.node /\ x.done = v.done
  BY <1>1, <1>3
<1>5. instance' = [e \in Doc |-> IF e = d THEN x ELSE instance[e]]
  BY <1>1 DEF InstancesOK
<1>6. Pinned(x)
  BY <1>2, <1>4 DEF Pinned, Graph
<1>7. ASSUME NEW e \in Doc, instance'[e].status \in {"running", "returned"}
      PROVE Pinned(instance[e])'
  <2>1. PICK y : y = instance'[e]
    OBVIOUS
  <2>2. Pinned(y)
    BY <1>5, <1>6, <1>7, <2>1 DEF PinsOK
  <2>3. Pinned(y)'
    BY <2>2 DEF Pinned, Graph
  <2>4. QED
    BY <2>1, <2>3 DEF Pinned, Graph
<1>8. QED
  BY <1>7 DEF PinsOK

\* The approval of one document is written.
LEMMA PinWritten ==
    ASSUME DefinitionsOK, InstancesOK, NEW d \in Doc, NEW x,
           instance' = [instance EXCEPT ![d] = x], UNCHANGED definition, PinsOK,
           x.status \in {"running", "approved"}, x.status = "running" => Pinned(x)
    PROVE  PinsOK'
<1>1. instance' = [e \in Doc |-> IF e = d THEN x ELSE instance[e]]
  BY DEF InstancesOK
<1>2. ASSUME NEW e \in Doc, instance'[e].status \in {"running", "returned"}
      PROVE Pinned(instance[e])'
  <2>1. PICK y : y = instance'[e]
    OBVIOUS
  <2>2. Pinned(y)
    BY <1>1, <1>2, <2>1 DEF PinsOK
  <2>3. Pinned(y)'
    BY <2>2 DEF Pinned, Graph
  <2>4. QED
    BY <2>1, <2>3 DEF Pinned, Graph
<1>3. QED
  BY <1>2 DEF PinsOK

\* An approval is started, resumed or decided, or no approval changes.
ApprovalStep ==
    /\ UNCHANGED definition
    /\ \E d \in Doc : \/ \E bu : StartApproval(d, bu)
                      \/ ResumeApproval(d)
                      \/ \E outcome \in Outcome : Decide(d, outcome)

LEMMA ApprovalsMove ==
    ASSUME DocsOK, [Next]_vars
    PROVE  ApprovalStep \/ (UNCHANGED instance /\ (DefinitionStep \/ UNCHANGED definition))
<1>1. ASSUME StructureStep \/ CalendarStep \/ UNCHANGED vars
      PROVE UNCHANGED <<instance, definition>>
  BY <1>1 DEF StructureStep, CalendarStep, vars, workflowVars
<1>2. ASSUME DefinitionStep PROVE UNCHANGED instance
  BY <1>2, ElsewhereIs DEF Elsewhere, docVars
<1>3. ASSUME NEW mode, NEW s \in Scope, SetFundingMode(s, mode)
      PROVE  UNCHANGED <<instance, definition>>
  BY <1>3 DEF SetFundingMode, workflowVars
<1>4. \A d, bu : StartApproval(d, bu) => UNCHANGED definition
  BY DEF StartApproval
<1>5. \A d, outcome : Decide(d, outcome) => UNCHANGED definition
  BY DEF Decide
<1>6. CASE DocumentStep
  <2>1. PICK d \in Plain :
              \/ \E u \in Unit : StartApproval(d, u)
              \/ ResumeApproval(d)
              \/ \E outcome \in Outcome : Decide(d, outcome)
    BY <1>6 DEF DocumentStep
  <2>2. d \in Doc
    BY DEF Plain
  <2>3. ResumeApproval(d) => UNCHANGED definition
    BY DEF ResumeApproval
  <2>4. QED
    BY <1>4, <1>5, <2>1, <2>2, <2>3, Zenon DEF ApprovalStep
<1>7. CASE ProjectStep
  <2>1. PICK p \in Project :
              \/ \E code : \E parent \in Project \cup {Nowhere}, u \in Unit :
                    p \in NextProject /\ CreateProject(p, parent, u, code)
              \/ \E ref, code : UpdateProject(p, ref) \/ SubstituteCode(p, code)
              \/ \E to : Transition(p, to)
              \/ SubmitProject(p)
              \/ \E outcome \in Outcome : DecideProject(p, outcome)
    BY <1>7, ProjectStepIs
  <2>2. p \in Doc
    BY ProjectsAssumption
  <2>3. ASSUME NEW parent, NEW u, NEW code, CreateProject(p, parent, u, code)
        PROVE  UNCHANGED <<instance, definition>>
    BY <2>3 DEF CreateProject, workflowVars
  <2>4. ASSUME NEW ref, NEW code, UpdateProject(p, ref) \/ SubstituteCode(p, code)
        PROVE  UNCHANGED <<instance, definition>>
    BY <2>4 DEF UpdateProject, SubstituteCode, workflowVars
  <2>5. ASSUME NEW to, Transition(p, to) PROVE UNCHANGED <<instance, definition>>
    BY <2>5 DEF Transition, workflowVars
  <2>6. ASSUME SubmitProject(p) PROVE ApprovalStep
    BY <1>4, <2>2, <2>6, Zenon DEF SubmitProject, ApprovalStep
  <2>7. ASSUME NEW outcome \in Outcome, DecideProject(p, outcome) PROVE ApprovalStep
    BY <1>5, <2>2, <2>7, Zenon DEF DecideProject, ApprovalStep
  <2>8. QED
    BY <2>1, <2>3, <2>4, <2>5, <2>6, <2>7
<1>8. ASSUME NEW c \in Client,
             \/ \E op \in PlanOp, p \in Project : BeginPlan(c, op, p)
             \/ \E n \in 1..MaxRows, child \in Project \cup {Nowhere} : WritePhase(c, n, child)
             \/ WriteMilestone(c) \/ WriteRisk(c)
      PROVE  UNCHANGED <<instance, definition>>
  BY <1>8 DEF BeginPlan, WritePhase, WriteMilestone, WriteRisk, workflowVars
<1>9. ASSUME NEW c \in Client, NEW r, NEW row, BeginRequest(c, r, row) \/ Rollback(c)
      PROVE  UNCHANGED <<instance, definition>>
  BY <1>9 DEF BeginRequest, Rollback, workflowVars
<1>10. ASSUME NEW c \in Client, CommitRequest(c) PROVE ApprovalStep
  <2>1. tx[c].request \in Request
    BY <1>10 DEF CommitRequest, DocsOK, RequestsHeld
  <2>2. tx[c].request \in Doc
    BY <2>1, ProjectsAssumption
  <2>3. QED
    BY <1>4, <1>10, <2>2, Zenon DEF CommitRequest, ApprovalStep
<1>11. ASSUME NEW r \in Request, NEW outcome \in Outcome, DecideRequest(r, outcome)
       PROVE  ApprovalStep
  <2>1. r \in Doc
    BY ProjectsAssumption
  <2>2. QED
    BY <1>5, <1>11, <2>1, Zenon DEF DecideRequest, ApprovalStep
<1>12. QED
  BY <1>1, <1>2, <1>3, <1>6, <1>7, <1>8, <1>9, <1>10, <1>11, NextIs, Zenon DEF Elsewhere

LEMMA PinsStep ==
    ASSUME DefinitionsOK, InstancesOK, PinsOK, ApprovalStep
    PROVE  PinsOK'
<1>1. PICK d \in Doc : \/ \E bu : StartApproval(d, bu)
                       \/ ResumeApproval(d)
                       \/ \E outcome \in Outcome : Decide(d, outcome)
  BY DEF ApprovalStep
<1>2. UNCHANGED definition
  BY DEF ApprovalStep
<1>3. ASSUME NEW bu, StartApproval(d, bu) PROVE PinsOK'
  BY <1>2, <1>3, StartPins, PinWritten
<1>4. ASSUME ResumeApproval(d) PROVE PinsOK'
  <2>1. /\ instance[d].status = "returned" /\ "running" \in InstanceStatus
        /\ instance' = [instance EXCEPT ![d].status = "running"]
    BY <1>4 DEF ResumeApproval, InstanceStatus
  <2>2. QED
    BY <1>2, <2>1, StatusPins
<1>5. ASSUME NEW outcome \in Outcome, Decide(d, outcome) PROVE PinsOK'
  <2>1. instance[d].status = "running"
    BY <1>5 DEF Decide
  <2>2. CASE outcome = "approved"
    <3>1. Pinned(instance[d]) /\ Decide(d, "approved")
      BY <1>5, <2>1, <2>2 DEF PinsOK
    <3>2. QED
      BY <1>2, <3>1, DecisionPins, PinWritten
  <2>3. CASE outcome # "approved"
    <3>1. instance' = [instance EXCEPT ![d].status = outcome] /\ outcome \in InstanceStatus
      BY <1>5, <2>3 DEF Decide, Outcome, InstanceStatus
    <3>2. QED
      BY <1>2, <2>1, <3>1, StatusPins
  <2>4. QED
    BY <2>2, <2>3
<1>6. QED
  BY <1>1, <1>3, <1>4, <1>5

LEMMA LimitStep ==
    ASSUME SettingsOK, LimitOK, [Next]_vars
    PROVE  LimitOK'
<1>1. CASE UNCHANGED setting
  BY <1>1 DEF LimitOK
<1>2. Org \in Scope
  BY DEF Scope
<1>3. CASE WritesMode
  <2>1. PICK mode : \E s \in Scope : setting' = [setting EXCEPT !["funding_mode"][s] = mode]
    BY <1>3 DEF WritesMode, SetFundingMode, ChangeSetting
  <2>2. setting'["max_depth"][Org] = setting["max_depth"][Org]
    BY <1>2, <2>1, ModeKey, SettingWritten
  <2>3. QED
    BY <2>2 DEF LimitOK
<1>4. CASE WritesDepth
  <2>1. \A n : setting' = [setting EXCEPT !["max_depth"][Org] = n] => setting'["max_depth"][Org] = n
    <3> SUFFICES ASSUME NEW n, setting' = [setting EXCEPT !["max_depth"][Org] = n]
                 PROVE  setting'["max_depth"][Org] = n
      OBVIOUS
    <3>1. PICK row : row = [setting["max_depth"] EXCEPT ![Org] = n]
      OBVIOUS
    <3>2. setting' = [setting EXCEPT !["max_depth"] = row]
      BY <3>1
    <3>3. "max_depth" \in DOMAIN setting /\ Org \in DOMAIN setting["max_depth"]
      BY <1>2, ModeKey DEF SettingsOK
    <3>4. row[Org] = n
      BY <3>1, <3>3
    <3>5. QED
      BY <3>2, <3>3, <3>4
  <2>2. \E n \in 1..2 : setting' = [setting EXCEPT !["max_depth"][Org] = n]
    BY <1>4, Zenon DEF WritesDepth, ChangeSetting
  <2>3. \E n \in 1..2 : setting'["max_depth"][Org] = n
    BY <2>1, <2>2, Zenon
  <2>4. QED
    BY <2>3 DEF LimitOK
<1>5. QED
  BY <1>1, <1>3, <1>4, StructureIs

LEMMA RoutesStep ==
    ASSUME DocsOK, UnitsOK, SettingsOK, RoutesOK, [Next]_vars
    PROVE  RoutesOK'
<1>1. DefinitionsOK /\ LimitOK /\ PinsOK /\ InstancesOK
  BY DEF RoutesOK, DocsOK, TablesOK
<1>2. LimitOK'
  BY <1>1, LimitStep
<1>3. CASE ApprovalStep
  <2>1. DefinitionsOK'
    BY <1>1, <1>3 DEF ApprovalStep, DefinitionsOK
  <2>2. PinsOK'
    BY <1>1, <1>3, PinsStep
  <2>3. QED
    BY <1>2, <2>1, <2>2 DEF RoutesOK
<1>4. ASSUME UNCHANGED instance, DefinitionsOK', VersionsKept PROVE RoutesOK'
  <2>1. ASSUME NEW d \in Doc, instance'[d].status \in {"running", "returned"}
        PROVE  Pinned(instance[d])'
    <3>1. PICK i : i = instance[d] /\ i = instance'[d]
      BY <1>4
    <3>2. Pinned(i)
      BY <1>1, <2>1, <3>1 DEF PinsOK
    <3>3. Pinned(i)'
      BY <1>1, <1>4, <3>2, PinStays
    <3>4. QED
      BY <3>1, <3>3 DEF Pinned, Graph
  <2>2. QED
    BY <1>2, <1>4, <2>1 DEF RoutesOK, PinsOK
<1>5. CASE UNCHANGED instance /\ DefinitionStep
  BY <1>1, <1>4, <1>5, DefinitionsStep
<1>6. CASE UNCHANGED <<instance, definition>>
  <2>1. DefinitionsOK'
    BY <1>1, <1>6 DEF DefinitionsOK
  <2>2. \A w \in Definition : IsDefinition(definition[w]) /\ definition'[w] = definition[w]
    BY <1>1, <1>6 DEF DefinitionsOK
  <2>3. VersionsKept
    BY <2>2, RowStays DEF VersionsKept
  <2>4. QED
    BY <1>4, <1>6, <2>1, <2>3
<1>7. QED
  BY <1>3, <1>5, <1>6, ApprovalsMove

LEMMA RoutesInit == Init => RoutesOK
<1> SUFFICES ASSUME Init PROVE RoutesOK
  OBVIOUS
<1>1. DefinitionsOK
  <2>1. mix \in Mixes /\ definition = mix.definition
    BY DEF Init
  <2>2. /\ mix.definition = [w \in Definition |-> mix.definition[w]]
        /\ \A w \in Definition : IsDefinition(mix.definition[w])
    BY <2>1, ProjectsAssumption
  <2>3. QED
    BY <2>1, <2>2 DEF DefinitionsOK
<1>2. LimitOK
  <2>1. setting = [key \in Keys |-> [s \in Scope |-> Unset]]
    BY DEF Init, OrganizationInit, Keys
  <2>2. Org \in Scope
    BY DEF Scope
  <2>3. QED
    BY <2>1, <2>2, ModeKey DEF LimitOK
<1>3. PinsOK
  BY DEF Init, PinsOK, NoInstance
<1>4. QED
  BY <1>1, <1>2, <1>3 DEF RoutesOK

\* A pinned approval has a way onward, and its own step still counts.
LEMMA PinnedIsComplete ==
    ASSUME DefinitionsOK, NEW i, Pinned(i)
    PROVE  /\ Kind[i.node] = "approval" /\ i.node \in Graph(i).nodes
           /\ Nowhere \notin Walk(Graph(i), i.node)
           /\ i.done < definition[i.of].versions[i.version].limit
<1>1. /\ i.of \in Definition /\ i.version \in 1..Len(definition[i.of].versions)
      /\ definition[i.of].versions[i.version].status # "draft"
      /\ i.node \in Graph(i).nodes /\ Kind[i.node] = "approval" /\ i.done \in Nat
      /\ i.done + Depth(Graph(i), i.node) <= definition[i.of].versions[i.version].limit
  BY DEF Pinned
<1>2. PICK g, limit, n : /\ g = Graph(i) /\ n = i.node
                         /\ limit = definition[i.of].versions[i.version].limit
  OBVIOUS
<1>3. Sound(g) /\ limit \in Nat
  BY <1>1, <1>2, PinnedGraph
<1>4. n \in g.nodes /\ Kind[n] = "approval" /\ Kind[n] \in {"start", "approval"}
  BY <1>1, <1>2
<1>5. Nowhere \notin Walk(g, n)
  BY <1>3, <1>4, WalkGoesOn
<1>6. Depth(g, n) \in Nat /\ 1 <= Depth(g, n)
  BY <1>3, <1>4, SoundNode, DepthCounts DEF Own
<1>7. i.done + Depth(g, n) <= limit
  BY <1>1, <1>2
<1>8. i.done < limit
  BY <1>1, <1>3, <1>6, <1>7
<1>9. QED
  BY <1>1, <1>2, <1>5, <1>8

\* The invariant of Projects with the routes of its approvals.
RoutesInv == IInv /\ RoutesOK

\* An approval under way always has a way onward: it waits on an approval node of the graph it
\* was started on, the walk from there finds where to go, and the decisions it has taken stay
\* below the limit its version was published under (publish, check_graph, update_version, walk).
THEOREM RoutesAreComplete == Spec => []RoutesComplete
<1>1. Init => RoutesInv
  BY InvInit, RoutesInit DEF RoutesInv
<1>2. RoutesInv /\ [Next]_vars => RoutesInv'
  <2>1. IInv => DocsOK /\ UnitsOK /\ SettingsOK
    BY DEF IInv
  <2>2. QED
    BY <2>1, InvStep, RoutesStep DEF RoutesInv
<1>3. RoutesInv => RoutesComplete
  <2> SUFFICES ASSUME RoutesInv, NEW d \in Doc, instance[d].status = "running"
               PROVE  /\ Kind[instance[d].node] = "approval"
                      /\ instance[d].node \in Graph(instance[d]).nodes
                      /\ Nowhere \notin Walk(Graph(instance[d]), instance[d].node)
                      /\ instance[d].done <
                            definition[instance[d].of].versions[instance[d].version].limit
    BY Zenon DEF RoutesComplete
  <2>1. DefinitionsOK /\ Pinned(instance[d])
    BY DEF RoutesInv, RoutesOK, PinsOK
  <2>2. QED
    BY <2>1, PinnedIsComplete
<1>4. QED
  BY <1>1, <1>2, <1>3, PTL DEF Spec
=============================================================================
