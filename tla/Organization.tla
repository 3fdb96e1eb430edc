----------------------------- MODULE Organization -----------------------------
(***************************************************************************)
(* The organization: its units and settings, the fiscal calendar, document *)
(* numbers and master codes.                                               *)
(*                                                                         *)
(* Structure, settings and the calendar are written under the lock of the  *)
(* organization row; a writer of one step only waits until it is free.     *)
(* Looking up the period of a date is two steps, the first without lock.   *)
(*                                                                         *)
(* Abstracted: a period is a month and a date is the month it lies in; a   *)
(* number is its prefix and its count; names, addresses and the attributes *)
(* of master records are left out.                                         *)
(***************************************************************************)
EXTENDS Integers, FiniteSets, Sequences

CONSTANTS
    Org,            \* the organization as a scope; the other scopes are its units
    Unit,           \* organization units
    Nowhere,        \* SQL NULL where a unit, a project or a definition is expected
    MaxLevels,      \* levels of units: 5
    Months,         \* months of a year: 12
    Year,           \* bound: the calendar years of the dates
    StartMonths,    \* bound: the start months that are configured
    Client,         \* requests in flight
    Prefix,         \* prefixes of numbering formats
    DefaultPrefix,  \* the prefix of DEFAULT_FORMATS
    Code            \* master codes

ASSUME OrganizationAssumption ==
    /\ Org \notin Unit /\ Nowhere \notin Unit \cup {Org} \cup Client
    /\ IsFiniteSet(Unit)
    /\ MaxLevels \in Nat /\ Months \in Nat \ {0}
    /\ Year \subseteq Nat /\ StartMonths \subseteq 1..Months

VARIABLES
    unit,           \* unit[u]: org_unit
    setting,        \* setting[key][scope]: org_setting
    orgLock,        \* who holds the lock of the organization row over several steps
    startMonth,     \* fiscal_calendar.start_month; 1 while there is no row
    period,         \* fiscal_period
    seeking,        \* seeking[c]: the date client c found no period for
    asked,          \* the dates period_for has answered
    numbering,      \* numbering[scope]: the format in force and the counter of a scope
    master          \* master[c]: whether the record of a code is active and effective

calendarVars == <<startMonth, period, seeking, asked>>
structureVars == <<unit, setting, numbering, master>>

Scope == Unit \cup {Org}
Unset == Nowhere
SettingDefault == [funding_mode |-> "roll_down", max_depth |-> 10]

UnitStatus == {"none", "active", "inactive"}

Unlocked == orgLock = Nowhere

-----------------------------------------------------------------------------
(* Units and settings *)

Exists(u) == unit[u].status # "none"

\* The walk from x upward: x itself, its parent and so on, at most n of them.
Ascent(parent, n, x) ==
    LET A[k \in 1..n] ==
            IF k = 1 THEN x ELSE IF A[k - 1] = Nowhere THEN Nowhere ELSE parent[A[k - 1]]
    IN  [k \in {j \in 1..n : A[j] # Nowhere} |-> A[k]]

\* unit_chain: a unit and the units above it.
Above == [u \in Unit |-> unit[u].parent]
Chain(u) == Ascent(Above, Cardinality(Unit), u)

Subtree(scope) ==
    IF scope = Org THEN {u \in Unit : Exists(u)}
    ELSE {u \in Unit : Exists(u) /\ \E k \in 1..Len(Chain(u)) : Chain(u)[k] = scope}

CreateUnit(u, parent) ==
    /\ Unlocked /\ ~Exists(u)
    /\ parent # Nowhere => Exists(parent) /\ Len(Chain(parent)) < MaxLevels
    /\ unit' = [unit EXCEPT ![u] = [status |-> "active", parent |-> parent]]
    /\ UNCHANGED <<setting, orgLock, numbering, master>> /\ UNCHANGED calendarVars

\* update_unit: a unit with active children stays active.
UpdateUnit(u, active) ==
    /\ Unlocked /\ Exists(u)
    /\ active \/ ~\E v \in Unit : unit[v].parent = u /\ unit[v].status = "active"
    /\ unit' = [unit EXCEPT ![u].status = IF active THEN "active" ELSE "inactive"]
    /\ UNCHANGED <<setting, orgLock, numbering, master>> /\ UNCHANGED calendarVars

\* effective_setting, mode_for: the nearest unit that has one, the organization, the default.
Effective(u, key) ==
    LET set == {k \in 1..Len(Chain(u)) : setting[key][Chain(u)[k]] # Unset}
    IN  IF set # {} THEN setting[key][Chain(u)[CHOOSE k \in set : \A j \in set : k <= j]]
        ELSE IF setting[key][Org] # Unset THEN setting[key][Org] ELSE SettingDefault[key]

\* set_setting and clear_setting: what guards the key is asked only when the value changes.
ChangeSetting(key, scope, value, guard) ==
    /\ Unlocked
    /\ scope # Org => Exists(scope)
    /\ setting[key][scope] # value => guard
    /\ setting' = [setting EXCEPT ![key][scope] = value]
    /\ UNCHANGED <<unit, orgLock, numbering, master>> /\ UNCHANGED calendarVars

-----------------------------------------------------------------------------
(* The fiscal calendar.  A date is the number of its month since year 0. *)

\* year_bounds
FirstOf(year, start) == (IF start = 1 THEN year ELSE year - 1) * Months + start - 1

\* period_for, range_for: the fiscal year a date lies in.
FiscalYear(date, start) ==
    (date \div Months) + (IF start # 1 /\ (date % Months) + 1 >= start THEN 1 ELSE 0)

Dates == UNION {{y * Months + m : m \in 0..(Months - 1)} : y \in Year}
Covering(date) == {p \in period : p.month = date}

\* ensure_year: its periods, where they do not exist.
Generated(year) ==
    {[year |-> year, no |-> n, month |-> FirstOf(year, startMonth) + n - 1, closed |-> FALSE] :
        n \in {m \in 1..Months : ~\E p \in period : p.year = year /\ p.no = m}}

\* Fault: the calendar changes though periods exist.
CalendarOpenAlways == TRUE
CalendarOpen == period = {}

SetCalendar(start) ==
    /\ Unlocked /\ CalendarOpen
    /\ startMonth' = start
    /\ UNCHANGED <<orgLock, period, seeking, asked>> /\ UNCHANGED structureVars

EnsureYear(year) ==
    /\ Unlocked
    /\ period' = period \cup Generated(year)
    /\ UNCHANGED <<orgLock, startMonth, seeking, asked>> /\ UNCHANGED structureVars

\* period_for without lock: the period of the date, or nothing.
SeekPeriod(c, date) ==
    /\ seeking[c] = Nowhere
    /\ IF Covering(date) # {} THEN asked' = asked \cup {date} /\ UNCHANGED seeking
       ELSE seeking' = [seeking EXCEPT ![c] = date] /\ UNCHANGED asked
    /\ UNCHANGED <<orgLock, startMonth, period>> /\ UNCHANGED structureVars

\* period_for under the lock: the year of the date under the calendar of now.
GeneratePeriods(c) ==
    /\ Unlocked /\ seeking[c] # Nowhere
    /\ period' = period \cup Generated(FiscalYear(seeking[c], startMonth))
    /\ asked' = asked \cup {seeking[c]}
    /\ seeking' = [seeking EXCEPT ![c] = Nowhere]
    /\ UNCHANGED <<orgLock, startMonth>> /\ UNCHANGED structureVars

\* transition: closing follows the period before, where there is one; reopening starts at the end.
Reopens(p) == ~\E q \in period : q.month > p.month /\ q.closed

ClosePeriod(p) ==
    /\ p \in period /\ ~p.closed
    /\ \A q \in period : q.month = p.month - 1 => q.closed
    /\ period' = (period \ {p}) \cup {[p EXCEPT !.closed = TRUE]}
    /\ UNCHANGED <<orgLock, startMonth, seeking, asked>> /\ UNCHANGED structureVars

ReopenPeriod(p) ==
    /\ p \in period /\ p.closed
    /\ Reopens(p)
    /\ period' = (period \ {p}) \cup {[p EXCEPT !.closed = FALSE]}
    /\ UNCHANGED <<orgLock, startMonth, seeking, asked>> /\ UNCHANGED structureVars

-----------------------------------------------------------------------------
(* Numbers and master codes *)

\* NumberingService.allocate: the format of the unit, else of the organization, else the default
\* one, which counts for the unit.
CounterScope(u) == IF numbering[u].format = Unset /\ numbering[Org].format # Unset THEN Org ELSE u

NextNumber(u) ==
    LET s == CounterScope(u)
        format == numbering[s].format
    IN  <<IF format = Unset THEN DefaultPrefix ELSE format, numbering[s].last + 1>>

\* Committed on a connection of its own, whatever becomes of the document.
CountUp(u) == [numbering EXCEPT ![CounterScope(u)].last = @ + 1]

AddFormat(scope, prefix) ==
    /\ scope # Org => Exists(scope)
    /\ numbering' = [numbering EXCEPT ![scope].format = prefix]
    /\ UNCHANGED <<unit, setting, orgLock, master>> /\ UNCHANGED calendarVars

\* create_master, update_master: a record is active or not, and today within its dates or not.
WriteMaster(code, active, effective) ==
    /\ master' = [master EXCEPT ![code] = [active |-> active, effective |-> effective]]
    /\ UNCHANGED <<unit, setting, orgLock, numbering>> /\ UNCHANGED calendarVars

\* assert_usable
Usable(code) == master[code].active /\ master[code].effective

-----------------------------------------------------------------------------
OrganizationInit ==
    /\ setting = [key \in DOMAIN SettingDefault |-> [s \in Scope |-> Unset]]
    /\ orgLock = Nowhere
    /\ startMonth = 1 /\ period = {} /\ asked = {}
    /\ seeking = [c \in Client |-> Nowhere]
    /\ numbering = [s \in Scope |-> [format |-> Unset, last |-> 0]]
    /\ master = [c \in Code |-> [active |-> TRUE, effective |-> TRUE]]

(***************************************************************************)
(* The fiscal calendar holds together, although it may be changed between  *)
(* the two looks of period_for.  Periods never overlap; a date somebody    *)
(* asked the period of has one, as period_for asserts; and no open period  *)
(* of a year lies before a closed one of the same year (set_calendar,      *)
(* ensure_year, period_for, transition).                                   *)
(***************************************************************************)
CalendarHolds ==
    /\ \A p, q \in period : p.month = q.month => p = q
    /\ \A date \in asked : Covering(date) # {}
    /\ \A p, q \in period : p.year = q.year /\ p.no < q.no /\ q.closed => p.closed
=============================================================================
